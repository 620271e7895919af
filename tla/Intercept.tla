----------------------------- MODULE Intercept -----------------------------
(***************************************************************************)
(* halt/intercept: what happens to a connection the sandbox opens.          *)
(*                                                                         *)
(* TerminatingProxy (terminate.py) runs one handler thread per accepted     *)
(* connection: peek, finish the TLS handshake, read a request head, tell    *)
(* the observer, ask PolicyGate.decide (gate.py), and forward or close.     *)
(* decide reports every decision to the Supervisor, on the handler's own    *)
(* thread: the TripEvent of connection c is the event c of Supervisor, and  *)
(* report's body is Supervisor's ThreadStep(c).  Events outside conns are   *)
(* what other fuses report.                                                 *)
(*                                                                         *)
(* A request is what _parse_head and the destination make of it; Policy      *)
(* says what the run's allowlist makes of that.                             *)
(***************************************************************************)
EXTENDS Supervisor, Policy

CONSTANT ConnSets   \* the sets of events that may be a run's connections

ASSUME InterceptAssumption ==
  /\ ConnSets \subseteq SUBSET Events
  /\ None \notin Requests

VARIABLES conns,     \* this run's connections
          hpc,       \* where the handler of c is
          tls,       \* c speaks TLS: the SSLSocket owns the descriptor
          request,   \* what the gate is shown, None before
          seen,      \* DenyAllProxy._seen
          errors,    \* DenyAllProxy._callback_errors, by connection
          sandbox,   \* the sandbox-side socket: "none", "open", "closed" or "held"
          upstream   \* the upstream socket: "none", "open", "sent" or "closed"

handlerVars == <<conns, hpc, tls, request, seen, errors, sandbox, upstream>>
ivars == <<vars, handlerVars>>

HandlerPcs == {"none", "peek", "handshake", "head", "gate", "deciding",
               "connect", "replay", "relay", "over"}

InterceptTypeOK ==
  /\ conns \in ConnSets
  /\ hpc \in [Events -> HandlerPcs]
  /\ tls \in [Events -> BOOLEAN]
  /\ request \in [Events -> Requests \cup {None}]
  /\ seen \subseteq Events
  /\ errors \subseteq Events
  /\ sandbox \in [Events -> {"none", "open", "closed", "held"}]
  /\ upstream \in [Events -> {"none", "open", "sent", "closed"}]

InterceptInit ==
  /\ Init
  /\ conns \in ConnSets
  /\ hpc = [c \in Events |-> "none"]
  /\ tls = [c \in Events |-> FALSE]
  /\ request = [c \in Events |-> None]
  /\ seen = {} /\ errors = {}
  /\ sandbox = [c \in Events |-> "none"]
  /\ upstream = [c \in Events |-> "none"]

-----------------------------------------------------------------------------
Goto(c, l) == hpc' = [hpc EXCEPT ![c] = l]

\* _notify: recorded as seen, then the observer is told; an observer that
\* raises is recorded and the handler goes on.
Notify(c) ==
  /\ seen' = seen \cup {c}
  /\ errors' \in {errors, errors \cup {c}}

\* The sandbox's side, as a handler that is over leaves it.  conn.close() closes a
\* plain connection.  A TLS one was detached into the SSLSocket, which is closed
\* when the last reference to it goes; an exception kept in _callback_errors, the
\* handler's or its observer's, refers to the frames that hold it.
CloseSandbox(c) ==
  sandbox' = [sandbox EXCEPT ![c] = IF tls[c] /\ c \in errors' THEN "held" ELSE "closed"]

\* _handle_accepted returned to _run_handler.
EndQuietly(c) == Goto(c, "over") /\ CloseSandbox(c)

\* Mutant of EndRaised: the handler's exception is passed over.
EndRaisedSilently(c) ==
  /\ UNCHANGED errors
  /\ Goto(c, "over") /\ CloseSandbox(c)

\* _handle_accepted raised, and the exception is kept.
EndRaised(c) ==
  /\ errors' = errors \cup {c}
  /\ Goto(c, "over") /\ CloseSandbox(c)

\* _serve accepts, _dispatch starts a thread for the connection.
Accept(c) ==
  /\ hpc[c] = "none" /\ pc[c] = "idle"
  /\ Goto(c, "peek")
  /\ sandbox' = [sandbox EXCEPT ![c] = "open"]
  /\ UNCHANGED <<tls, request, seen, errors, upstream>>

\* getsockname raises, of a connection that was not redirected.
AddressRaises(c) ==
  /\ hpc[c] = "peek"
  /\ EndRaised(c)
  /\ UNCHANGED <<tls, request, seen, upstream>>

\* The first byte says TLS or plain HTTP.
Peek(c) ==
  /\ hpc[c] = "peek"
  /\ \E t \in BOOLEAN :
       /\ tls' = [tls EXCEPT ![c] = t]
       /\ Goto(c, IF t THEN "handshake" ELSE "head")
  /\ UNCHANGED <<request, seen, errors, sandbox, upstream>>

\* No first byte before the timeout or the end of the connection: the observer
\* is told, the gate is not asked.
PeekNothing(c) ==
  /\ hpc[c] = "peek"
  /\ Notify(c) /\ EndQuietly(c)
  /\ UNCHANGED <<tls, request, upstream>>

HandshakeOk(c) ==
  /\ hpc[c] = "handshake"
  /\ Goto(c, "head")
  /\ UNCHANGED <<tls, request, seen, errors, sandbox, upstream>>

\* An untrusting client, an abort, a timeout: reported with no path.
HandshakeFails(c) ==
  /\ hpc[c] = "handshake"
  /\ Notify(c)
  /\ \E q \in Requests : q.path = NoPath /\ request' = [request EXCEPT ![c] = q]
  /\ Goto(c, "gate")
  /\ UNCHANGED <<tls, sandbox, upstream>>

\* _read_head and _parse_head.  A head cut short, too long or not HTTP/1.x has
\* no path.
ReadHead(c) ==
  /\ hpc[c] = "head"
  /\ Notify(c)
  /\ \E q \in Requests : request' = [request EXCEPT ![c] = q]
  /\ Goto(c, "gate")
  /\ UNCHANGED <<tls, sandbox, upstream>>

\* _parse_head raises on a Host port that isdigit() but is not an int().
HeadRaises(c) ==
  /\ hpc[c] = "head"
  /\ EndRaised(c)
  /\ UNCHANGED <<tls, request, seen, upstream>>

HandlerStep(c) ==
  /\ \/ AddressRaises(c) \/ Peek(c) \/ PeekNothing(c) \/ HandshakeOk(c)
     \/ HandshakeFails(c) \/ ReadHead(c) \/ HeadRaises(c)
  /\ UNCHANGED <<conns, vars>>

\* PolicyGate.decide forwards a request that has a path and that the network fuse
\* does not trip on.
Allowed(q) == q.path # NoPath /\ NetworkAllowed(q)

\* What it reports: an INFO event of a request it forwards, a KILL of any other.
Verdict(q) == IF Allowed(q) THEN "info" ELSE "kill"

CallGate(c) ==
  /\ hpc[c] = "gate"
  /\ Report(c, Verdict(request[c]))
  /\ Goto(c, "deciding")
  /\ UNCHANGED <<conns, tls, request, seen, errors, sandbox, upstream>>

\* Mutant of GateReturns: the answer is taken before report has come back.
GateReturnsEarly(c) ==
  /\ hpc[c] = "deciding"
  /\ UNCHANGED <<tls, request, seen, errors, upstream>>
  /\ IF Allowed(request[c])
     THEN Goto(c, "connect") /\ UNCHANGED sandbox
     ELSE EndQuietly(c)

\* Mutant of GateReturns: a denied connection is held on to.
GateReturnsForward(c) ==
  /\ hpc[c] = "deciding" /\ pc[c] = "returned"
  /\ Allowed(request[c])
  /\ Goto(c, "connect")
  /\ UNCHANGED <<tls, request, seen, errors, sandbox, upstream>>

\* report came back, so decide does: forward, or drop.
GateReturns(c) ==
  /\ hpc[c] = "deciding" /\ pc[c] = "returned"
  /\ UNCHANGED <<tls, request, seen, errors, upstream>>
  /\ IF Allowed(request[c])
     THEN Goto(c, "connect") /\ UNCHANGED sandbox
     ELSE EndQuietly(c)

\* report raised, through decide, into _run_handler.
GateRaises(c) ==
  /\ hpc[c] = "deciding" /\ pc[c] = "raised"
  /\ EndRaised(c)
  /\ UNCHANGED <<tls, request, seen, upstream>>

\* Mutant of Connect: upstream is the address before it is the socket.
ConnectLater(c) ==
  /\ hpc[c] = "connect"
  /\ Goto(c, "replay")
  /\ upstream' = [upstream EXCEPT ![c] = "target"]
  /\ UNCHANGED <<tls, request, seen, errors, sandbox>>

\* _forward: open the upstream, replay the head, relay, and close upstream on
\* every way out.
Connect(c) ==
  /\ hpc[c] = "connect"
  /\ Goto(c, "replay")
  /\ upstream' = [upstream EXCEPT ![c] = "open"]
  /\ UNCHANGED <<tls, request, seen, errors, sandbox>>

ConnectRaises(c) ==
  /\ hpc[c] = "connect"
  /\ EndRaised(c)
  /\ UNCHANGED <<tls, request, seen, upstream>>

Replay(c) ==
  /\ hpc[c] = "replay"
  /\ Goto(c, "relay")
  /\ upstream' = [upstream EXCEPT ![c] = "sent"]
  /\ UNCHANGED <<tls, request, seen, errors, sandbox>>

\* Mutant of ReplayRaises: no `finally`.
ReplayRaisesOpen(c) ==
  /\ hpc[c] = "replay"
  /\ EndRaised(c)
  /\ UNCHANGED <<tls, request, seen, upstream>>

\* The upstream's TLS handshake or sendall raises; `finally` closes upstream.
ReplayRaises(c) ==
  /\ hpc[c] = "replay"
  /\ EndRaised(c)
  /\ upstream' = [upstream EXCEPT ![c] = "closed"]
  /\ UNCHANGED <<tls, request, seen>>

\* _relay is over; `finally` closes upstream.  The thread of the second pump could
\* not be started, or the first pump has ended and the second one was joined, or
\* the join timed out: then the pump still running refers to the SSLSocket.
RelayEnds(c) ==
  /\ hpc[c] = "relay"
  /\ \/ EndRaised(c)
     \/ UNCHANGED errors /\ EndQuietly(c)
     \/ UNCHANGED errors /\ Goto(c, "over")
        /\ tls[c] /\ sandbox' = [sandbox EXCEPT ![c] = "held"]
  /\ upstream' = [upstream EXCEPT ![c] = "closed"]
  /\ UNCHANGED <<tls, request, seen>>

\* A pump that outlived its handler ends, and the last reference goes unless an
\* exception was kept as well.
PumpEnds(c) ==
  /\ hpc[c] = "over" /\ sandbox[c] = "held" /\ c \notin errors
  /\ sandbox' = [sandbox EXCEPT ![c] = "closed"]
  /\ UNCHANGED <<hpc, tls, request, seen, errors, upstream>>

ForwardStep(c) ==
  /\ \/ GateReturns(c) \/ GateRaises(c) \/ Connect(c) \/ ConnectRaises(c)
     \/ Replay(c) \/ ReplayRaises(c)
  /\ UNCHANGED <<conns, vars>>

InterceptNext ==
  \/ \E c \in conns :
       \/ Accept(c) /\ UNCHANGED <<conns, vars>>
       \/ HandlerStep(c)
       \/ CallGate(c)
       \/ ForwardStep(c)
       \/ (RelayEnds(c) \/ PumpEnds(c)) /\ UNCHANGED <<conns, vars>>
  \/ \E e \in Events \ conns, s \in Severities : Report(e, s) /\ UNCHANGED handlerVars
  \/ \E e \in Events : ThreadStep(e) /\ UNCHANGED handlerVars
  \/ World /\ UNCHANGED handlerVars

InterceptSpec == InterceptInit /\ [][InterceptNext]_ivars

\* Every recv, connect and send of a handler has a 15 s timeout, so a handler
\* keeps going, inside report too.  How long a relay lasts is up to its two ends.
InterceptFairSpec ==
  /\ InterceptSpec
  /\ \A c \in Events : WF_ivars(HandlerStep(c) \/ CallGate(c) \/ ForwardStep(c))
  /\ \A e \in Events : WF_ivars(ThreadStep(e) /\ UNCHANGED handlerVars)

-----------------------------------------------------------------------------
(* What the gated path promises of the run as a whole.                     *)

\* How a connection that is over ended.
Outcome(c) ==
  CASE pc[c] = "idle" -> "dropped"
    [] pc[c] = "raised" -> "failed"
    [] OTHER -> IF Listed(request[c]) THEN "served" ELSE "refused"

\* How far connection c is: traffic flows while its upstream is open.
Stage(c) ==
  IF upstream[c] \in {"open", "sent"} THEN "flowing"
  ELSE CASE hpc[c] \in {"none", "peek", "handshake", "head"} -> "open"
         [] hpc[c] \in {"gate", "deciding"} -> "asked"
         [] hpc[c] \in {"connect", "replay", "relay"} -> "passed"
         [] OTHER -> Outcome(c)

\* Handlers, gate, supervisor, sinks and backend together keep the promise: every
\* answer follows its record, a request off the allowlist is refused only when the
\* run's kill is over, whichever thread ran it, and the kill is never for an
\* allowed request (gate.py:16-21, 53-78, terminate.py:121-125, 186-191,
\* supervisor.py:54-73).
EN == INSTANCE Enforcement WITH stage <- [c \in conns |-> Stage(c)],
                                asked <- [c \in conns |-> request[c]],
                                Allowlist <- {q \in Requests : Listed(q)},
                                record <- logged \cup teeFailures,
                                kept <- errors,
                                kill <- Phase
ImplementsEnforcement == EN!Spec

-----------------------------------------------------------------------------
\* The upstream is opened only for a request the policy allows, and only once
\* that was observed, reported as INFO, and the report came back with its line
\* on record (gate.py:69-78, terminate.py:186-191): never before the answer,
\* never on a report that raised.
ForwardedOnRecord ==
  \A c \in conns :
    hpc[c] \in {"connect", "replay", "relay"} \/ upstream[c] # "none" =>
      /\ Listed(request[c]) /\ c \in seen
      /\ severity[c] = "info" /\ pc[c] = "returned"
      /\ c \in logged \cup teeFailures

\* No observation is lost in silence (proxy.py:185-193, terminate.py:115-120):
\* when a handler is over its connection was seen or its error was kept, an
\* error of the supervisor's included; and it went past the gate unless it never
\* sent a byte or reading its request raised.
NothingLostSilently ==
  \A c \in conns :
    hpc[c] = "over" =>
      /\ c \in seen \cup errors
      /\ pc[c] = "raised" => c \in errors
      /\ pc[c] = "idle" => request[c] = None

\* Every way out of a handler closes the upstream socket, and the sandbox's side
\* too unless that speaks TLS and an exception was kept of it or it was relayed
\* (terminate.py:121-125, 235-239, 316-319).
SocketsClosed ==
  \A c \in conns :
    hpc[c] = "over" =>
      /\ upstream[c] \in {"none", "closed"}
      /\ sandbox[c] # "closed" => tls[c] /\ (c \in errors \/ upstream[c] = "closed")

\* A request the policy does not allow, or a connection with no request at all,
\* ends closed and in a finished kill (gate.py:16-21, 53-67), whatever other
\* reports and handlers are under way; the one exception is a record that could
\* not be written, and then the error is kept.
DenialKills ==
  \A c \in Events :
    (GoodHost /\ request[c] # None /\ ~Listed(request[c]))
      ~> /\ hpc[c] = "over"
         /\ kstep = "done" \/ (pc[c] = "raised" /\ c \in errors)

\* A denied connection that is over was closed with the run's kill over, finished
\* if the host's calls do not raise, or its report raised and the error is kept
\* (gate.py:16-21, 53-67, supervisor.py:61-73): no denial is ever passed over.
DenialsAnswered ==
  \A c \in conns :
    hpc[c] = "over" /\ request[c] # None /\ ~Listed(request[c]) =>
      \/ /\ pc[c] = "returned" /\ kstep \in {"done", "raised"}
         /\ GoodHost => kstep = "done" /\ kill_result # None
      \/ /\ pc[c] = "raised" /\ c \in errors
         /\ ~SafeWiring

\* A handler gets to its relay or to its end: it is never stuck on the gate,
\* on a kill another handler is running, or on the network (terminate.py:135-191).
HandlerEnds ==
  \A c \in Events : hpc[c] = "peek" ~> hpc[c] \in {"relay", "over"}

-----------------------------------------------------------------------------
(* How far a connection is from its end.                                   *)

\* The most steps the handler of c has left, a relay being one.
HandlerLeft(c) ==
  ReportLeft(c) +
    CASE hpc[c] = "none" -> 8 [] hpc[c] = "peek" -> 7 [] hpc[c] = "handshake" -> 6
      [] hpc[c] = "head" -> 5 [] hpc[c] \in {"gate", "deciding"} -> 4
      [] hpc[c] = "connect" -> 3 [] hpc[c] = "replay" -> 2 [] hpc[c] = "relay" -> 1
      [] OTHER -> 0

\* Every step a handler takes, inside report too, brings its connection nearer to
\* its end, and nothing another handler, a fuse or the host does sets it back
\* (terminate.py:115-239, gate.py:41-78).
HandlersAdvance ==
  [][\A c \in conns :
       /\ \/ HandlerStep(c) \/ CallGate(c) \/ ForwardStep(c)
          \/ ThreadStep(c) /\ UNCHANGED handlerVars
          => HandlerLeft(c)' < HandlerLeft(c)
       /\ HandlerLeft(c)' <= HandlerLeft(c)]_ivars

-----------------------------------------------------------------------------
(* The inductive invariant: the safety properties above follow from it and   *)
(* IInv, see InterceptProofs.                                               *)

\* What a handler that has not asked the gate knows, and has touched.
BeforeGate(c) ==
  hpc[c] \in {"none", "peek", "handshake", "head", "gate"} =>
    /\ pc[c] = "idle" /\ upstream[c] = "none"
    /\ request[c] = None <=> hpc[c] # "gate"

\* From the call of report on, the event is the gate's verdict on the path.
AtGate(c) ==
  /\ request[c] # None => c \in seen
  /\ hpc[c] \in {"deciding", "connect", "replay", "relay"} =>
       request[c] # None /\ pc[c] # "idle" /\ severity[c] = Verdict(request[c])
  /\ hpc[c] \in {"deciding", "connect"} => upstream[c] = "none"
  /\ hpc[c] = "replay" => upstream[c] = "open"
  /\ hpc[c] = "relay" => upstream[c] = "sent"
  /\ hpc[c] \in {"connect", "replay", "relay"} \/ upstream[c] # "none" =>
       /\ request[c] # None /\ Allowed(request[c])
       /\ severity[c] = "info" /\ pc[c] = "returned"

\* What a handler that is over leaves behind.
AtEnd(c) ==
  hpc[c] = "over" =>
    /\ pc[c] \in {"idle", "returned", "raised"}
    /\ c \in seen \cup errors
    /\ pc[c] = "raised" => c \in errors
    /\ IF pc[c] = "idle" THEN request[c] = None
       ELSE request[c] # None /\ severity[c] = Verdict(request[c])
    /\ upstream[c] \in {"none", "closed"}
    /\ sandbox[c] # "closed" => tls[c] /\ (c \in errors \/ upstream[c] = "closed")

HandlerInv == \A c \in conns : BeforeGate(c) /\ AtGate(c) /\ AtEnd(c)

-----------------------------------------------------------------------------
(* What the repository says that the code does not do.                     *)

\* README:65: every observation is logged, trip or not, via Sink.
EveryObservationReported ==
  \A c \in conns : hpc[c] = "over" => pc[c] # "idle"
=============================================================================
