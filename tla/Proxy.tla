------------------------------- MODULE Proxy -------------------------------
(***************************************************************************)
(* The life of a proxy: DenyAllProxy's start, stop and accept loop          *)
(* (halt/intercept/proxy.py), TerminatingProxy's thread per connection and  *)
(* its stop (terminate.py), and the certificates those threads ask for.     *)
(*                                                                         *)
(* The owner calls start and stop; each start has an accept thread of its   *)
(* own.  A DenyAllProxy handles a connection on the accept thread.  What a  *)
(* handler does after the TLS handshake is in Intercept: here it "serves"   *)
(* for as long as it likes, and returns or raises.                          *)
(***************************************************************************)
EXTENDS Certs, Naturals, Sequences, FiniteSets

CONSTANTS MaxStarts, \* bound: how often start is called
          Limits     \* per run: descriptors there are for accepted connections,
                     \* how often start is called, the names that are asked for

ASSUME ProxyAssumption ==
  /\ MaxStarts \in Nat
  /\ Limits \subseteq [fds : Nat, starts : 0 .. MaxStarts, names : SUBSET Names]

VARIABLES posture,   \* "deny": DenyAllProxy, "terminate": TerminatingProxy
          limit,     \* the run's limits
          short,     \* the host ran out of descriptors or of threads
          stopFlag,  \* _stop
          listening, \* _sock is bound
          starts,    \* how many starts there were
          thread,    \* _thread: the start it is the accept thread of, or 0
          owner,     \* where the owner is: "free", in stop, after it
          joined,    \* the handlers this stop has joined
          late,      \* a join of some stop has timed out
          serve,     \* where the accept thread of each start is
          hand,      \* the connection that thread is dispatching
          handlers,  \* _handlers
          backlog,   \* the kernel's queue of connections to accept
          place,     \* where each connection is, and its handler with it
          tls, sni,  \* it speaks TLS, and the name it asked for
          chain      \* the certificate and key its handshake was given

lifeVars == <<posture, limit, short, stopFlag, listening, starts, thread,
              owner, joined, late>>
loopVars == <<serve, hand, handlers, backlog>>
connVars == <<place, tls, sni, chain>>
pvars == <<certVars, lifeVars, loopVars, connVars>>

Starts == 1 .. MaxStarts
InHandshake == {"lock", "request", "sign", "load"}
Handling == {"peek", "serving"} \cup InHandshake
\* A handler that is over has closed its connection, or left it to an exception
\* that was kept, or to the second pump of its relay.
HandlerOver == {"closed", "held", "pumping"}

TypeOK ==
  /\ CertsTypeOK
  /\ posture \in {"deny", "terminate"} /\ limit \in Limits
  /\ short \in BOOLEAN /\ stopFlag \in BOOLEAN
  /\ listening \in BOOLEAN /\ late \in BOOLEAN
  /\ starts \in 0 .. MaxStarts /\ thread \in 0 .. starts
  /\ owner \in {"free", "join", "close", "handlers", "stopped", "raised"}
  /\ joined \subseteq handlers /\ handlers \subseteq Conns
  /\ serve \in [Starts -> {"none", "check", "accept", "dispatch", "begin",
                           "inline", "ended"}]
  /\ hand \in [Starts -> Conns \cup {None}]
  /\ backlog \in Seq(Conns)
  /\ place \in [Conns -> {"away", "backlog", "reset", "taken"} \cup Handling \cup HandlerOver]
  /\ tls \in [Conns -> BOOLEAN]
  /\ sni \in [Conns -> Names \cup {None}]
  /\ chain \in [Conns -> [crt : Mints, key : Mints] \cup {None}]

Init ==
  /\ CertsInit
  /\ posture \in {"deny", "terminate"} /\ limit \in Limits
  /\ short = FALSE /\ stopFlag = FALSE /\ listening = FALSE /\ late = FALSE
  /\ starts = 0 /\ thread = 0 /\ owner = "free" /\ joined = {}
  /\ serve = [g \in Starts |-> "none"] /\ hand = [g \in Starts |-> None]
  /\ handlers = {} /\ backlog = <<>>
  /\ place = [c \in Conns |-> "away"] /\ tls = [c \in Conns |-> FALSE]
  /\ sni = [c \in Conns |-> None] /\ chain = [c \in Conns |-> None]

Go(g, l) == serve' = [serve EXCEPT ![g] = l]
Put(c, l) == place' = [place EXCEPT ![c] = l]

\* The connections that have a descriptor.
Open == {c \in Conns : \/ place[c] \in {"taken", "held"} \cup Handling
                       \/ place[c] = "pumping" /\ tls[c]}

-----------------------------------------------------------------------------
(* The owner: start() and stop(), and the sandbox that connects.            *)

\* Bind, listen, and an accept thread.  _stop is left as it is.
Start ==
  /\ owner \in {"free", "stopped", "raised"} /\ ~listening /\ starts < limit.starts
  /\ listening' = TRUE
  /\ starts' = starts + 1 /\ thread' = starts + 1
  /\ Go(starts + 1, "check") /\ owner' = "free"
  /\ UNCHANGED <<certVars, connVars, posture, limit, short, stopFlag, joined,
                 late, hand, handlers, backlog>>

\* The sandbox connects; the kernel queues it for the listener.
Connect(c) ==
  /\ place[c] = "away" /\ listening
  /\ Put(c, "backlog") /\ backlog' = Append(backlog, c)
  /\ UNCHANGED <<certVars, lifeVars, serve, hand, handlers, tls, sni, chain>>

\* There is no thread for the accept loop: start raises, the listener is bound.
StartRefused ==
  /\ owner \in {"free", "stopped", "raised"} /\ ~listening /\ starts < limit.starts
  /\ listening' = TRUE /\ short' = TRUE
  /\ starts' = starts + 1 /\ thread' = starts + 1 /\ owner' = "free"
  /\ UNCHANGED <<certVars, loopVars, connVars, posture, limit, stopFlag, joined, late>>

\* stop begins (or begins again, if it raised).
CallStop ==
  /\ owner \in {"free", "raised"}
  /\ stopFlag' = TRUE /\ joined' = {} /\ owner' = "join"
  /\ UNCHANGED <<certVars, loopVars, connVars, posture, limit, short, listening,
                 starts, thread, late>>

NeverBegan == thread # 0 /\ serve[thread] = "none"
AcceptThreadOver == thread = 0 \/ serve[thread] = "ended"

\* Mutant of JoinAccept: stop does not wait for the accept thread.
JoinAcceptNot ==
  /\ owner = "join"
  /\ owner' = "close" /\ thread' = 0
  /\ UNCHANGED <<loopVars, connVars, listening, joined, late>>

\* stop waits for the accept thread, two seconds at most.  A thread that never
\* began cannot be joined: stop raises, and leaves the listener.
JoinAccept ==
  /\ owner = "join"
  /\ IF NeverBegan
     THEN owner' = "raised" /\ UNCHANGED <<thread, late>>
     ELSE owner' = "close" /\ thread' = 0 /\ late' = (late \/ ~AcceptThreadOver)
  /\ UNCHANGED <<loopVars, connVars, listening, joined>>

\* The listener goes, and with it what it had not accepted.
CloseListener ==
  /\ owner = "close"
  /\ owner' = IF posture = "terminate" THEN "handlers" ELSE "stopped"
  /\ listening' = FALSE /\ backlog' = <<>>
  /\ place' = [c \in Conns |-> IF place[c] = "backlog" THEN "reset" ELSE place[c]]
  /\ UNCHANGED <<thread, joined, late, serve, hand, handlers, tls, sni, chain>>

\* Mutant of JoinHandler: the join has no timeout.
JoinHandlerForever(c) ==
  /\ owner = "handlers" /\ c \in handlers \ joined
  /\ place[c] \in HandlerOver
  /\ joined' = joined \cup {c}
  /\ UNCHANGED <<loopVars, connVars, listening, thread, owner, late>>

\* TerminatingProxy.stop waits for each handler, two seconds at most, unless one
\* never began.
JoinHandler(c) ==
  /\ owner = "handlers" /\ c \in handlers \ joined
  /\ IF place[c] = "taken"
     THEN owner' = "raised" /\ UNCHANGED <<joined, late>>
     ELSE joined' = joined \cup {c} /\ late' = (late \/ place[c] \in Handling)
          /\ UNCHANGED owner
  /\ UNCHANGED <<loopVars, connVars, listening, thread>>

\* Mutant of ForgetHandlers: only the list is new.
ForgetHandlersOnly ==
  /\ owner = "handlers" /\ handlers \subseteq joined
  /\ owner' = "stopped" /\ handlers' = {}
  /\ UNCHANGED <<connVars, listening, thread, joined, late, serve, hand, backlog>>

ForgetHandlers ==
  /\ owner = "handlers" /\ handlers \subseteq joined
  /\ owner' = "stopped" /\ handlers' = {} /\ joined' = {}
  /\ UNCHANGED <<connVars, listening, thread, late, serve, hand, backlog>>

StopStep ==
  /\ JoinAccept \/ CloseListener \/ ForgetHandlers \/ \E c \in Conns : JoinHandler(c)
  /\ UNCHANGED <<certVars, posture, limit, short, stopFlag, starts>>

-----------------------------------------------------------------------------
(* The accept thread of start g: _serve and _dispatch.                      *)

\* Mutant of CheckStop: while True.
CheckStopNever(g) ==
  /\ serve[g] = "check" /\ Go(g, "accept")
  /\ UNCHANGED <<short, hand, handlers, backlog, place>>

CheckStop(g) ==
  /\ serve[g] = "check"
  /\ Go(g, IF stopFlag THEN "ended" ELSE "accept")
  /\ UNCHANGED <<short, hand, handlers, backlog, place>>

Accept(g) ==
  /\ serve[g] = "accept" /\ listening /\ backlog # <<>>
  /\ Cardinality(Open) < limit.fds
  /\ Go(g, "dispatch") /\ hand' = [hand EXCEPT ![g] = Head(backlog)]
  /\ Put(Head(backlog), "taken") /\ backlog' = Tail(backlog)
  /\ UNCHANGED <<short, handlers>>

\* Nobody connected for 0.2 s.
AcceptTimesOut(g) ==
  /\ serve[g] = "accept" /\ listening /\ backlog = <<>>
  /\ Go(g, "check")
  /\ UNCHANGED <<short, hand, handlers, backlog, place>>

\* accept raises OSError: the listener was closed (or _sock is None already), or
\* there is no descriptor for the connection.
AcceptRaises(g) ==
  /\ serve[g] = "accept"
  /\ ~listening \/ (backlog # <<>> /\ Cardinality(Open) >= limit.fds)
  /\ Go(g, "ended") /\ short' = (short \/ listening)
  /\ UNCHANGED <<hand, handlers, backlog, place>>

\* DenyAllProxy._dispatch handles the connection here and now; TerminatingProxy's
\* makes a thread, and remembers it before it starts it.
Dispatch(g) ==
  /\ serve[g] = "dispatch"
  /\ IF posture = "deny"
     THEN Go(g, "inline") /\ Put(hand[g], "serving") /\ UNCHANGED handlers
     ELSE Go(g, "begin") /\ handlers' = handlers \cup {hand[g]} /\ UNCHANGED place
  /\ UNCHANGED <<short, hand, backlog>>

\* Mutant of InlineEnds: what the handler raises ends the loop.
InlineEndsLoop(g) ==
  /\ serve[g] = "inline"
  /\ Go(g, "check") \/ Go(g, "ended")
  /\ Put(hand[g], "closed") /\ hand' = [hand EXCEPT ![g] = None]
  /\ UNCHANGED <<short, handlers, backlog>>

\* The handler returned or raised, which _dispatch keeps: closed either way.
InlineEnds(g) ==
  /\ serve[g] = "inline"
  /\ Go(g, "check") /\ Put(hand[g], "closed") /\ hand' = [hand EXCEPT ![g] = None]
  /\ UNCHANGED <<short, handlers, backlog>>

BeginHandler(g) ==
  /\ serve[g] = "begin"
  /\ Go(g, "check") /\ Put(hand[g], "peek") /\ hand' = [hand EXCEPT ![g] = None]
  /\ UNCHANGED <<short, handlers, backlog>>

\* The host has no thread to give: Thread.start raises, through _serve.
BeginRefused(g) ==
  /\ serve[g] = "begin"
  /\ Go(g, "ended") /\ short' = TRUE /\ hand' = [hand EXCEPT ![g] = None]
  /\ UNCHANGED <<handlers, backlog, place>>

ServeStep(g) ==
  /\ \/ CheckStop(g) \/ Accept(g) \/ AcceptTimesOut(g) \/ AcceptRaises(g)
     \/ Dispatch(g) \/ InlineEnds(g) \/ BeginHandler(g) \/ BeginRefused(g)
  /\ UNCHANGED <<certVars, posture, limit, stopFlag, listening, starts, thread,
                 owner, joined, late, tls, sni, chain>>

-----------------------------------------------------------------------------
(* The handler of connection c.                                             *)

\* Plain or silent, TLS without a name (the placeholder's chain), or TLS with a
\* name: _on_sni asks for its certificate.
Peek(c) ==
  /\ place[c] = "peek"
  /\ \/ Put(c, "serving") /\ UNCHANGED <<tls, sni>>
     \/ Put(c, "serving") /\ tls' = [tls EXCEPT ![c] = TRUE] /\ UNCHANGED sni
     \/ \E n \in limit.names :
          /\ Put(c, "lock") /\ tls' = [tls EXCEPT ![c] = TRUE]
          /\ sni' = [sni EXCEPT ![c] = n]
  /\ UNCHANGED <<certVars, chain>>

LeafFor(c) ==
  /\ \/ place[c] = "lock" /\ Cached(sni[c]) /\ Put(c, "load")
     \/ place[c] = "lock" /\ LockToMint(c, sni[c]) /\ Put(c, "request")
     \/ place[c] = "request" /\ WriteKey(c, sni[c]) /\ Put(c, "sign")
     \/ place[c] = "sign" /\ WriteCrt(c, sni[c]) /\ Put(c, "load")
     \/ place[c] \in {"request", "sign"} /\ MintFails(c, sni[c]) /\ Put(c, "serving")
  /\ UNCHANGED <<tls, sni, chain>>

\* The chain for this handshake; one whose key does not fit is refused and the
\* handshake fails.
LoadChain(c) ==
  /\ place[c] = "load"
  /\ chain' = [chain EXCEPT ![c] = OnFile(sni[c])]
  /\ Put(c, "serving")
  /\ UNCHANGED <<certVars, tls, sni>>

HandshakeStep(c) ==
  (Peek(c) \/ LeafFor(c) \/ LoadChain(c)) /\ UNCHANGED <<lifeVars, loopVars>>

\* The rest of _handle_accepted is over.  An exception that was kept keeps the
\* SSLSocket, which owns the descriptor of a TLS connection.  _relay joins its
\* second pump for 15 s at most: a pump that goes on is a thread no one knows of.
HandlerEnds(c) ==
  /\ posture = "terminate" /\ place[c] = "serving"
  /\ Put(c, "closed") \/ Put(c, "pumping") \/ (tls[c] /\ Put(c, "held"))
  /\ UNCHANGED <<certVars, lifeVars, loopVars, tls, sni, chain>>

PumpEnds(c) ==
  /\ place[c] = "pumping"
  /\ Put(c, "closed") \/ (tls[c] /\ Put(c, "held"))
  /\ UNCHANGED <<certVars, lifeVars, loopVars, tls, sni, chain>>

Next ==
  \/ Start \/ StartRefused \/ CallStop \/ StopStep
  \/ \E c \in Conns : Connect(c) \/ HandshakeStep(c) \/ HandlerEnds(c) \/ PumpEnds(c)
  \/ \E g \in Starts : ServeStep(g)

Spec == Init /\ [][Next]_pvars

\* Joins, accept and the 0.2 s timeout return, an observer called on the accept
\* thread comes back, and openssl exits.  How long a handler serves is open.
FairSpec ==
  /\ Spec
  /\ WF_pvars(StopStep)
  /\ \A g \in Starts : WF_pvars(ServeStep(g))
  /\ \A c \in Conns : WF_pvars(HandshakeStep(c))

-----------------------------------------------------------------------------
\* When stop returned and no join of it timed out, no accept thread and no handler
\* runs, and nothing is queued (proxy.py:149-156, terminate.py:127-131): the accept
\* thread is over before the handlers it may have begun are counted.  A connection
\* is closed by then, but for two that stop does not know of, with TerminatingProxy
\* only: the TLS connection of an exception that was kept, and one whose relay has
\* left a pump running (terminate.py:316-319).
CleanStop ==
  owner = "stopped" /\ ~late =>
    /\ \A g \in Starts : serve[g] \in {"none", "ended"}
    /\ handlers = {} /\ backlog = <<>>
    /\ \A c \in Conns :
         \/ place[c] \in {"away", "reset", "closed"}
         \/ posture = "terminate" /\ (place[c] = "pumping" \/ (place[c] = "held" /\ tls[c]))

\* Once stop has waited for the accept thread no connection is accepted, by that
\* thread or by one that a later start brings up (proxy.py:150, 200): _stop stays
\* set for the proxy's life, so a proxy that was stopped only binds and listens.
NoneAcceptedAfterStop ==
  [][\A c \in Conns :
       place[c] = "backlog" /\ place'[c] = "taken" /\ stopFlag => late \/ owner = "join"]_pvars

\* A connection is accepted and handed to its handler whatever the other handlers
\* are doing, a relay without end included (terminate.py:103-107), unless stop is
\* called or the host has run out of descriptors or threads.
Served ==
  \A c \in Conns :
    place[c] \in {"backlog", "taken"} ~>
      place[c] \notin {"backlog", "taken"} \/ stopFlag \/ short

\* stop comes back however long handlers, reports and relays run
\* (proxy.py:152, terminate.py:130).
StopReturns == owner = "join" ~> owner \in {"stopped", "raised"}

\* A handshake is given a certificate and a key of one mint, for the name it
\* asked for (certs.py:59-66, terminate.py:211-214): not one that another handler
\* is writing, nor what an earlier process left, complete or not.  Names that
\* share their files are the exception (certs.py:90).
CertificateFits ==
  \A c \in Conns :
    chain[c] # None /\ (\A n \in Names \ {sni[c]} : stem[n] # stem[sni[c]]) =>
      /\ chain[c].crt = chain[c].key
      /\ chain[c].crt \in Conns /\ sni[chain[c].crt] = sni[c]

\* The authority is a KeyRing for the names with files of their own: whatever the
\* handlers interleave, mints fail and an earlier process left, and although the
\* pair is read back from two files without the lock, a name is minted once and
\* every handshake for it gets that one pair (certs.py:54-86, terminate.py:211-214).
Private(n) == \A o \in Names \ {n} : stem[o] # stem[n]
Own(c) == sni[c] # None /\ Private(sni[c])
KR == INSTANCE KeyRing WITH
        asked <- [c \in Conns |-> IF Own(c) THEN sni[c] ELSE None],
        pair <- [n \in Names |-> IF n \in leaves /\ Private(n) THEN OnFile(n) ELSE None],
        given <- [c \in Conns |-> IF Own(c) THEN chain[c] ELSE None]
ImplementsKeyRing == KR!Spec

\* Waiting for a certificate ends, when another handler's mint failed too
\* (certs.py:61-66).
HandshakeGoesOn ==
  \A c \in Conns : place[c] \in InHandshake ~> place[c] \notin InHandshake

\* How far a connection's handshake is from its end.
HandshakeLeft(c) ==
  CASE place[c] \in {"away", "backlog", "taken"} -> 6 [] place[c] = "peek" -> 5
    [] place[c] = "lock" -> 4 [] place[c] = "request" -> 3
    [] place[c] = "sign" -> 2 [] place[c] = "load" -> 1 [] OTHER -> 0

\* No step sets a handshake back, its own bring it on, and one that has to wait
\* waits for a handler that is minting, not for one that has failed or is gone
\* (certs.py:61-86, terminate.py:208-216).
HandshakesAdvance ==
  [][/\ \A c \in Conns :
          /\ HandshakeStep(c) => HandshakeLeft(c)' < HandshakeLeft(c)
          /\ HandshakeLeft(c)' <= HandshakeLeft(c)
     /\ certLock # None => place[certLock] \in {"request", "sign"}]_pvars

\* How far stop is.
StopAt == CASE owner = "join" -> 3 [] owner = "close" -> 2 [] owner = "handlers" -> 1
            [] OTHER -> 0

\* A stop under way goes on in steps of its own only, never back, and waits for no
\* handler twice; the list it goes through does not grow unless a join timed out
\* (proxy.py:149-157, terminate.py:127-131).
StopAdvances ==
  [][StopAt # 0 =>
       /\ StopStep => StopAt' < StopAt \/ \E c \in handlers : joined' = joined \cup {c} /\ c \notin joined
       /\ StopAt' <= StopAt /\ (StopAt' = StopAt => joined \subseteq joined')
       /\ owner = "handlers" /\ ~late => handlers' \subseteq handlers]_pvars

-----------------------------------------------------------------------------
(* The inductive invariant.                                                 *)

\* The accept threads: unless a join timed out, at most the latest is alive, and
\* once stop has joined it none gets to accept again.
ThreadInv ==
  /\ \A g \in Starts : g > starts => serve[g] = "none"
  /\ thread # 0 => listening
  /\ owner \in {"close", "handlers", "stopped"} => thread = 0
  /\ owner \in {"handlers", "stopped"} => ~listening
  /\ ~late => \A g \in Starts \ {thread} : serve[g] \in {"none", "ended"}
  /\ stopFlag /\ ~late /\ owner # "join" =>
       \A g \in Starts : serve[g] \in {"none", "check", "ended"}

\* What waits in the kernel's queue waits there once, and for a bound listener.
QueueInv ==
  /\ ~listening => backlog = <<>> /\ \A c \in Conns : place[c] # "backlog"
  /\ \A i \in 1..Len(backlog) : place[backlog[i]] = "backlog"
  /\ \A i, j \in 1..Len(backlog) : backlog[i] = backlog[j] => i = j

\* What each accept thread has in hand.
HandInv ==
  /\ \A g \in Starts :
       /\ serve[g] \in {"none", "check", "accept", "ended"} => hand[g] = None
       /\ serve[g] \in {"dispatch", "begin"} => hand[g] \in Conns /\ place[hand[g]] = "taken"
       /\ serve[g] = "begin" => posture = "terminate"
       /\ serve[g] = "inline" =>
            hand[g] \in Conns /\ place[hand[g]] = "serving" /\ posture = "deny"
  /\ \A g, h \in Starts : hand[g] = hand[h] /\ hand[g] # None => g = h

Queued == {backlog[i] : i \in 1..Len(backlog)}
InHand(c) == \E g \in Starts : hand[g] = c /\ serve[g] \in {"dispatch", "inline"}

\* Until a join times out, whatever is under way is in an accept thread's hand or
\* in the list that stop goes through.
HandlersInv ==
  /\ \A c \in handlers : place[c] \notin {"away", "backlog", "reset"}
  /\ posture = "deny" => handlers = {}
  /\ ~late => /\ \A c \in Conns :
                    place[c] \in {"taken"} \cup Handling => c \in handlers \/ InHand(c)
              /\ \A c \in joined : place[c] \in HandlerOver
              /\ owner = "stopped" => handlers = {}

\* What a handler may leave behind it.
LeftInv ==
  \A c \in Conns : /\ place[c] \in {"held", "pumping"} => posture = "terminate"
                   /\ place[c] = "held" => tls[c]

Paired(n) ==
  /\ crts[stem[n]] = keys[stem[n]]
  /\ crts[stem[n]] \in Conns /\ sni[crts[stem[n]]] = n

\* One handler mints at a time, a name is cached once its pair is whole, and the
\* pair of a cached name is not touched again.
CertInv ==
  /\ \A c \in Conns : place[c] \in {"request", "sign"} <=> certLock = c
  /\ \A c \in Conns :
       /\ place[c] \in {"away", "backlog", "reset", "taken", "peek"} =>
            sni[c] = None /\ chain[c] = None
       /\ place[c] \in InHandshake \/ chain[c] # None => sni[c] \in Names
       /\ place[c] \in {"request", "sign"} => sni[c] \notin leaves
       /\ place[c] = "sign" => keys[stem[sni[c]]] = c
       /\ place[c] = "load" => sni[c] \in leaves
  /\ \A n \in leaves : Private(n) => Paired(n)
  /\ CertificateFits

\* A connection that waits is in the queue of a listener with a live accept thread,
\* and one that was taken is in the hand of a live thread, unless the host ran
\* short: no exception, timeout or handler ends the loop, and no step of it drops
\* what it has accepted (proxy.py:139-146, 198-216, terminate.py:103-113).
NoneOrphaned ==
  /\ \A c \in Conns : place[c] = "backlog" => listening /\ c \in Queued
  /\ listening /\ ~stopFlag /\ ~short =>
       /\ thread \in Starts
       /\ serve[thread] \in {"check", "accept", "dispatch", "begin", "inline"}
  /\ ~short => \A c \in Conns :
       place[c] = "taken" =>
         \E g \in Starts : hand[g] = c /\ serve[g] \in {"dispatch", "begin"}

\* What is behind it: without a stop the owner is done with start.
LoopInv == NoneOrphaned /\ (~stopFlag => owner = "free")

\* What was given out is what the files of a name say from then on, and nothing is
\* given out before leaf_for has returned.
RingInv ==
  \A c \in Conns :
    /\ place[c] \in InHandshake => chain[c] = None
    /\ chain[c] # None => sni[c] \in leaves
    /\ chain[c] # None /\ Private(sni[c]) => chain[c] = OnFile(sni[c])

PInv == TypeOK /\ ThreadInv /\ QueueInv /\ HandInv /\ HandlersInv /\ LeftInv
        /\ CertInv

-----------------------------------------------------------------------------
\* proxy.py:205-207: an OSError of accept means "Socket closed under us during
\* stop(); normal shutdown".
AcceptErrorMeansStop ==
  [][\A g \in Starts : serve[g] = "accept" /\ serve'[g] = "ended" => stopFlag]_pvars
=============================================================================
