-------------------------- MODULE InterceptProofs --------------------------
(***************************************************************************)
(* Theorems about Intercept, for any set of connections and whatever else   *)
(* is reported beside them.                                                 *)
(***************************************************************************)
EXTENDS Intercept, SupervisorProofs

USE InterceptAssumption

-----------------------------------------------------------------------------
(* The supervisor inside: a handler changes nothing of it but by report.   *)

LEMMA StepIsSupervisors ==
  ASSUME InterceptTypeOK, InterceptNext
  PROVE  [Next]_vars
  <1>1. conns \subseteq Events
    BY DEF InterceptTypeOK
  <1>2. ASSUME NEW c \in conns, CallGate(c)
        PROVE  Next
    <2>1. Verdict(request[c]) \in Severities
      BY DEF Verdict, Severities
    <2>2. QED
      BY <1>1, <1>2, <2>1 DEF CallGate, Next
  <1>3. ASSUME NEW c \in conns, HandlerStep(c) \/ ForwardStep(c)
        PROVE  UNCHANGED vars
    BY <1>3 DEF HandlerStep, ForwardStep
  <1>4. QED
    BY <1>2, <1>3 DEF InterceptNext, Next

\* A thread inside report leaves the reports that are not, or no longer, under
\* way as they are.
LEMMA ThreadKeeps ==
  ASSUME TypeOK, LockInv, NEW e \in Events, ThreadStep(e), NEW c \in Events
  PROVE  /\ severity' = severity
         /\ pc[c] \in {"idle", "returned", "raised"} => pc'[c] = pc[c]
         /\ pc[c] # "idle" => pc'[c] # "idle"
  <1>0. pc \in [Events -> Pcs]
    BY DEF TypeOK
  <1>1. CASE Emit(e)
    BY <1>1 DEF Emit, reportVars
  <1>2. CASE Decide(e) \/ AlreadyKilled(e) \/ Fire(e)
    BY <1>0, <1>2 DEF Decide, AlreadyKilled, Fire, AfterEmit
  <1>3. CASE RecordCause(e)
    BY <1>3 DEF RecordCause, reportVars
  <1>4. ASSUME lock = e, severity' = severity,
               pc' \in {pc, [pc EXCEPT ![e] = "raised"], [pc EXCEPT ![e] = "returned"]}
        PROVE  /\ severity' = severity
               /\ pc[c] \in {"idle", "returned", "raised"} => pc'[c] = pc[c]
               /\ pc[c] # "idle" => pc'[c] # "idle"
    <2>1. pc[e] = "kill"
      BY <1>4 DEF LockInv
    <2>2. QED
      BY <1>0, <1>4, <2>1
  <1>5. CASE RevokeNext(e) \/ SeverNetwork(e) \/ SeverTap(e) \/ SeverTapDelete(e)
             \/ TerminateProcess(e) \/ Finish(e)
    BY <1>4, <1>5 DEF RevokeNext, SeverNetwork, SeverTap, SeverTapDelete,
                      TerminateProcess, Finish, GoOn
  <1>6. QED
    BY <1>1, <1>2, <1>3, <1>5 DEF ThreadStep, KillStep

-----------------------------------------------------------------------------
(* The handlers.                                                           *)

LEMMA HandlerInit == InterceptInit => InterceptTypeOK /\ HandlerInv
  BY DEF InterceptInit, Init, InterceptTypeOK, HandlerInv, BeforeGate, AtGate, AtEnd,
         HandlerPcs

LEMMA HandlerTypeStep == InterceptTypeOK /\ [InterceptNext]_ivars => InterceptTypeOK'
  <1> SUFFICES ASSUME InterceptTypeOK, [InterceptNext]_ivars
               PROVE  InterceptTypeOK'
    OBVIOUS
  <1> USE DEF InterceptTypeOK, HandlerPcs, Goto, Notify, EndQuietly, EndRaised, CloseSandbox
  <1>1. ASSUME NEW c \in conns, Accept(c), UNCHANGED conns
        PROVE  InterceptTypeOK'
    BY <1>1 DEF Accept
  <1>2. ASSUME NEW c \in conns, HandlerStep(c)
        PROVE  InterceptTypeOK'
    <2>1. CASE Peek(c) \/ PeekNothing(c) \/ HandshakeOk(c)
      BY <1>2, <2>1 DEF HandlerStep, Peek, PeekNothing, HandshakeOk
    <2>2. CASE HandshakeFails(c) \/ HeadRaises(c) \/ AddressRaises(c)
      BY <1>2, <2>2 DEF HandlerStep, HandshakeFails, HeadRaises, AddressRaises
    <2>3. CASE ReadHead(c)
      BY <1>2, <2>3 DEF HandlerStep, ReadHead
    <2>4. QED
      BY <1>2, <2>1, <2>2, <2>3 DEF HandlerStep
  <1>3. ASSUME NEW c \in conns, CallGate(c)
        PROVE  InterceptTypeOK'
    BY <1>3 DEF CallGate
  <1>4. ASSUME NEW c \in conns, ForwardStep(c)
        PROVE  InterceptTypeOK'
    <2>1. CASE GateReturns(c) \/ GateRaises(c)
      BY <1>4, <2>1 DEF ForwardStep, GateReturns, GateRaises
    <2>2. CASE Connect(c) \/ ConnectRaises(c) \/ Replay(c) \/ ReplayRaises(c)
      BY <1>4, <2>2 DEF ForwardStep, Connect, ConnectRaises, Replay, ReplayRaises
    <2>3. QED
      BY <1>4, <2>1, <2>2 DEF ForwardStep
  <1>5. ASSUME NEW c \in conns, RelayEnds(c) \/ PumpEnds(c), UNCHANGED conns
        PROVE  InterceptTypeOK'
    BY <1>5 DEF RelayEnds, PumpEnds
  <1>6. CASE UNCHANGED handlerVars
    BY <1>6 DEF handlerVars
  <1>7. QED
    BY <1>1, <1>2, <1>3, <1>4, <1>5, <1>6 DEF InterceptNext, ivars

\* A step that changes nothing of connection c keeps what holds of c.
LEMMA Untouched ==
  ASSUME NEW c \in conns, BeforeGate(c) /\ AtGate(c) /\ AtEnd(c),
         hpc'[c] = hpc[c], request'[c] = request[c], tls'[c] = tls[c],
         sandbox'[c] = sandbox[c], upstream'[c] = upstream[c],
         c \in seen => c \in seen', c \in errors => c \in errors',
         severity'[c] = severity[c],
         pc[c] \in {"idle", "returned", "raised"} => pc'[c] = pc[c],
         pc[c] # "idle" => pc'[c] # "idle"
  PROVE  (BeforeGate(c) /\ AtGate(c) /\ AtEnd(c))'
  BY DEF BeforeGate, AtGate, AtEnd

LEMMA HandlerInvStep ==
  IInv /\ InterceptTypeOK /\ HandlerInv /\ [InterceptNext]_ivars => HandlerInv'
  <1> SUFFICES ASSUME IInv, InterceptTypeOK, HandlerInv, [InterceptNext]_ivars
               PROVE  HandlerInv'
    OBVIOUS
  <1> DEFINE Inv(c) == BeforeGate(c) /\ AtGate(c) /\ AtEnd(c)
  <1>0. /\ TypeOK /\ LockInv /\ conns \subseteq Events
        /\ \A c \in conns : Inv(c)
    BY DEF IInv, InterceptTypeOK, HandlerInv
  <1>1. ASSUME NEW c \in conns, UNCHANGED <<conns, vars>>,
               Accept(c) \/ HandlerStep(c) \/ ForwardStep(c) \/ RelayEnds(c) \/ PumpEnds(c)
        PROVE  HandlerInv'
    <2>1. ASSUME NEW d \in conns, d # c
          PROVE  Inv(d)'
      <3>1. /\ hpc'[d] = hpc[d] /\ request'[d] = request[d] /\ tls'[d] = tls[d]
            /\ sandbox'[d] = sandbox[d] /\ upstream'[d] = upstream[d]
            /\ seen \subseteq seen' /\ errors \subseteq errors'
        BY <1>0, <1>1, <2>1 DEF InterceptTypeOK, Goto, Notify, EndQuietly, EndRaised,
           CloseSandbox, Accept, HandlerStep, AddressRaises, Peek, PeekNothing,
           HandshakeOk, HandshakeFails, ReadHead, HeadRaises, ForwardStep, GateReturns,
           GateRaises, Connect, ConnectRaises, Replay, ReplayRaises, RelayEnds, PumpEnds
      <3>2. pc' = pc /\ severity' = severity
        BY <1>1 DEF vars, reportVars
      <3>3. QED
        BY <1>0, <2>1, <3>1, <3>2, Untouched
    <2>2. Inv(c)'
      <3>0. /\ c \in Events /\ Inv(c) /\ pc' = pc /\ severity' = severity
        BY <1>0, <1>1 DEF vars, reportVars
      <3> USE DEF InterceptTypeOK, HandlerPcs, Goto, CloseSandbox, BeforeGate, AtGate, AtEnd
      <3>1. CASE Accept(c)
        BY <3>0, <3>1 DEF Accept
      <3>2. CASE HandlerStep(c)
        <4>1. CASE Peek(c) \/ HandshakeOk(c)
          BY <3>0, <4>1 DEF Peek, HandshakeOk
        <4>2. CASE PeekNothing(c) \/ AddressRaises(c) \/ HeadRaises(c)
          BY <3>0, <4>2 DEF PeekNothing, AddressRaises, HeadRaises, Notify, EndQuietly,
                            EndRaised
        <4>3. CASE HandshakeFails(c) \/ ReadHead(c)
          BY <3>0, <4>3 DEF HandshakeFails, ReadHead, Notify
        <4>4. QED
          BY <3>2, <4>1, <4>2, <4>3 DEF HandlerStep
      <3>3. CASE ForwardStep(c)
        <4>1. CASE GateReturns(c)
          BY <3>0, <4>1 DEF GateReturns, EndQuietly, Verdict
        <4>2. CASE GateRaises(c)
          BY <3>0, <4>2 DEF GateRaises, EndRaised
        <4>3. CASE Connect(c) \/ Replay(c)
          BY <3>0, <4>3 DEF Connect, Replay
        <4>4. CASE ConnectRaises(c) \/ ReplayRaises(c)
          BY <3>0, <4>4 DEF ConnectRaises, ReplayRaises, EndRaised
        <4>5. QED
          BY <3>3, <4>1, <4>2, <4>3, <4>4 DEF ForwardStep
      <3>4. CASE RelayEnds(c)
        BY <3>0, <3>4 DEF RelayEnds, EndQuietly, EndRaised
      <3>5. CASE PumpEnds(c)
        BY <3>0, <3>5 DEF PumpEnds
      <3>6. QED
        BY <1>1, <3>1, <3>2, <3>3, <3>4, <3>5
    <2>3. QED
      BY <1>1, <2>1, <2>2 DEF HandlerInv
  <1>2. ASSUME NEW c \in conns, CallGate(c)
        PROVE  HandlerInv'
    <2>1. /\ hpc[c] = "gate" /\ hpc' = [hpc EXCEPT ![c] = "deciding"]
          /\ pc' = [pc EXCEPT ![c] = "emitting"]
          /\ severity' = [severity EXCEPT ![c] = Verdict(request[c])]
          /\ UNCHANGED <<conns, tls, request, seen, errors, sandbox, upstream>>
      BY <1>2 DEF CallGate, Report, Goto
    <2>2. ASSUME NEW d \in conns, d # c
          PROVE  Inv(d)'
      <3>1. hpc'[d] = hpc[d] /\ pc'[d] = pc[d] /\ severity'[d] = severity[d]
        BY <1>0, <2>1, <2>2 DEF TypeOK, InterceptTypeOK
      <3>2. QED
        BY <1>0, <2>1, <2>2, <3>1, Untouched
    <2>3. Inv(c)'
      BY <1>0, <2>1 DEF TypeOK, InterceptTypeOK, BeforeGate, AtGate, AtEnd
    <2>4. QED
      BY <2>1, <2>2, <2>3 DEF HandlerInv
  <1>3. ASSUME UNCHANGED handlerVars,
               \A c \in conns :
                 /\ severity'[c] = severity[c]
                 /\ pc[c] \in {"idle", "returned", "raised"} => pc'[c] = pc[c]
                 /\ pc[c] # "idle" => pc'[c] # "idle"
        PROVE  HandlerInv'
    <2>1. ASSUME NEW c \in conns
          PROVE  Inv(c)'
      BY <1>0, <1>3, <2>1, Untouched DEF handlerVars
    <2>2. QED
      BY <1>3, <2>1 DEF HandlerInv, handlerVars
  <1>4. ASSUME NEW e \in Events \ conns, NEW s \in Severities, Report(e, s),
               UNCHANGED handlerVars
        PROVE  HandlerInv'
    <2>1. \A c \in conns : severity'[c] = severity[c] /\ pc'[c] = pc[c]
      BY <1>0, <1>4 DEF Report, TypeOK
    <2>2. QED
      BY <1>3, <1>4, <2>1
  <1>5. ASSUME NEW e \in Events, ThreadStep(e), UNCHANGED handlerVars
        PROVE  HandlerInv'
    BY <1>0, <1>3, <1>5, ThreadKeeps
  <1>6. CASE World /\ UNCHANGED handlerVars
    BY <1>3, <1>6 DEF World, reportVars
  <1>7. CASE UNCHANGED ivars
    BY <1>3, <1>7 DEF ivars, vars, reportVars
  <1>8. QED
    BY <1>1, <1>2, <1>4, <1>5, <1>6, <1>7 DEF InterceptNext, HandlerStep, ForwardStep

LEMMA InterceptInductive == InterceptSpec => [](IInv /\ InterceptTypeOK /\ HandlerInv)
  <1>1. InterceptInit => IInv
    BY InitIInv DEF InterceptInit
  <1>2. IInv /\ InterceptTypeOK /\ [InterceptNext]_ivars => IInv'
    BY StepIsSupervisors, IInvStep DEF ivars
  <1>3. QED
    BY <1>1, <1>2, HandlerInit, HandlerTypeStep, HandlerInvStep, PTL DEF InterceptSpec

-----------------------------------------------------------------------------
(* Intercept implements Enforcement.                                       *)

\* What the rules allow is what they list, and nothing without a request line is.
LEMMA AllowedIsListed == \A q \in Requests : Allowed(q) <=> Listed(q)
  <1> SUFFICES ASSUME NEW q \in Requests
               PROVE  Allowed(q) <=> Listed(q)
    OBVIOUS
  <1>1. q = [host |-> q.host, port |-> q.port, path |-> q.path]
    BY PolicyAssumption DEF RequestOf
  <1>2. ASSUME NEW r \in NetworkRules
        PROVE  Matches(r, q) <=> q \in [host : r.hosts, port : {r.port}, path : r.paths]
    BY <1>1 DEF Matches
  <1>3. ASSUME NEW r \in NetworkRules, Matches(r, q)
        PROVE  q.path # NoPath
    BY <1>3, PolicyAssumption DEF Matches
  <1>4. QED
    BY <1>2, <1>3 DEF Allowed, NetworkAllowed, Listed

\* Only a handler that is in report has its event under way.
LEMMA UnderWay ==
  ASSUME TypeOK, InterceptTypeOK, HandlerInv, NEW c \in conns,
         pc[c] \in {"emitting", "lock", "kill"}
  PROVE  /\ hpc[c] = "deciding" /\ Stage(c) = "asked"
         /\ request[c] \in Requests /\ severity[c] = Verdict(request[c])
  <1>1. /\ hpc[c] \in HandlerPcs /\ request[c] \in Requests \cup {None}
        /\ BeforeGate(c) /\ AtGate(c) /\ AtEnd(c)
    BY DEF InterceptTypeOK, HandlerInv
  <1>2. hpc[c] = "deciding"
    BY <1>1 DEF HandlerPcs, BeforeGate, AtGate, AtEnd
  <1>3. QED
    BY <1>1, <1>2 DEF AtGate, Stage

\* A connection stays where it is while its handler does: what becomes of its
\* report shows once the handler is over.
LEMMA StageKept ==
  ASSUME InterceptTypeOK, NEW c \in conns,
         hpc'[c] = hpc[c], upstream'[c] = upstream[c], request'[c] = request[c],
         hpc[c] = "over" => pc'[c] = pc[c]
  PROVE  Stage(c)' = Stage(c)
  <1>1. hpc[c] \in HandlerPcs
    BY DEF InterceptTypeOK
  <1>2. CASE hpc[c] = "over"
    BY <1>2 DEF Stage, Outcome
  <1>3. CASE hpc[c] # "over"
    BY <1>1, <1>3 DEF Stage, HandlerPcs
  <1>4. QED
    BY <1>2, <1>3

\* The part of the promise a handler's step shows: only its own connection moves.
LEMMA Moves ==
  ASSUME NEW c \in conns, conns' = conns,
         \A d \in conns \ {c} : Stage(d)' = Stage(d)
  PROVE  [d \in conns |-> Stage(d)]' = [[d \in conns |-> Stage(d)] EXCEPT ![c] = Stage(c)']
  OBVIOUS

\* A handler's own step answers a connection, moves it on, or shows nothing.
LEMMA HandlerSimulates ==
  ASSUME IInv, OutcomeInv, InterceptTypeOK, HandlerInv, NEW c \in conns,
         UNCHANGED <<conns, vars>>,
         Accept(c) \/ HandlerStep(c) \/ ForwardStep(c) \/ RelayEnds(c) \/ PumpEnds(c)
  PROVE  EN!Next \/ UNCHANGED EN!vars
  <1> DEFINE stage == [d \in conns |-> Stage(d)]
             asked == [d \in conns |-> request[d]]
  <1>0. /\ TypeOK /\ EmitInv /\ c \in Events /\ conns \subseteq Events
        /\ BeforeGate(c) /\ AtGate(c) /\ AtEnd(c)
        /\ hpc[c] \in HandlerPcs /\ request[c] \in Requests \cup {None}
    BY DEF IInv, InterceptTypeOK, HandlerInv
  <1>1. /\ UNCHANGED <<conns, pc, severity, logged, teeFailures, kstep, cause>>
        /\ Phase' = Phase
    BY DEF vars, sinkVars, reportVars, killVars, Phase
  <1>2. \A d \in conns \ {c} : Stage(d)' = Stage(d) /\ request'[d] = request[d]
    <2>1. \A d \in conns \ {c} :
            hpc'[d] = hpc[d] /\ request'[d] = request[d] /\ upstream'[d] = upstream[d]
      BY <1>0 DEF InterceptTypeOK, Goto, Notify, EndQuietly, EndRaised,
         Accept, HandlerStep, AddressRaises, Peek, PeekNothing, HandshakeOk, HandshakeFails,
         ReadHead, HeadRaises, ForwardStep, GateReturns, GateRaises, Connect,
         ConnectRaises, Replay, ReplayRaises, RelayEnds, PumpEnds
    <2>2. QED
      BY <1>1, <2>1, StageKept
  <1>3. stage' = [stage EXCEPT ![c] = Stage(c)']
    BY <1>1, <1>2, Moves
  <1>4. asked' = [asked EXCEPT ![c] = request'[c]]
    BY <1>1, <1>2
  <1>5. ASSUME Stage(c)' = Stage(c), request'[c] = request[c], errors' = errors
        PROVE  UNCHANGED EN!vars
    BY <1>1, <1>3, <1>4, <1>5 DEF EN!vars
  <1>6. stage[c] = Stage(c) /\ asked[c] = request[c]
    OBVIOUS
  <1> HIDE DEF stage, asked
  <1> USE DEF Goto
  <1>7. ASSUME NEW to, Stage(c)' = to, request' = request
        PROVE  EN!Move(c, Stage(c), to) /\ asked' = asked
    BY <1>1, <1>3, <1>4, <1>6, <1>7 DEF EN!Move, stage, asked
  <1>10. CASE Accept(c) \/ Peek(c) \/ HandshakeOk(c)
    <2>1. /\ hpc[c] \in {"none", "peek", "handshake"}
          /\ hpc'[c] \in {"peek", "handshake", "head"}
          /\ upstream' = upstream /\ request' = request /\ errors' = errors
      BY <1>0, <1>10 DEF Accept, Peek, HandshakeOk, InterceptTypeOK
    <2>2. Stage(c) = "open" /\ Stage(c)' = "open"
      BY <1>0, <2>1 DEF Stage, BeforeGate
    <2>3. QED
      BY <1>5, <2>1, <2>2
  <1>11. CASE PeekNothing(c) \/ AddressRaises(c) \/ HeadRaises(c)
    <2>1. /\ hpc[c] \in {"peek", "head"} /\ hpc'[c] = "over"
          /\ upstream' = upstream /\ request' = request
          /\ errors' \in {errors, errors \cup {c}}
      BY <1>0, <1>11 DEF PeekNothing, AddressRaises, HeadRaises, Notify, EndQuietly,
                         EndRaised, InterceptTypeOK
    <2>2. Stage(c) = "open" /\ Stage(c)' = "dropped"
      BY <1>0, <1>1, <2>1 DEF Stage, Outcome, BeforeGate
    <2>3. EN!Drop(c)
      BY <1>1, <1>7, <2>1, <2>2 DEF EN!Drop, EN!MayKeep, asked
    <2>4. QED
      BY <2>3 DEF EN!Next
  <1>12. CASE HandshakeFails(c) \/ ReadHead(c)
    <2>1. /\ hpc[c] \in {"handshake", "head"} /\ hpc'[c] = "gate"
          /\ upstream' = upstream /\ request'[c] \in Requests
          /\ errors' \in {errors, errors \cup {c}}
      BY <1>0, <1>12 DEF HandshakeFails, ReadHead, Notify, InterceptTypeOK
    <2>2. Stage(c) = "open" /\ Stage(c)' = "asked"
      BY <1>0, <2>1 DEF Stage, BeforeGate
    <2>3. EN!Ask(c)
      BY <1>1, <1>3, <1>4, <1>6, <2>1, <2>2 DEF EN!Ask, EN!Move, EN!MayKeep, stage, asked
    <2>4. QED
      BY <2>3 DEF EN!Next
  <1>13. CASE GateReturns(c) \/ GateRaises(c)
    <2>1. /\ hpc[c] = "deciding" /\ upstream[c] = "none" /\ request[c] \in Requests
          /\ severity[c] = Verdict(request[c])
          /\ request' = request /\ upstream' = upstream
      BY <1>0, <1>13 DEF GateReturns, GateRaises, AtGate
    <2>2. Stage(c) = "asked" /\ (Allowed(request[c]) <=> Listed(request[c]))
      BY <2>1, AllowedIsListed DEF Stage
    <2>3. CASE GateReturns(c) /\ Allowed(request[c])
      <3>1. Stage(c)' = "passed" /\ errors' = errors
        BY <1>0, <2>1, <2>3 DEF GateReturns, Stage, InterceptTypeOK
      <3>2. c \in logged \cup teeFailures
        BY <1>0, <2>3 DEF GateReturns, EmitInv
      <3>3. EN!Pass(c)
        BY <1>1, <1>6, <1>7, <2>1, <2>2, <2>3, <3>1, <3>2 DEF EN!Pass, stage, asked
      <3>4. QED
        BY <3>3 DEF EN!Next
    <2>4. CASE GateReturns(c) /\ ~Allowed(request[c])
      <3>1. pc[c] = "returned" /\ hpc'[c] = "over" /\ errors' = errors
        BY <1>0, <2>4 DEF GateReturns, EndQuietly, InterceptTypeOK
      <3>2. Stage(c)' = "refused"
        BY <1>1, <2>1, <2>2, <2>4, <3>1 DEF Stage, Outcome
      <3>3. kstep \in {"done", "raised"}
        BY <1>0, <2>1, <2>4, <3>1 DEF OutcomeInv, Verdict
      <3>4. EN!Over
        BY <3>3 DEF EN!Over, Phase, IInv, LockInv
      <3>5. c \in logged \cup teeFailures
        BY <1>0, <3>1 DEF EmitInv
      <3>6. EN!Refuse(c)
        BY <1>1, <1>6, <1>7, <2>1, <2>2, <2>4, <3>1, <3>2, <3>4, <3>5
           DEF EN!Refuse, stage, asked
      <3>7. QED
        BY <3>6 DEF EN!Next
    <2>5. CASE GateRaises(c)
      <3>1. pc[c] = "raised" /\ hpc'[c] = "over" /\ errors' = errors \cup {c}
        BY <1>0, <2>5 DEF GateRaises, EndRaised, InterceptTypeOK
      <3>2. Stage(c)' = "failed"
        BY <1>1, <2>1, <3>1 DEF Stage, Outcome
      <3>3. c \notin logged \cup teeFailures \/ (cause = c /\ Phase = "aborted")
        BY <1>0, <3>1, SupervisorAssumption DEF OutcomeInv, Phase
      <3>4. EN!Fail(c)
        BY <1>1, <1>6, <1>7, <2>1, <2>2, <3>1, <3>2, <3>3 DEF EN!Fail, stage, asked
      <3>5. QED
        BY <3>4 DEF EN!Next
    <2>6. QED
      BY <1>13, <2>3, <2>4, <2>5
  <1>14. CASE Connect(c) \/ ConnectRaises(c)
    <2>1. /\ hpc[c] = "connect" /\ upstream[c] = "none" /\ request' = request
          /\ pc[c] = "returned" /\ request[c] \in Requests /\ Allowed(request[c])
      BY <1>0, <1>14 DEF Connect, ConnectRaises, AtGate
    <2>2. Stage(c) = "passed"
      BY <2>1 DEF Stage
    <2>3. CASE Connect(c)
      <3>1. Stage(c)' = "flowing" /\ errors' = errors
        BY <1>0, <2>3 DEF Connect, Stage, InterceptTypeOK
      <3>2. EN!Flow(c)
        BY <1>1, <1>7, <2>1, <2>2, <3>1 DEF EN!Flow, asked
      <3>3. QED
        BY <3>2 DEF EN!Next
    <2>4. CASE ConnectRaises(c)
      <3>1. hpc'[c] = "over" /\ upstream' = upstream /\ errors' = errors \cup {c}
        BY <1>0, <2>4 DEF ConnectRaises, EndRaised, InterceptTypeOK
      <3>2. Stage(c)' = "served"
        BY <1>1, <2>1, <3>1, AllowedIsListed DEF Stage, Outcome
      <3>3. EN!End(c)
        BY <1>1, <1>7, <2>1, <2>2, <3>1, <3>2 DEF EN!End, EN!MayKeep, asked
      <3>4. QED
        BY <3>3 DEF EN!Next
    <2>5. QED
      BY <1>14, <2>3, <2>4
  <1>15. CASE Replay(c)
    <2>1. Stage(c) = "flowing" /\ Stage(c)' = "flowing"
      BY <1>0, <1>15 DEF Replay, AtGate, Stage, InterceptTypeOK
    <2>2. QED
      BY <1>5, <1>15, <2>1 DEF Replay
  <1>16. CASE ReplayRaises(c) \/ RelayEnds(c)
    <2>1. /\ hpc[c] \in {"replay", "relay"} /\ upstream[c] \in {"open", "sent"}
          /\ pc[c] = "returned" /\ request[c] \in Requests /\ Allowed(request[c])
      BY <1>0, <1>16 DEF ReplayRaises, RelayEnds, AtGate
    <2>2. /\ hpc'[c] = "over" /\ upstream'[c] = "closed" /\ request' = request
          /\ errors' \in {errors, errors \cup {c}}
      BY <1>0, <1>16 DEF ReplayRaises, RelayEnds, EndQuietly, EndRaised, InterceptTypeOK
    <2>3. Stage(c) = "flowing" /\ Stage(c)' = "served"
      BY <1>1, <2>1, <2>2, AllowedIsListed DEF Stage, Outcome
    <2>4. EN!End(c)
      BY <1>1, <1>7, <2>2, <2>3 DEF EN!End, EN!MayKeep, asked
    <2>5. QED
      BY <2>4 DEF EN!Next
  <1>17. CASE PumpEnds(c)
    <2>1. hpc' = hpc /\ upstream' = upstream /\ request' = request /\ errors' = errors
      BY <1>17 DEF PumpEnds
    <2>2. Stage(c)' = Stage(c)
      BY <1>1, <2>1, StageKept
    <2>3. QED
      BY <1>5, <2>1, <2>2
  <1>18. QED
    BY <1>10, <1>11, <1>12, <1>13, <1>14, <1>15, <1>16, <1>17 DEF HandlerStep, ForwardStep

\* A thread inside report puts its event on record, starts the run's kill for it,
\* ends that kill, or shows nothing.
LEMMA ThreadSimulates ==
  ASSUME IInv, OutcomeInv, InterceptTypeOK, HandlerInv, NEW e \in Events,
         ThreadStep(e), UNCHANGED handlerVars
  PROVE  EN!Next \/ UNCHANGED EN!vars
  <1>0. TypeOK /\ LockInv /\ EmitInv /\ conns \subseteq Events
    BY DEF IInv, InterceptTypeOK
  <1>1. [c \in conns |-> Stage(c)]' = [c \in conns |-> Stage(c)]
    <2>1. ASSUME NEW c \in conns
          PROVE  Stage(c)' = Stage(c)
      <3>1. hpc[c] = "over" => pc'[c] = pc[c]
        BY <1>0, ThreadKeeps DEF HandlerInv, AtEnd
      <3>2. QED
        BY <3>1, StageKept DEF handlerVars
    <2>2. QED
      BY <2>1 DEF handlerVars
  <1>2. [c \in conns |-> request[c]]' = [c \in conns |-> request[c]]
    BY DEF handlerVars
  <1>3. ASSUME UNCHANGED <<logged, teeFailures, cause>>, Phase' = Phase
        PROVE  UNCHANGED EN!vars
    BY <1>1, <1>2, <1>3 DEF EN!vars, handlerVars
  <1>4. ASSUME e \in conns, pc[e] \in {"emitting", "lock", "kill"}
        PROVE  /\ [c \in conns |-> Stage(c)][e] = "asked"
               /\ [c \in conns |-> request[c]][e] = request[e]
    BY <1>0, <1>4, UnderWay
  <1>5. CASE Emit(e)
    <2>1. /\ UNCHANGED <<kstep, cause>> /\ Phase' = Phase /\ EmitStep(e)
      BY <1>5 DEF Emit, killVars, Phase
    <2>2. CASE UNCHANGED <<logged, teeFailures>>
      BY <1>3, <2>1, <2>2
    <2>3. CASE ~ UNCHANGED <<logged, teeFailures>>
      <3>1. /\ emitPc[e] = "local"
            /\ (logged \cup teeFailures)' = (logged \cup teeFailures) \cup {e}
        BY <2>1, <2>3 DEF EmitStep, WriteLocal, WriteFails, BroadcastRaises, BroadcastOk,
           CountDelivered, BroadcastFails, recordVars
      <3>2. pc[e] = "emitting"
        BY <1>0, <3>1 DEF EmitInv, TypeOK, Pcs
      <3>3. EN!Record(e)
        BY <1>1, <1>2, <1>4, <2>1, <3>1, <3>2 DEF EN!Record, handlerVars
      <3>4. QED
        BY <3>3 DEF EN!Next
    <2>4. QED
      BY <2>2, <2>3
  <1>6. CASE Decide(e) \/ AlreadyKilled(e)
    BY <1>3, <1>6 DEF Decide, AlreadyKilled, sinkVars, killVars, Phase
  <1>7. CASE Fire(e)
    BY <1>0, <1>3, <1>7 DEF Fire, sinkVars, Phase, LockInv
  <1>8. CASE RecordCause(e)
    <2>1. /\ lock = e /\ kstep = "cause" /\ cause' = e /\ kstep' \in {"first", "revoke"}
          /\ UNCHANGED <<logged, teeFailures>>
      BY <1>8 DEF RecordCause, AfterRevokes, sinkVars
    <2>2. pc[e] = "kill" /\ cause = None /\ e # None
      BY <1>0, <2>1, SupervisorAssumption DEF LockInv
    <2>3. Phase = "armed" /\ Phase' = "firing"
      BY <2>1, <2>2 DEF Phase
    <2>4. e \in logged \cup teeFailures /\ severity[e] = "kill"
      BY <1>0, <2>2 DEF EmitInv, OutcomeInv
    <2>5. ASSUME e \in conns
          PROVE  request[e] \notin {q \in Requests : Listed(q)}
      BY <1>0, <2>2, <2>4, <2>5, UnderWay, AllowedIsListed DEF Verdict
    <2>6. EN!Trip(e)
      BY <1>1, <1>2, <1>4, <2>1, <2>2, <2>3, <2>4, <2>5 DEF EN!Trip, handlerVars
    <2>7. QED
      BY <2>6 DEF EN!Next
  <1>9. ASSUME RevokeNext(e) \/ SeverNetwork(e) \/ SeverTap(e) \/ SeverTapDelete(e)
               \/ TerminateProcess(e) \/ Finish(e)
        PROVE  EN!Next \/ UNCHANGED EN!vars
    <2>1. lock = e /\ kstep # "cause" /\ UNCHANGED <<logged, teeFailures, cause>>
      BY <1>9 DEF RevokeNext, SeverNetwork, SeverTap, SeverTapDelete, TerminateProcess,
                  Finish, SeverAt, TerminateAt, sinkVars
    <2>2. cause # None /\ kstep \notin {"done", "raised"}
      BY <1>0, <2>1, SupervisorAssumption DEF LockInv
    <2>3. Phase = "firing" /\ Phase' \in {"firing", "dead", "aborted"}
      BY <2>1, <2>2 DEF Phase
    <2>4. CASE Phase' = "firing"
      BY <1>3, <2>1, <2>3, <2>4
    <2>5. CASE Phase' # "firing"
      <3>1. EN!EndKill
        BY <1>1, <1>2, <2>1, <2>3, <2>5 DEF EN!EndKill, handlerVars
      <3>2. QED
        BY <3>1 DEF EN!Next
    <2>6. QED
      BY <2>4, <2>5
  <1>10. QED
    BY <1>5, <1>6, <1>7, <1>8, <1>9 DEF ThreadStep, KillStep

-----------------------------------------------------------------------------
(* Handlers run out of steps.                                              *)

\* A handler's own step is one less for its connection and nothing for others.
LEMMA HandlerShortens ==
  ASSUME IInv, InterceptTypeOK, NEW c \in conns, UNCHANGED <<conns, vars>>,
         Accept(c) \/ HandlerStep(c) \/ ForwardStep(c) \/ RelayEnds(c)
  PROVE  /\ HandlerLeft(c)' < HandlerLeft(c)
         /\ \A d \in conns \ {c} : HandlerLeft(d)' = HandlerLeft(d)
  <1>1. /\ c \in Events /\ conns \subseteq Events
        /\ ReportLeft(c) \in Nat /\ hpc \in [Events -> HandlerPcs]
    BY LeftType DEF InterceptTypeOK
  <1>2. \A d \in Events : ReportLeft(d)' = ReportLeft(d)
    BY DEF vars, sinkVars, reportVars, killVars, ReportLeft, KillLeft
  <1>3. /\ hpc' = [hpc EXCEPT ![c] = hpc'[c]]
        /\ \/ hpc[c] = "none" /\ hpc'[c] = "peek"
           \/ hpc[c] = "peek" /\ hpc'[c] \in {"handshake", "head", "over"}
           \/ hpc[c] = "handshake" /\ hpc'[c] \in {"head", "gate"}
           \/ hpc[c] = "head" /\ hpc'[c] \in {"gate", "over"}
           \/ hpc[c] = "deciding" /\ hpc'[c] \in {"connect", "over"}
           \/ hpc[c] = "connect" /\ hpc'[c] \in {"replay", "over"}
           \/ hpc[c] = "replay" /\ hpc'[c] \in {"relay", "over"}
           \/ hpc[c] = "relay" /\ hpc'[c] = "over"
    <2> USE DEF Goto, EndQuietly, EndRaised
    <2>1. CASE Accept(c) \/ RelayEnds(c)
      BY <1>1, <2>1 DEF Accept, RelayEnds
    <2>2. CASE HandlerStep(c)
      BY <1>1, <2>2 DEF HandlerStep, AddressRaises, Peek, PeekNothing, HandshakeOk,
                        HandshakeFails, ReadHead, HeadRaises
    <2>3. CASE ForwardStep(c)
      BY <1>1, <2>3 DEF ForwardStep, GateReturns, GateRaises, Connect, ConnectRaises,
                        Replay, ReplayRaises
    <2>4. QED
      BY <2>1, <2>2, <2>3
  <1>4. HandlerLeft(c)' < HandlerLeft(c)
    BY <1>1, <1>2, <1>3 DEF HandlerLeft
  <1>5. \A d \in conns \ {c} : HandlerLeft(d)' = HandlerLeft(d)
    BY <1>1, <1>2, <1>3 DEF HandlerLeft
  <1>6. QED
    BY <1>4, <1>5

LEMMA HandlersNearer ==
  ASSUME IInv, InterceptTypeOK, InterceptNext, NEW c \in conns
  PROVE  /\ \/ HandlerStep(c) \/ CallGate(c) \/ ForwardStep(c)
            \/ ThreadStep(c) /\ UNCHANGED handlerVars
            => HandlerLeft(c)' < HandlerLeft(c)
         /\ HandlerLeft(c)' <= HandlerLeft(c)
  <1> DEFINE Rank(l) ==
        CASE l = "none" -> 8 [] l = "peek" -> 7 [] l = "handshake" -> 6
          [] l = "head" -> 5 [] l \in {"gate", "deciding"} -> 4
          [] l = "connect" -> 3 [] l = "replay" -> 2 [] l = "relay" -> 1
          [] OTHER -> 0
  <1>0. /\ c \in Events /\ conns \subseteq Events /\ hpc \in [Events -> HandlerPcs]
        /\ ReportLeft(c) \in Nat /\ HandlerLeft(c) \in Nat
        /\ TypeOK /\ N \in Nat
    <2>1. c \in Events /\ conns \subseteq Events /\ ReportLeft(c) \in Nat
      BY LeftType DEF InterceptTypeOK
    <2>2. HandlerLeft(c) \in Nat
      BY <2>1 DEF HandlerLeft
    <2>3. QED
      BY <2>1, <2>2, NType DEF InterceptTypeOK, IInv
  <1>1. HandlerLeft(c) = ReportLeft(c) + Rank(hpc[c])
    BY DEF HandlerLeft
  <1>2. HandlerLeft(c)' = ReportLeft(c)' + Rank(hpc'[c])
    BY DEF HandlerLeft
  <1>3. \A l : Rank(l) \in Nat
    OBVIOUS
  <1> HIDE DEF Rank
  <1>4. ASSUME CallGate(c)
        PROVE  HandlerLeft(c)' < HandlerLeft(c)
    <2>1. /\ hpc[c] = "gate" /\ hpc'[c] = "deciding" /\ pc[c] = "idle"
          /\ pc'[c] = "emitting" /\ emitPc'[c] = "local"
      BY <1>0, <1>4 DEF CallGate, Report, StartEmit, EmitAt, Goto, TypeOK, SinkTypeOK
    <2>2. Rank(hpc[c]) = Rank(hpc'[c])
      BY <2>1 DEF Rank
    <2>3. ReportLeft(c)' = N + 10 /\ ReportLeft(c) = N + 11
      BY <2>1 DEF ReportLeft
    <2>4. QED
      BY <1>0, <1>1, <1>2, <1>3, <2>2, <2>3
  <1>5. ASSUME ThreadStep(c), UNCHANGED handlerVars
        PROVE  HandlerLeft(c)' < HandlerLeft(c)
    <2>1. Rank(hpc'[c]) = Rank(hpc[c])
      BY <1>5 DEF handlerVars
    <2>2. ReportLeft(c)' \in Nat /\ ReportLeft(c)' < ReportLeft(c)
      BY <1>0, <1>5, ThreadAdvances
    <2>3. QED
      BY <1>0, <1>1, <1>2, <1>3, <2>1, <2>2
  <1>6. HandlerStep(c) \/ ForwardStep(c) => HandlerLeft(c)' < HandlerLeft(c)
    BY HandlerShortens DEF HandlerStep, ForwardStep
  <1>7. HandlerLeft(c)' <= HandlerLeft(c)
    <2>1. ASSUME NEW d \in conns, UNCHANGED <<conns, vars>>,
                 Accept(d) \/ HandlerStep(d) \/ ForwardStep(d) \/ RelayEnds(d)
          PROVE  HandlerLeft(c)' <= HandlerLeft(c)
      <3>1. CASE d = c
        <4>1. HandlerLeft(c)' < HandlerLeft(c) /\ HandlerLeft(c)' \in Int
          <5>1. ReportLeft(c)' = ReportLeft(c)
            BY <2>1 DEF vars, sinkVars, reportVars, killVars, ReportLeft, KillLeft
          <5>2. QED
            BY <1>0, <1>2, <1>3, <2>1, <3>1, <5>1, HandlerShortens
        <4>2. QED
          BY <1>0, <4>1
      <3>2. CASE d # c
        <4>1. HandlerLeft(c)' = HandlerLeft(c)
          BY <2>1, <3>2, HandlerShortens
        <4>2. QED
          BY <1>0, <4>1
      <3>3. QED
        BY <3>1, <3>2
    <2>2. ASSUME Next, hpc'[c] = hpc[c] \/ (hpc[c] = "gate" /\ hpc'[c] = "deciding"),
                 ReportLeft(c)' \in Nat
          PROVE  HandlerLeft(c)' <= HandlerLeft(c)
      <3>1. Rank(hpc'[c]) = Rank(hpc[c])
        BY <2>2 DEF Rank
      <3>2. ReportLeft(c)' <= ReportLeft(c)
        BY <1>0, <2>2, NeverFurther
      <3>3. QED
        BY <1>0, <1>1, <1>2, <1>3, <2>2, <3>1, <3>2
    <2>3. Next => ReportLeft(c)' \in Nat
      <3>1. Next => IInv'
        BY IInvStep
      <3>2. (IInv => \A f \in Events : ReportLeft(f) \in Nat)'
        BY LeftType, PTL
      <3>3. QED
        BY <1>0, <3>1, <3>2
    <2>4. ASSUME NEW d \in conns, CallGate(d)
          PROVE  /\ Next
                 /\ hpc'[c] = hpc[c] \/ (hpc[c] = "gate" /\ hpc'[c] = "deciding")
      <3>1. Verdict(request[d]) \in Severities
        BY DEF Verdict, Severities
      <3>2. QED
        BY <1>0, <2>4, <3>1 DEF CallGate, Goto, Next
    <2>5. ASSUME UNCHANGED handlerVars,
                 \/ \E e \in Events \ conns, s \in Severities : Report(e, s)
                 \/ \E e \in Events : ThreadStep(e)
                 \/ World
          PROVE  Next /\ hpc'[c] = hpc[c]
      BY <2>5 DEF handlerVars, Next
    <2>6. ASSUME NEW d \in conns, PumpEnds(d), UNCHANGED <<conns, vars>>
          PROVE  HandlerLeft(c)' <= HandlerLeft(c)
      <3>1. HandlerLeft(c)' = HandlerLeft(c)
        BY <2>6 DEF PumpEnds, vars, sinkVars, reportVars, killVars, HandlerLeft, ReportLeft,
                    KillLeft
      <3>2. QED
        BY <1>0, <3>1
    <2>7. QED
      BY <2>1, <2>2, <2>3, <2>4, <2>5, <2>6 DEF InterceptNext, HandlerStep, ForwardStep
  <1>8. QED
    BY <1>4, <1>5, <1>6, <1>7

-----------------------------------------------------------------------------
(* The theorems.                                                           *)

\* Handlers drive the supervisor by report alone: what is proved of Supervisor
\* holds with any number of connections in front of it (gate.py:41-78).
THEOREM InterceptIsSupervised == InterceptSpec => Spec
  <1>1. InterceptInit => Init
    BY DEF InterceptInit
  <1>2. InterceptTypeOK /\ [InterceptNext]_ivars => [Next]_vars
    BY StepIsSupervisors DEF ivars
  <1>3. QED
    BY <1>1, <1>2, InterceptInductive, PTL DEF InterceptSpec, Spec

\* Every variable of the handlers keeps its type.
THEOREM InterceptTypeCorrect == InterceptSpec => []InterceptTypeOK
  BY InterceptInductive, PTL

\* Nothing is forwarded before its INFO report came back with its record
\* (gate.py:69-78, terminate.py:186-191).
THEOREM ForwardedAfterRecord == InterceptSpec => []ForwardedOnRecord
  <1>1. IInv /\ InterceptTypeOK /\ HandlerInv => ForwardedOnRecord
    <2>1. IInv => ForensicRecord
      BY DEF IInv, TypeOK, SinkTypeOK, EmitInv, ForensicRecord
    <2>2. ASSUME InterceptTypeOK, NEW c \in conns, request[c] # None, Allowed(request[c])
          PROVE  Listed(request[c])
      BY <2>2, AllowedIsListed DEF InterceptTypeOK
    <2>3. ASSUME IInv, InterceptTypeOK, HandlerInv, NEW c \in conns,
                 hpc[c] \in {"connect", "replay", "relay"} \/ upstream[c] # "none"
          PROVE  /\ Listed(request[c]) /\ c \in seen
                 /\ severity[c] = "info" /\ pc[c] = "returned"
                 /\ c \in logged \cup teeFailures
      <3>1. c \in Events
        BY <2>3, InterceptAssumption DEF InterceptTypeOK
      <3>2. AtGate(c) 
        BY <2>3 DEF HandlerInv
      <3>3. /\ request[c] # None /\ Allowed(request[c])
            /\ severity[c] = "info" /\ pc[c] = "returned"
        BY <2>3, <3>2 DEF AtGate
      <3>4. QED
        BY <2>1, <2>2, <2>3, <3>1, <3>2, <3>3 DEF AtGate, ForensicRecord
    <2>4. QED
      BY <2>3 DEF ForwardedOnRecord
  <1>2. QED
    BY <1>1, InterceptInductive, PTL

\* A handler that is over has kept what it saw or what it raised
\* (proxy.py:185-193, terminate.py:115-120).
THEOREM NothingLost == InterceptSpec => []NothingLostSilently
  <1>1. HandlerInv => NothingLostSilently
    BY DEF HandlerInv, AtEnd, NothingLostSilently
  <1>2. QED
    BY <1>1, InterceptInductive, PTL

\* A handler that is over has closed the sockets it opened, on every way out, but a
\* TLS side an exception or a pump may still refer to (terminate.py:121-125,
\* 235-239, 316-319).
THEOREM NothingLeftOpen == InterceptSpec => []SocketsClosed
  <1>1. HandlerInv => SocketsClosed
    BY DEF HandlerInv, AtEnd, SocketsClosed
  <1>2. QED
    BY <1>1, InterceptInductive, PTL

\* No denial is passed over, whatever else is reported (gate.py:53-67,
\* terminate.py:115-125, supervisor.py:61-73): the safety of DenialKills.
THEOREM DenialsAreAnswered == InterceptSpec => []DenialsAnswered
  <1>1. ASSUME IInv, OutcomeInv, RaiseInv, InterceptTypeOK, HandlerInv, NEW c \in conns,
               hpc[c] = "over", request[c] # None, ~Listed(request[c])
        PROVE  \/ /\ pc[c] = "returned" /\ kstep \in {"done", "raised"}
                  /\ GoodHost => kstep = "done" /\ kill_result # None
               \/ /\ pc[c] = "raised" /\ c \in errors
                  /\ ~SafeWiring
    <2>1. c \in Events /\ request[c] \in Requests /\ AtEnd(c) /\ LockInv
      BY <1>1 DEF InterceptTypeOK, HandlerInv, IInv
    <2>2. pc[c] \in {"returned", "raised"} /\ severity[c] = "kill"
      BY <1>1, <2>1, AllowedIsListed DEF AtEnd, Verdict
    <2>3. CASE pc[c] = "returned"
      <3>1. kstep \in {"done", "raised"}
        BY <1>1, <2>1, <2>2, <2>3 DEF OutcomeInv
      <3>2. GoodHost => kstep = "done" /\ kill_result # None
        BY <1>1, <2>1, <3>1 DEF RaiseInv, LockInv
      <3>3. QED
        BY <2>3, <3>1, <3>2
    <2>4. CASE pc[c] = "raised"
      <3>1. emitPc[c] = "raised" \/ kstep = "raised"
        BY <1>1, <2>1, <2>4 DEF OutcomeInv
      <3>2. QED
        BY <1>1, <2>1, <2>4, <3>1 DEF RaiseInv, SafeWiring, AtEnd
    <2>5. QED
      BY <2>2, <2>3, <2>4
  <1>2. IInv /\ OutcomeInv /\ RaiseInv /\ InterceptTypeOK /\ HandlerInv => DenialsAnswered
    BY <1>1 DEF DenialsAnswered
  <1>3. InterceptSpec => [](IInv /\ OutcomeInv /\ RaiseInv)
    BY InterceptIsSupervised, RaiseInductive
  <1>4. QED
    BY <1>2, <1>3, InterceptInductive, PTL

\* A connection has at most N + 19 steps in it, a relay being one, and nothing
\* prolongs it: what HandlerEnds rests on besides the scheduler
\* (terminate.py:115-239, gate.py:41-78).
THEOREM HandlersRunOut == InterceptSpec => HandlersAdvance
  <1> DEFINE Nearer ==
        \A c \in conns :
          /\ \/ HandlerStep(c) \/ CallGate(c) \/ ForwardStep(c)
             \/ ThreadStep(c) /\ UNCHANGED handlerVars
             => HandlerLeft(c)' < HandlerLeft(c)
          /\ HandlerLeft(c)' <= HandlerLeft(c)
  <1>1. IInv /\ InterceptTypeOK /\ InterceptNext => Nearer
    BY HandlersNearer
  <1>2. IInv /\ InterceptTypeOK /\ [InterceptNext]_ivars => [Nearer]_ivars
    BY <1>1
  <1>3. QED
    BY <1>2, InterceptInductive, PTL DEF InterceptSpec, HandlersAdvance

\* The whole path keeps its promise, for any connections, reports, sinks and
\* backends: each answer follows its record, and a refusal the end of the run's kill
\* (gate.py:16-21, 53-78, terminate.py:121-125, 186-191, supervisor.py:54-73).
THEOREM Enforced == InterceptSpec => ImplementsEnforcement
  <1>1. InterceptInit => EN!Init
    BY InterceptAssumption DEF InterceptInit, Init, SinkInit, EN!Init, Stage, Phase
  <1>2. ASSUME IInv, OutcomeInv, InterceptTypeOK, HandlerInv, [InterceptNext]_ivars
        PROVE  [EN!Next]_(EN!vars)
    <2>0. /\ TypeOK /\ conns \subseteq Events
          /\ \A c \in conns : AtEnd(c)
      BY <1>2 DEF IInv, InterceptTypeOK, HandlerInv
    <2>1. ASSUME UNCHANGED <<logged, teeFailures, kstep, cause, handlerVars>>,
                 \A c \in conns : pc'[c] = pc[c]
          PROVE  UNCHANGED EN!vars
      <3>1. \A c \in conns : Stage(c)' = Stage(c)
        BY <1>2, <2>1, StageKept DEF handlerVars
      <3>2. Phase' = Phase
        BY <2>1 DEF Phase
      <3>3. QED
        BY <2>1, <3>1, <3>2 DEF EN!vars, handlerVars
    <2>2. ASSUME NEW c \in conns, CallGate(c)
          PROVE  UNCHANGED EN!vars
      <3>1. /\ hpc[c] = "gate" /\ hpc' = [hpc EXCEPT ![c] = "deciding"]
            /\ \A d \in conns \ {c} : pc'[d] = pc[d]
            /\ UNCHANGED <<logged, teeFailures, kstep, cause, conns, request, upstream, errors>>
        BY <2>0, <2>2 DEF CallGate, Report, Goto, StartEmit, recordVars, killVars,
           TypeOK
      <3>2. \A d \in conns \ {c} : Stage(d)' = Stage(d)
        BY <1>2, <2>0, <3>1, StageKept DEF InterceptTypeOK
      <3>3. Stage(c)' = Stage(c)
        BY <1>2, <2>0, <3>1 DEF Stage, InterceptTypeOK
      <3>4. Phase' = Phase
        BY <3>1 DEF Phase
      <3>5. QED
        BY <3>1, <3>2, <3>3, <3>4 DEF EN!vars
    <2>3. ASSUME NEW e \in Events \ conns, NEW s \in Severities, Report(e, s),
                 UNCHANGED handlerVars
          PROVE  UNCHANGED EN!vars
      <3>1. \A c \in conns : pc'[c] = pc[c]
        BY <2>0, <2>3 DEF Report, TypeOK
      <3>2. QED
        BY <2>1, <2>3, <3>1 DEF Report, StartEmit, recordVars, killVars
    <2>4. CASE World /\ UNCHANGED handlerVars
      BY <2>1, <2>4 DEF World, sinkVars, reportVars, killVars
    <2>5. CASE UNCHANGED ivars
      BY <2>1, <2>5 DEF ivars, vars, sinkVars, reportVars, killVars
    <2>6. QED
      BY <1>2, <2>2, <2>3, <2>4, <2>5, HandlerSimulates, ThreadSimulates
         DEF InterceptNext, HandlerStep, ForwardStep
  <1>3. InterceptSpec => [](IInv /\ OutcomeInv)
    BY InterceptIsSupervised, OutcomeInductive
  <1>4. QED
    BY <1>1, <1>2, <1>3, InterceptInductive, PTL
       DEF InterceptSpec, ImplementsEnforcement, EN!Spec
=============================================================================
