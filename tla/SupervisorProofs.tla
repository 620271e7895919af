------------------------- MODULE SupervisorProofs --------------------------
(***************************************************************************)
(* Theorems about Supervisor, for any set of events, any list of            *)
(* credentials and any choice of wirings.                                   *)
(***************************************************************************)
EXTENDS Supervisor, FiniteSetTheorems, TLAPS

USE SinkAssumption, BackendAssumption, SupervisorAssumption

-----------------------------------------------------------------------------
(* Each conjunct of IInv is kept by every step.                            *)

LEMMA NType == N \in Nat
  BY DEF N

LEMMA InitIInv == Init => IInv
  <1> SUFFICES ASSUME Init PROVE IInv
    OBVIOUS
  <1>1. SinkTypeOK
    BY DEF Init, SinkInit, SinkTypeOK, EmitPcs
  <1>2. BackendTypeOK
    BY DEF Init, BackendInit, BackendTypeOK
  <1>3. result \in KillResults
    BY DEF Init, KillResults
  <1>4. TypeOK
    <2>1. 0 \in 0..N
      BY NType
    <2>2. /\ pc \in [Events -> Pcs]
          /\ severity \in [Events -> Severities \cup {"none"}]
          /\ ts \in [Events -> Nat]
      BY DEF Init, Pcs
    <2>3. QED
      BY <1>1, <1>2, <1>3, <2>1, <2>2 DEF Init, TypeOK, KillSteps
  <1>5. LockInv /\ EmitInv /\ ProgressInv
    BY DEF Init, SinkInit, LockInv, EmitInv, ProgressInv
  <1>6. CredentialsFirst /\ SeverOrder /\ ResultTruthful
    BY DEF Init, BackendInit, CredentialsFirst, SeverOrder, ResultTruthful
  <1>7. QED
    BY <1>4, <1>5, <1>6 DEF IInv

LEMMA EmitStepType ==
  ASSUME SinkTypeOK, NEW e \in Events, EmitStep(e),
         sink' = sink
  PROVE  SinkTypeOK'
  <1>1. CASE WriteLocal(e) \/ WriteFails(e)
    BY <1>1 DEF SinkTypeOK, WriteLocal, WriteFails, AfterLocal, EmitAt, recordVars,
                broadcastVars, EmitPcs
  <1>2. CASE BroadcastRaises(e) \/ BroadcastFails(e)
    BY <1>2 DEF SinkTypeOK, BroadcastRaises, BroadcastFails, EmitAt, recordVars, EmitPcs
  <1>3. CASE BroadcastOk(e)
    BY <1>3 DEF SinkTypeOK, BroadcastOk, EmitAt, recordVars, EmitPcs
  <1>4. CASE CountDelivered(e)
    <2>1. tally[e] + 1 \in Nat
      BY DEF SinkTypeOK
    <2>2. QED
      BY <1>4, <2>1 DEF SinkTypeOK, CountDelivered, EmitAt, recordVars, EmitPcs
  <1>5. QED
    BY <1>1, <1>2, <1>3, <1>4 DEF EmitStep

\* Typing of a call to the backend.
LEMMA CallType ==
  ASSUME BackendTypeOK, wiring' = wiring, NEW ret,
         \/ \E c \in Tokens : RevokeCredential(c, ret)
         \/ SeverLink(ret) \/ DropTap(ret) \/ DeleteTap(ret) \/ Terminate(ret)
  PROVE  BackendTypeOK'
  BY DEF BackendTypeOK, wiring, RevokeCredential, LocalRevoke, HttpRevoke, SeverLink,
         LocalSever, GvisorSever, DropTap, DeleteTap, Terminate, LocalTerminate,
         GvisorTerminate, FirecrackerTerminate, Signalled

LEMMA ReturnedType ==
  ASSUME TypeOK, NEW a \in {"sever", "terminate"}, NEW ret, Returned(a, ret)
  PROVE  /\ result' \in KillResults
         /\ acted' \subseteq {"sever", "terminate"}
  BY DEF TypeOK, Returned, KillResults

LEMMA GoOnType ==
  ASSUME TypeOK, NEW e \in Events, NEW ret, NEW next \in KillSteps, GoOn(e, ret, next)
  PROVE  kstep' \in KillSteps /\ lock' \in Events \cup {None} /\ pc' \in [Events -> Pcs]
  BY DEF TypeOK, GoOn, KillSteps, Pcs

LEMMA TypeStep == TypeOK /\ ProgressInv /\ [Next]_vars => TypeOK'
  <1> SUFFICES ASSUME TypeOK, ProgressInv, [Next]_vars
               PROVE  TypeOK'
    OBVIOUS
  <1> USE NType
  <1>1. ASSUME NEW e \in Events, NEW s \in Severities, Report(e, s)
        PROVE  TypeOK'
    <2>1. Cardinality({f \in Events : pc[f] # "idle"}) \in Nat
      BY FS_Subset, FS_CardinalityType
    <2>2. SinkTypeOK'
      BY <1>1 DEF Report, StartEmit, EmitAt, recordVars, broadcastVars, TypeOK, SinkTypeOK,
                  EmitPcs
    <2>3. BackendTypeOK'
      BY <1>1 DEF Report, wiring, world, TypeOK, BackendTypeOK
    <2>4. QED
      BY <1>1, <2>1, <2>2, <2>3 DEF Report, TypeOK, Pcs, killVars
  <1>2. ASSUME NEW e \in Events, Emit(e)
        PROVE  TypeOK'
    <2>1. SinkTypeOK'
      BY <1>2, EmitStepType DEF Emit, TypeOK
    <2>2. QED
      BY <1>2, <2>1 DEF Emit, TypeOK, BackendTypeOK, wiring, world, reportVars, killVars
  <1>3. ASSUME NEW e \in Events, Decide(e) \/ AlreadyKilled(e) \/ Fire(e)
        PROVE  TypeOK'
    <2>1. SinkTypeOK' /\ BackendTypeOK'
      BY <1>3 DEF Decide, AlreadyKilled, Fire, TypeOK, SinkTypeOK, BackendTypeOK,
                  sinkVars, wiring, world
    <2>2. QED
      BY <1>3, <2>1 DEF Decide, AlreadyKilled, Fire, AfterEmit, TypeOK, Pcs, KillSteps,
                        killVars
  <1>4. ASSUME NEW e \in Events, RecordCause(e) \/ Finish(e)
        PROVE  TypeOK'
    <2>1. SinkTypeOK' /\ BackendTypeOK'
      BY <1>4 DEF RecordCause, Finish, TypeOK, SinkTypeOK, BackendTypeOK,
                  sinkVars, wiring, world
    <2>2. QED
      BY <1>4, <2>1 DEF RecordCause, Finish, AfterRevokes, TypeOK, Pcs, KillSteps,
                        reportVars
  <1>5. ASSUME NEW e \in Events, RevokeNext(e)
        PROVE  TypeOK'
    <2> DEFINE c == CredentialIds[revokeAt + 1]
    <2>1. revokeAt + 1 \in 1..N /\ c \in Tokens
      BY <1>5 DEF RevokeNext, ProgressInv, TypeOK, N
    <2>2. PICK ret \in Returns :
            /\ RevokeCredential(c, ret)
            /\ revokeAt' = IF ret = "raise" THEN revokeAt ELSE revokeAt + 1
            /\ result' = IF ret = "true"
                         THEN [result EXCEPT !.credentials_revoked = Append(@, c)]
                         ELSE result
            /\ GoOn(e, ret, AfterRevokes(revokeAt + 1))
      BY <1>5 DEF RevokeNext
    <2>3. SinkTypeOK' /\ BackendTypeOK'
      BY <1>5, <2>1, <2>2, CallType DEF RevokeNext, TypeOK, SinkTypeOK, sinkVars, wiring
    <2>4. result' \in KillResults
      <3>1. result.credentials_revoked \in Seq(Tokens)
        BY DEF TypeOK, KillResults
      <3>2. Append(result.credentials_revoked, c) \in Seq(Tokens)
        BY <2>1, <3>1
      <3>3. QED
        BY <2>2, <3>2 DEF TypeOK, KillResults
    <2>5. kstep' \in KillSteps /\ lock' \in Events \cup {None} /\ pc' \in [Events -> Pcs]
      BY <2>2, GoOnType DEF AfterRevokes, KillSteps
    <2>6. revokeAt' \in 0..N
      BY <2>1, <2>2 DEF TypeOK
    <2>7. QED
      BY <1>5, <2>3, <2>4, <2>5, <2>6 DEF RevokeNext, TypeOK
  <1>6. ASSUME NEW e \in Events,
               SeverNetwork(e) \/ SeverTap(e) \/ SeverTapDelete(e) \/ TerminateProcess(e)
        PROVE  TypeOK'
    <2>1. SinkTypeOK' /\ BackendTypeOK'
      BY <1>6, CallType DEF SeverNetwork, SeverTap, SeverTapDelete, TerminateProcess,
                            TypeOK, SinkTypeOK, sinkVars, wiring
    <2>2. result' \in KillResults /\ acted' \subseteq {"sever", "terminate"}
      BY <1>6, ReturnedType DEF SeverNetwork, SeverTap, SeverTapDelete,
                                TerminateProcess, TypeOK
    <2>3. AfterCall \in KillSteps /\ "tapdel" \in KillSteps /\ "store" \in KillSteps
      BY DEF AfterCall, KillSteps
    <2>4. kstep' \in KillSteps /\ lock' \in Events \cup {None} /\ pc' \in [Events -> Pcs]
      BY <1>6, <2>3, GoOnType DEF SeverNetwork, SeverTap, SeverTapDelete, TerminateProcess
    <2>5. QED
      BY <1>6, <2>1, <2>2, <2>4 DEF SeverNetwork, SeverTap, SeverTapDelete,
                                    TerminateProcess, TypeOK
  <1>7. ASSUME World
        PROVE  TypeOK'
    <2>1. SinkTypeOK' /\ BackendTypeOK'
      BY <1>7 DEF World, WorldStep, Register, Exit, DestroyEgress, TypeOK, SinkTypeOK,
                  BackendTypeOK, sinkVars, wiring
    <2>2. QED
      BY <1>7, <2>1 DEF World, TypeOK, reportVars, killVars
  <1>8. CASE UNCHANGED vars
    BY <1>8 DEF vars, sinkVars, wiring, world, reportVars, killVars, TypeOK, SinkTypeOK,
                BackendTypeOK
  <1>9. QED
    BY <1>1, <1>2, <1>3, <1>4, <1>5, <1>6, <1>7, <1>8 DEF Next, ThreadStep, KillStep

LEMMA LockStep == TypeOK /\ LockInv /\ [Next]_vars => LockInv'
  <1> SUFFICES ASSUME TypeOK, LockInv, [Next]_vars
               PROVE  LockInv'
    OBVIOUS
  <1> USE DEF LockInv
  <1>1. ASSUME NEW e \in Events, NEW s \in Severities, Report(e, s)
        PROVE  LockInv'
    BY <1>1 DEF Report, TypeOK, Pcs, killVars
  <1>2. ASSUME NEW e \in Events, Emit(e)
        PROVE  LockInv'
    BY <1>2 DEF Emit, reportVars, killVars
  <1>3. ASSUME NEW e \in Events, Decide(e)
        PROVE  LockInv'
    BY <1>3 DEF Decide, AfterEmit, TypeOK, Pcs, killVars
  <1>4. ASSUME NEW e \in Events, AlreadyKilled(e)
        PROVE  LockInv'
    BY <1>4 DEF AlreadyKilled, TypeOK, Pcs, killVars
  <1>5. ASSUME NEW e \in Events, Fire(e)
        PROVE  LockInv'
    BY <1>5 DEF Fire, TypeOK, Pcs, KillSteps
  <1>6. ASSUME NEW e \in Events, RecordCause(e)
        PROVE  LockInv'
    BY <1>6 DEF RecordCause, AfterRevokes, reportVars
  <1>7. ASSUME NEW e \in Events, NEW ret, NEW next \in {"revoke", "first", "second", "tapdel", "store"},
               lock = e, kstep \in {"revoke", "first", "second", "tapdel"},
               GoOn(e, ret, next), UNCHANGED <<killed, cause, kill_result>>
        PROVE  LockInv'
    BY <1>7 DEF GoOn, TypeOK, Pcs
  <1>8. ASSUME NEW e \in Events, RevokeNext(e)
        PROVE  LockInv'
    BY <1>7, <1>8 DEF RevokeNext, AfterRevokes
  <1>9. ASSUME NEW e \in Events,
               SeverNetwork(e) \/ SeverTap(e) \/ SeverTapDelete(e) \/ TerminateProcess(e)
        PROVE  LockInv'
    BY <1>7, <1>9 DEF SeverNetwork, SeverTap, SeverTapDelete, TerminateProcess,
                      AfterCall, SeverAt, TerminateAt
  <1>10. ASSUME NEW e \in Events, Finish(e)
         PROVE  LockInv'
    <2>1. kill_result' # None
      BY <1>10 DEF Finish, TypeOK
    <2>2. QED
      BY <1>10, <2>1 DEF Finish, TypeOK, Pcs
  <1>11. CASE World
    BY <1>11 DEF World, reportVars, killVars
  <1>12. CASE UNCHANGED vars
    BY <1>12 DEF vars, reportVars, killVars
  <1>13. QED
    BY <1>1, <1>2, <1>3, <1>4, <1>5, <1>6, <1>8, <1>9, <1>10, <1>11, <1>12
       DEF Next, ThreadStep, KillStep

LEMMA EmitInvStep == TypeOK /\ LockInv /\ EmitInv /\ [Next]_vars => EmitInv'
  <1> SUFFICES ASSUME TypeOK, LockInv, EmitInv, [Next]_vars
               PROVE  EmitInv'
    OBVIOUS
  <1> USE DEF EmitInv
  <1>0. emitPc \in [Events -> EmitPcs] /\ pc \in [Events -> Pcs]
    BY DEF TypeOK, SinkTypeOK
  <1>1. ASSUME NEW e \in Events, NEW s \in Severities, Report(e, s)
        PROVE  EmitInv'
    <2>1. /\ pc[e] = "idle" /\ pc' = [pc EXCEPT ![e] = "emitting"]
          /\ emitPc[e] = "idle" /\ emitPc' = [emitPc EXCEPT ![e] = "local"]
          /\ UNCHANGED <<logged, teeFailures, received, undelivered>>
      BY <1>1 DEF Report, StartEmit, EmitAt, recordVars, broadcastVars
    <2>2. QED
      BY <1>0, <2>1
  <1>2. ASSUME NEW e \in Events, Emit(e)
        PROVE  EmitInv'
    <2>1. pc' = pc /\ EmitStep(e)
      BY <1>2 DEF Emit, reportVars
    <2>2. CASE WriteLocal(e) \/ WriteFails(e)
      BY <1>0, <2>1, <2>2 DEF WriteLocal, WriteFails, AfterLocal, EmitAt, broadcastVars
    <2>3. CASE BroadcastRaises(e) \/ BroadcastOk(e) \/ CountDelivered(e) \/ BroadcastFails(e)
      <3>1. /\ emitPc[e] \in {"broadcast", "counting"}
            /\ emitPc' = [emitPc EXCEPT ![e] = emitPc'[e]]
            /\ emitPc'[e] \in {"counting", "emitted"}
            /\ UNCHANGED <<logged, teeFailures>>
            /\ received' \cup undelivered' \subseteq received \cup undelivered \cup {e}
        BY <1>0, <2>3 DEF BroadcastRaises, BroadcastOk, CountDelivered, BroadcastFails,
           EmitAt, recordVars
      <3>2. pc[e] = "emitting"
        BY <1>0, <3>1 DEF Pcs
      <3>3. QED
        BY <1>0, <2>1, <3>1, <3>2
    <2>4. QED
      BY <2>1, <2>2, <2>3 DEF EmitStep
  <1>3. ASSUME NEW e \in Events, Decide(e) \/ AlreadyKilled(e) \/ Fire(e)
        PROVE  EmitInv'
    BY <1>0, <1>3 DEF Decide, AlreadyKilled, Fire, AfterEmit, sinkVars
  <1>4. ASSUME NEW e \in Events, lock = e, UNCHANGED sinkVars,
               pc' \in {pc, [pc EXCEPT ![e] = "raised"], [pc EXCEPT ![e] = "returned"]}
        PROVE  EmitInv'
    <2>1. pc[e] = "kill"
      BY <1>4 DEF LockInv
    <2>2. QED
      BY <1>0, <1>4, <2>1 DEF sinkVars
  <1>5. ASSUME NEW e \in Events,
               RevokeNext(e) \/ SeverNetwork(e) \/ SeverTap(e) \/ SeverTapDelete(e)
               \/ TerminateProcess(e) \/ Finish(e)
        PROVE  EmitInv'
    BY <1>4, <1>5 DEF RevokeNext, SeverNetwork, SeverTap, SeverTapDelete,
                      TerminateProcess, Finish, GoOn
  <1>6. ASSUME NEW e \in Events, RecordCause(e)
        PROVE  EmitInv'
    BY <1>6 DEF RecordCause, sinkVars, reportVars
  <1>7. CASE World
    BY <1>7 DEF World, sinkVars, reportVars
  <1>8. CASE UNCHANGED vars
    BY <1>8 DEF vars, sinkVars, reportVars
  <1>9. QED
    BY <1>1, <1>2, <1>3, <1>5, <1>6, <1>7, <1>8 DEF Next, ThreadStep, KillStep

\* The tallies of the broadcast sink are kept by every step.
LEMMA BroadcastStep == TypeOK /\ EmitInv /\ BroadcastInv /\ [Next]_vars => BroadcastInv'
  <1> SUFFICES ASSUME TypeOK, EmitInv, BroadcastInv, [Next]_vars
               PROVE  BroadcastInv'
    OBVIOUS
  <1>0. /\ emitPc \in [Events -> EmitPcs] /\ received \subseteq Events
        /\ undelivered \subseteq Events /\ teeRaised \subseteq Events
        /\ tally \in [Events -> Nat] /\ delivered \in Nat
        /\ IsFiniteSet(Counted) /\ Cardinality(Counted) \in Nat
    <2>1. IsFiniteSet(Counted)
      BY FS_Subset DEF Counted, Ended
    <2>2. QED
      BY <2>1, FS_CardinalityType DEF TypeOK, SinkTypeOK
  <1>1. ASSUME UNCHANGED <<sink, sinkVars>>
        PROVE  BroadcastInv'
    BY <1>1 DEF BroadcastInv, BroadcastAccounting, Counted, Ended, sinkVars
  <1>2. ASSUME NEW e \in Events, sink' = sink, emitPc[e] \in {"idle", "local"},
               emitPc' = [emitPc EXCEPT ![e] = "local"]
                 \/ emitPc' = [emitPc EXCEPT ![e] = AfterLocal]
                 \/ emitPc' = [emitPc EXCEPT ![e] = IF sink = "tee" THEN "broadcast" ELSE "raised"],
               UNCHANGED broadcastVars
        PROVE  BroadcastInv'
    <2>1. Ended' = Ended
      BY <1>0, <1>2 DEF Ended, AfterLocal
    <2>2. Counted' = Counted
      BY <1>2, <2>1 DEF Counted, broadcastVars
    <2>3. /\ (sink # "tee" => \A f \in Events : emitPc[f] \notin {"broadcast", "counting"})'
          /\ \A f \in Events : emitPc'[f] = "counting" => emitPc[f] = "counting"
      BY <1>0, <1>2 DEF BroadcastInv, AfterLocal
    <2>4. QED
      BY <1>2, <2>1, <2>2, <2>3 DEF BroadcastInv, BroadcastAccounting, broadcastVars
  \* An event the broadcast sink is at is not among those whose broadcast has ended.
  <1>3. ASSUME NEW e \in Events, emitPc[e] \in {"broadcast", "counting"}
        PROVE  sink = "tee" /\ e \notin Ended /\ e \notin undelivered \cup teeRaised
    BY <1>3 DEF BroadcastInv, BroadcastAccounting, Ended
  <1>4. ASSUME NEW e \in Events, sink' = sink, BroadcastRaises(e) \/ BroadcastFails(e)
        PROVE  BroadcastInv'
    <2>1. /\ emitPc[e] = "broadcast" /\ emitPc' = [emitPc EXCEPT ![e] = "emitted"]
          /\ UNCHANGED <<delivered, tally>> /\ received \subseteq received'
          /\ \/ undelivered' = undelivered \cup {e} /\ teeRaised' = teeRaised
             \/ teeRaised' = teeRaised \cup {e} /\ undelivered' = undelivered
      BY <1>4 DEF BroadcastRaises, BroadcastFails, EmitAt
    <2>2. sink = "tee" /\ e \notin Ended /\ e \notin undelivered \cup teeRaised
      BY <1>3, <2>1
    <2>3. Ended' = Ended \cup {e}
      BY <1>0, <1>4, <2>1, <2>2 DEF Ended
    <2>4. Counted' = Counted
      BY <2>1, <2>2, <2>3 DEF Counted
    <2>5. \A f \in Events : emitPc'[f] = "counting" => emitPc[f] = "counting"
      BY <1>0, <2>1
    <2>6. BroadcastAccounting'
      BY <2>1, <2>2, <2>3, <2>4 DEF BroadcastInv, BroadcastAccounting
    <2>7. \A f \in Events : emitPc'[f] = "counting" => /\ f \in received'
                                                      /\ tally'[f] <= Cardinality(Counted')
      BY <2>1, <2>4, <2>5 DEF BroadcastInv
    <2>8. QED
      BY <1>4, <2>2, <2>6, <2>7 DEF BroadcastInv
  <1>5. ASSUME NEW e \in Events, sink' = sink, BroadcastOk(e)
        PROVE  BroadcastInv'
    <2>1. /\ emitPc[e] = "broadcast" /\ emitPc' = [emitPc EXCEPT ![e] = "counting"]
          /\ tally' = [tally EXCEPT ![e] = delivered] /\ received' = received \cup {e}
          /\ UNCHANGED <<delivered, undelivered, teeRaised>>
      BY <1>5 DEF BroadcastOk, EmitAt
    <2>2. sink = "tee" /\ Ended' = Ended /\ Counted' = Counted
      BY <1>0, <1>3, <1>5, <2>1 DEF Ended, Counted
    <2>3. BroadcastAccounting'
      BY <2>1, <2>2 DEF BroadcastInv, BroadcastAccounting
    <2>4. ASSUME NEW f \in Events, emitPc'[f] = "counting"
          PROVE  f \in received' /\ tally'[f] <= Cardinality(Counted')
      <3>1. CASE f = e
        <4>1. tally'[f] = delivered /\ f \in received'
          BY <1>0, <2>1, <3>1
        <4>2. QED
          BY <2>2, <4>1 DEF BroadcastInv, BroadcastAccounting
      <3>2. CASE f # e
        <4>1. tally'[f] = tally[f] /\ emitPc[f] = "counting" /\ received \subseteq received'
          BY <1>0, <2>1, <2>4, <3>2
        <4>2. QED
          BY <2>2, <4>1 DEF BroadcastInv
      <3>3. QED
        BY <3>1, <3>2
    <2>5. QED
      BY <1>5, <2>2, <2>3, <2>4 DEF BroadcastInv
  <1>6. ASSUME NEW e \in Events, sink' = sink, CountDelivered(e)
        PROVE  BroadcastInv'
    <2>1. /\ emitPc[e] = "counting" /\ emitPc' = [emitPc EXCEPT ![e] = "emitted"]
          /\ delivered' = tally[e] + 1 /\ tally' = [tally EXCEPT ![e] = 0]
          /\ UNCHANGED <<received, undelivered, teeRaised>>
      BY <1>6 DEF CountDelivered, EmitAt
    <2>2. sink = "tee" /\ e \notin Ended /\ e \notin undelivered \cup teeRaised
      BY <1>3, <2>1
    <2>3. Ended' = Ended \cup {e}
      BY <1>0, <1>6, <2>1, <2>2 DEF Ended
    <2>4. Counted' = Counted \cup {e} /\ e \notin Counted
      BY <2>1, <2>2, <2>3 DEF Counted
    <2>5. Cardinality(Counted') = Cardinality(Counted) + 1
      BY <1>0, <2>4, FS_AddElement
    <2>6. e \in received /\ tally[e] <= Cardinality(Counted) /\ tally[e] \in Nat
      BY <1>0, <2>1 DEF BroadcastInv
    <2>7. delivered' <= Cardinality(Counted') /\ delivered' > 0
      BY <1>0, <2>1, <2>5, <2>6
    <2>8. BroadcastAccounting'
      BY <2>1, <2>2, <2>3, <2>4, <2>6, <2>7 DEF BroadcastInv, BroadcastAccounting
    <2>9. ASSUME NEW f \in Events, emitPc'[f] = "counting"
          PROVE  f \in received' /\ tally'[f] <= Cardinality(Counted')
      <3>1. f # e /\ tally'[f] = tally[f] /\ emitPc[f] = "counting" /\ tally[f] \in Nat
        BY <1>0, <2>1, <2>9
      <3>2. f \in received' /\ tally[f] <= Cardinality(Counted)
        BY <2>1, <3>1 DEF BroadcastInv
      <3>3. QED
        BY <1>0, <2>5, <3>1, <3>2
    <2>10. QED
      BY <1>6, <2>2, <2>8, <2>9 DEF BroadcastInv
  <1>7. ASSUME NEW e \in Events, NEW s \in Severities, Report(e, s)
        PROVE  BroadcastInv'
    BY <1>2, <1>7 DEF Report, StartEmit, EmitAt
  <1>8. ASSUME NEW e \in Events, Emit(e)
        PROVE  BroadcastInv'
    <2>1. sink' = sink /\ EmitStep(e)
      BY <1>8 DEF Emit
    <2>2. CASE WriteLocal(e) \/ WriteFails(e)
      BY <1>2, <2>1, <2>2 DEF WriteLocal, WriteFails, EmitAt
    <2>3. QED
      BY <1>4, <1>5, <1>6, <2>1, <2>2 DEF EmitStep
  <1>9. ASSUME NEW e \in Events, ThreadStep(e), ~Emit(e)
        PROVE  UNCHANGED <<sink, sinkVars>>
    BY <1>9 DEF ThreadStep, Decide, AlreadyKilled, Fire, KillStep, RecordCause, RevokeNext,
                SeverNetwork, SeverTap, SeverTapDelete, TerminateProcess, Finish
  <1>10. CASE World \/ UNCHANGED vars
    BY <1>1, <1>10 DEF World, vars
  <1>11. QED
    BY <1>1, <1>7, <1>8, <1>9, <1>10 DEF Next

LEMMA ProgressStep == TypeOK /\ LockInv /\ ProgressInv /\ [Next]_vars => ProgressInv'
  <1> SUFFICES ASSUME TypeOK, LockInv, ProgressInv, [Next]_vars
               PROVE  ProgressInv'
    OBVIOUS
  <1> USE NType DEF ProgressInv
  <1>0. revokeAt \in 0..N
    BY DEF TypeOK
  <1>1. kstep \in {"cause", "revoke", "first", "second", "tapdel", "store"} => kill_result = None
    BY DEF LockInv
  <1>2. ASSUME NEW e \in Events, UNCHANGED <<kill_result, kstep, result, revokeAt, acted, backend>>
        PROVE  ProgressInv'
    BY <1>2 DEF canSeverFirst
  <1>3. ASSUME NEW e \in Events, Fire(e)
        PROVE  ProgressInv'
    <2>1. kstep = "idle"
      BY <1>3 DEF Fire, LockInv
    <2>2. QED
      BY <1>3, <2>1 DEF Fire
  <1>4. ASSUME NEW e \in Events, RecordCause(e)
        PROVE  ProgressInv'
    BY <1>0, <1>1, <1>4 DEF RecordCause, AfterRevokes
  <1>5. ASSUME NEW e \in Events, RevokeNext(e)
        PROVE  ProgressInv'
    BY <1>0, <1>1, <1>5 DEF RevokeNext, GoOn, AfterRevokes
  <1>6. ASSUME NEW e \in Events, SeverNetwork(e)
        PROVE  ProgressInv'
    BY <1>0, <1>1, <1>6 DEF SeverNetwork, GoOn, Returned, AfterCall, SeverAt, canSeverFirst, wiring
  <1>7. ASSUME NEW e \in Events, SeverTap(e)
        PROVE  ProgressInv'
    BY <1>0, <1>1, <1>7 DEF SeverTap, GoOn, Returned, AfterCall, SeverAt, canSeverFirst, wiring
  <1>8. ASSUME NEW e \in Events, SeverTapDelete(e)
        PROVE  ProgressInv'
    BY <1>0, <1>1, <1>8 DEF SeverTapDelete, GoOn, Returned, canSeverFirst, wiring
  <1>9. ASSUME NEW e \in Events, TerminateProcess(e)
        PROVE  ProgressInv'
    BY <1>0, <1>1, <1>9 DEF TerminateProcess, GoOn, Returned, AfterCall, TerminateAt,
                            canSeverFirst, wiring
  <1>10. ASSUME NEW e \in Events, Finish(e)
         PROVE  ProgressInv'
    BY <1>0, <1>10 DEF Finish
  <1>11. QED
    <2>1. ASSUME NEW e \in Events, NEW s \in Severities, Report(e, s)
          PROVE  ProgressInv'
      BY <1>2, <2>1 DEF Report, killVars, wiring
    <2>2. ASSUME NEW e \in Events, Emit(e) \/ Decide(e) \/ AlreadyKilled(e)
          PROVE  ProgressInv'
      BY <1>2, <2>2 DEF Emit, Decide, AlreadyKilled, killVars, wiring
    <2>3. CASE World \/ UNCHANGED vars
      BY <2>3 DEF World, vars, killVars, wiring, canSeverFirst
    <2>4. QED
      BY <1>3, <1>4, <1>5, <1>6, <1>7, <1>8, <1>9, <1>10, <2>1, <2>2, <2>3
         DEF Next, ThreadStep, KillStep

\* What a call to the backend may change of the world, in the order it may.
LEMMA WorldCall ==
  ASSUME TypeOK, NEW ret \in Returns
  PROVE  /\ SeverLink(ret) => /\ proc' = proc /\ revoked' = revoked
                              /\ link' \in {link, "gone"}
                              /\ ret = "true" => link' = "gone"
         /\ DropTap(ret)   => /\ proc' = proc /\ revoked' = revoked
                              /\ link' = link \/ (link = "up" /\ link' = "down")
         /\ DeleteTap(ret) => /\ proc' = proc /\ revoked' = revoked
                              /\ link' = link \/ (proc = "gone" /\ link' = "gone")
                              /\ ret = "true" => link' = "gone"
         /\ Terminate(ret) => /\ link' = link /\ revoked' = revoked
                              /\ proc' = proc \/ (proc = "running" /\ proc' = "dying")
                              /\ ret = "true" => proc' # "running"
  BY DEF SeverLink, LocalSever, GvisorSever, DropTap, DeleteTap, Terminate,
         LocalTerminate, GvisorTerminate, FirecrackerTerminate, Signalled, HostRaises,
         TypeOK, BackendTypeOK

LEMMA SafetyStep ==
  IInv /\ [Next]_vars => CredentialsFirst' /\ SeverOrder' /\ ResultTruthful'
  <1> SUFFICES ASSUME IInv, [Next]_vars
               PROVE  CredentialsFirst' /\ SeverOrder' /\ ResultTruthful'
    OBVIOUS
  <1> DEFINE Safe == CredentialsFirst' /\ SeverOrder' /\ ResultTruthful'
  <1>0. /\ TypeOK /\ LockInv /\ ProgressInv /\ CredentialsFirst /\ SeverOrder /\ ResultTruthful
        /\ N \in Nat /\ revokeAt \in 0..N /\ result \in KillResults
    BY NType DEF IInv, TypeOK
  <1>1. CASE UNCHANGED <<backend, world, result, revokeAt, acted>>
    BY <1>0, <1>1 DEF world, CredentialsFirst, SeverOrder, ResultTruthful
  <1>2. CASE World
    BY <1>0, <1>2 DEF World, WorldStep, Register, Exit, DestroyEgress, wiring, killVars,
                      TypeOK, BackendTypeOK, CredentialsFirst, SeverOrder, ResultTruthful
  <1>3. ASSUME NEW e \in Events, RevokeNext(e)
        PROVE  Safe
    <2> DEFINE c == CredentialIds[revokeAt + 1]
    <2>1. PICK ret \in Returns :
            /\ RevokeCredential(c, ret)
            /\ revokeAt' = IF ret = "raise" THEN revokeAt ELSE revokeAt + 1
            /\ result' = IF ret = "true"
                         THEN [result EXCEPT !.credentials_revoked = Append(@, c)]
                         ELSE result
      BY <1>3 DEF RevokeNext
    <2>2. /\ kstep = "revoke" /\ acted = {} /\ acted' = {} /\ backend' = backend
          /\ link' = link /\ proc' = proc /\ revokeAt < N
      BY <1>0, <1>3, <2>1 DEF RevokeNext, ProgressInv, RevokeCredential, wiring
    <2>3. link # "down" /\ proc # "dying"
      BY <1>0, <2>2 DEF CredentialsFirst
    <2>4. revoked \subseteq revoked' /\ (ret = "true" => c \in revoked')
      BY <2>1 DEF RevokeCredential, LocalRevoke, HttpRevoke
    <2>5. /\ result'.network_severed = result.network_severed
          /\ result'.process_terminated = result.process_terminated
      BY <1>0, <2>1 DEF KillResults
    <2>6. \A i \in 1..Len(result'.credentials_revoked) :
            result'.credentials_revoked[i] \in revoked'
      <3>1. result.credentials_revoked \in Seq(Tokens)
        BY <1>0 DEF KillResults
      <3>2. \A i \in 1..Len(result.credentials_revoked) :
              result.credentials_revoked[i] \in revoked'
        BY <1>0, <2>4 DEF ResultTruthful
      <3>3. CASE ret = "true"
        <4> DEFINE s == result.credentials_revoked
        <4>1. result'.credentials_revoked = Append(s, c)
          BY <1>0, <2>1, <3>3 DEF KillResults
        <4>2. c \in Tokens
          BY <1>0, <2>2 DEF N
        <4>3. /\ Len(Append(s, c)) = Len(s) + 1
              /\ Append(s, c)[Len(s) + 1] = c
              /\ \A i \in 1..Len(s) : Append(s, c)[i] = s[i]
          BY <3>1, <4>2
        <4>4. Len(s) \in Nat
          BY <3>1
        <4> HIDE DEF s
        <4>5. \A i \in 1..Len(Append(s, c)) : Append(s, c)[i] \in revoked'
          BY <2>4, <3>2, <3>3, <4>3, <4>4 DEF s
        <4>6. QED
          BY <4>1, <4>5
      <3>4. CASE ret # "true"
        BY <2>1, <3>2, <3>4
      <3>5. QED
        BY <3>3, <3>4
    <2>7. QED
      BY <1>0, <2>2, <2>3, <2>5, <2>6 DEF CredentialsFirst, SeverOrder, ResultTruthful
  <1> DEFINE SameCredentials ==
               /\ backend' = backend /\ revokeAt' = revokeAt /\ revoked' = revoked
               /\ result'.credentials_revoked = result.credentials_revoked
  <1>4. ASSUME NEW e \in Events, SeverNetwork(e)
        PROVE  Safe
    <2>1. PICK ret \in Returns : SeverLink(ret) /\ Returned("sever", ret)
      BY <1>4 DEF SeverNetwork
    <2>2. /\ backend # "firecracker" /\ revokeAt = N /\ SameCredentials
          /\ acted \subseteq acted' /\ (ret # "raise" => "sever" \in acted')
          /\ result'.process_terminated = result.process_terminated
          /\ result'.network_severed => result.network_severed \/ ret = "true"
      BY <1>0, <1>4, <2>1, WorldCall
         DEF SeverNetwork, Returned, ProgressInv, KillResults, SeverAt, canSeverFirst, wiring
    <2>3. QED
      BY <1>0, <2>1, <2>2, WorldCall DEF CredentialsFirst, SeverOrder, ResultTruthful
  <1>5. ASSUME NEW e \in Events, SeverTap(e)
        PROVE  Safe
    <2>1. PICK ret \in Returns :
            /\ DropTap(ret)
            /\ \/ Returned("sever", ret) /\ ret = "false"
               \/ UNCHANGED <<acted, result>>
      BY <1>5 DEF SeverTap
    <2>2. /\ backend = "firecracker" /\ revokeAt = N /\ SameCredentials
          /\ acted = {"terminate"} /\ acted \subseteq acted'
          /\ result'.process_terminated = result.process_terminated
          /\ result'.network_severed => result.network_severed
      BY <1>0, <1>5, <2>1, WorldCall
         DEF SeverTap, Returned, ProgressInv, KillResults, SeverAt, canSeverFirst, wiring
    <2>3. QED
      BY <1>0, <2>1, <2>2, WorldCall DEF CredentialsFirst, SeverOrder, ResultTruthful
  <1>6. ASSUME NEW e \in Events, SeverTapDelete(e)
        PROVE  Safe
    <2>1. PICK ret \in Returns : DeleteTap(ret) /\ Returned("sever", ret)
      BY <1>6 DEF SeverTapDelete
    <2>2. /\ backend = "firecracker" /\ revokeAt = N /\ SameCredentials
          /\ acted = {"terminate"} /\ acted \subseteq acted'
          /\ result'.process_terminated = result.process_terminated
          /\ result'.network_severed => result.network_severed \/ ret = "true"
      BY <1>0, <1>6, <2>1, WorldCall
         DEF SeverTapDelete, Returned, ProgressInv, KillResults, canSeverFirst, wiring,
             TypeOK, BackendTypeOK
    <2>3. QED
      BY <1>0, <2>1, <2>2, WorldCall DEF CredentialsFirst, SeverOrder, ResultTruthful
  <1>7. ASSUME NEW e \in Events, TerminateProcess(e)
        PROVE  Safe
    <2>1. PICK ret \in Returns : Terminate(ret) /\ Returned("terminate", ret)
      BY <1>7 DEF TerminateProcess
    <2>2. /\ revokeAt = N /\ SameCredentials
          /\ acted \subseteq acted' /\ acted' \subseteq acted \cup {"terminate"}
          /\ backend # "firecracker" => "sever" \in acted
          /\ backend = "firecracker" => "sever" \notin acted
          /\ result'.network_severed = result.network_severed
          /\ result'.process_terminated => result.process_terminated \/ ret = "true"
      BY <1>0, <1>7, <2>1, WorldCall
         DEF TerminateProcess, Returned, ProgressInv, KillResults, TerminateAt,
             canSeverFirst, wiring
    <2>3. QED
      BY <1>0, <2>1, <2>2, WorldCall DEF CredentialsFirst, SeverOrder, ResultTruthful
  <1>8. QED
    <2>1. ASSUME NEW e \in Events, NEW s \in Severities, Report(e, s)
          PROVE  Safe
      BY <1>1, <2>1 DEF Report, killVars, wiring
    <2>2. ASSUME NEW e \in Events,
                 Emit(e) \/ Decide(e) \/ AlreadyKilled(e) \/ Fire(e) \/ RecordCause(e) \/ Finish(e)
          PROVE  Safe
      BY <1>1, <2>2 DEF Emit, Decide, AlreadyKilled, Fire, RecordCause, Finish, killVars, wiring
    <2>3. CASE UNCHANGED vars
      BY <1>1, <2>3 DEF vars, killVars, wiring
    <2>4. QED
      BY <1>2, <1>3, <1>4, <1>5, <1>6, <1>7, <2>1, <2>2, <2>3 DEF Next, ThreadStep, KillStep

\* IInv is inductive.
LEMMA IInvStep == IInv /\ [Next]_vars => IInv'
  BY TypeStep, LockStep, EmitInvStep, ProgressStep, SafetyStep DEF IInv

LEMMA Inductive == Spec => []IInv
  BY InitIInv, IInvStep, PTL DEF Spec

-----------------------------------------------------------------------------
(* What a report tells its caller, and how far it is from its end.         *)

\* A step of execute_kill is the lock holder's, and moves no report but its own:
\* on, or to its end together with the kill.
LEMMA KillStepShape ==
  ASSUME IInv, NEW e \in Events, KillStep(e)
  PROVE  /\ lock = e /\ pc[e] = "kill" /\ kstep \notin {"idle", "done", "raised"}
         /\ UNCHANGED <<sinkVars, severity>>
         /\ \/ pc' = pc
            \/ /\ pc' = [pc EXCEPT ![e] = "raised"]
               /\ kstep' = "raised" /\ cause = e /\ cause' = cause
            \/ pc' = [pc EXCEPT ![e] = "returned"] /\ kstep' = "done"
  <1>1. LockInv /\ TypeOK
    BY DEF IInv
  <1>2. lock = e
    BY DEF KillStep, RecordCause, RevokeNext, SeverNetwork, SeverTap, SeverTapDelete,
           TerminateProcess, Finish
  <1>3. pc[e] = "kill" /\ kstep \notin {"idle", "done", "raised"}
    BY <1>1, <1>2 DEF LockInv
  <1>4. CASE RecordCause(e)
    BY <1>2, <1>3, <1>4 DEF RecordCause, reportVars
  <1>5. CASE Finish(e)
    BY <1>2, <1>3, <1>5 DEF Finish
  <1>6. CASE RevokeNext(e) \/ SeverNetwork(e) \/ SeverTap(e) \/ SeverTapDelete(e)
             \/ TerminateProcess(e)
    <2>1. kstep # "cause"
      BY <1>6 DEF RevokeNext, SeverNetwork, SeverTap, SeverTapDelete, TerminateProcess,
                  SeverAt, TerminateAt
    <2>2. cause = e
      BY <1>1, <1>2, <1>3, <2>1 DEF LockInv
    <2>3. UNCHANGED <<sinkVars, severity, cause>>
      BY <1>6 DEF RevokeNext, SeverNetwork, SeverTap, SeverTapDelete, TerminateProcess
    <2>4. \E ret, next : GoOn(e, ret, next)
      BY <1>6 DEF RevokeNext, SeverNetwork, SeverTap, SeverTapDelete, TerminateProcess
    <2>5. QED
      BY <1>2, <1>3, <2>2, <2>3, <2>4 DEF GoOn
  <1>7. QED
    BY <1>4, <1>5, <1>6 DEF KillStep

LEMMA OutcomeStep == IInv /\ OutcomeInv /\ [Next]_vars => OutcomeInv'
  <1> SUFFICES ASSUME IInv, OutcomeInv, [Next]_vars
               PROVE  OutcomeInv'
    OBVIOUS
  <1>0. /\ TypeOK /\ LockInv /\ EmitInv
        /\ emitPc \in [Events -> EmitPcs] /\ pc \in [Events -> Pcs]
        /\ severity \in [Events -> Severities \cup {"none"}]
    BY DEF IInv, TypeOK, SinkTypeOK
  <1> USE DEF OutcomeInv
  <1>1. ASSUME NEW e \in Events, NEW s \in Severities, Report(e, s)
        PROVE  OutcomeInv'
    <2>1. /\ pc[e] = "idle" /\ pc' = [pc EXCEPT ![e] = "emitting"]
          /\ emitPc[e] = "idle" /\ emitPc' = [emitPc EXCEPT ![e] = "local"]
          /\ severity' = [severity EXCEPT ![e] = s]
          /\ UNCHANGED <<logged, teeFailures, kstep, cause>>
      BY <1>1 DEF Report, StartEmit, EmitAt, recordVars, killVars
    <2>2. QED
      BY <1>0, <2>1
  <1>2. ASSUME NEW e \in Events, Emit(e)
        PROVE  OutcomeInv'
    <2>1. UNCHANGED <<pc, severity, kstep, cause>> /\ EmitStep(e)
      BY <1>2 DEF Emit, reportVars, killVars
    <2>2. CASE WriteLocal(e) \/ WriteFails(e)
      BY <1>0, <2>1, <2>2 DEF WriteLocal, WriteFails, AfterLocal, EmitAt, EmitInv
    <2>3. CASE BroadcastRaises(e) \/ BroadcastOk(e) \/ CountDelivered(e) \/ BroadcastFails(e)
      <3>1. /\ emitPc[e] \in {"broadcast", "counting"}
            /\ emitPc' = [emitPc EXCEPT ![e] = emitPc'[e]]
            /\ emitPc'[e] \in {"counting", "emitted"}
            /\ UNCHANGED <<logged, teeFailures>>
        BY <1>0, <2>3 DEF BroadcastRaises, BroadcastOk, CountDelivered, BroadcastFails,
           EmitAt, recordVars
      <3>2. QED
        BY <1>0, <2>1, <3>1 DEF EmitInv
    <2>4. QED
      BY <2>1, <2>2, <2>3 DEF EmitStep
  <1>3. ASSUME NEW e \in Events, Decide(e)
        PROVE  OutcomeInv'
    BY <1>0, <1>3 DEF Decide, AfterEmit, sinkVars, killVars, EmitInv
  <1>4. ASSUME NEW e \in Events, AlreadyKilled(e)
        PROVE  OutcomeInv'
    <2>1. kstep \in {"done", "raised"}
      BY <1>0, <1>4 DEF AlreadyKilled, LockInv
    <2>2. QED
      BY <1>0, <1>4, <2>1 DEF AlreadyKilled, sinkVars, killVars
  <1>5. ASSUME NEW e \in Events, Fire(e)
        PROVE  OutcomeInv'
    <2>1. kstep = "idle"
      BY <1>0, <1>5 DEF Fire, LockInv
    <2>2. QED
      BY <1>0, <1>5, <2>1 DEF Fire, sinkVars
  <1>6. ASSUME NEW e \in Events, KillStep(e)
        PROVE  OutcomeInv'
    <2>1. /\ lock = e /\ pc[e] = "kill" /\ kstep \notin {"idle", "done", "raised"}
          /\ UNCHANGED <<sinkVars, severity>>
          /\ \/ pc' = pc
             \/ /\ pc' = [pc EXCEPT ![e] = "raised"]
                /\ kstep' = "raised" /\ cause = e /\ cause' = cause
             \/ pc' = [pc EXCEPT ![e] = "returned"] /\ kstep' = "done"
      BY <1>6, KillStepShape
    <2>2. QED
      BY <1>0, <2>1 DEF sinkVars
  <1>7. CASE World \/ UNCHANGED vars
    BY <1>7 DEF World, vars, sinkVars, reportVars, killVars
  <1>8. QED
    BY <1>1, <1>2, <1>3, <1>4, <1>5, <1>6, <1>7 DEF Next, ThreadStep

LEMMA OutcomeInductive == Spec => [](IInv /\ OutcomeInv)
  <1>1. Init => OutcomeInv
    BY DEF Init, SinkInit, OutcomeInv
  <1>2. QED
    BY <1>1, OutcomeStep, Inductive, PTL DEF Spec

\* A backend call raises only where the host or the wiring lets it.
LEMMA CallsRaise ==
  ASSUME BackendTypeOK, NEW ret \in Returns, GoodHost,
         \/ \E c \in Tokens : RevokeCredential(c, ret)
         \/ SeverLink(ret) \/ DropTap(ret) \/ DeleteTap(ret) \/ Terminate(ret)
  PROVE  ret # "raise"
  <1>1. hostOk /\ (backend # "local" => revoker = "http")
    BY DEF GoodHost
  <1>2. ASSUME NEW c \in Tokens, RevokeCredential(c, ret)
        PROVE  ret # "raise"
    <2>1. CASE backend = "local"
      BY <1>2, <2>1 DEF RevokeCredential, LocalRevoke
    <2>2. CASE backend # "local"
      BY <1>1, <1>2, <2>2 DEF RevokeCredential, HttpRevoke
    <2>3. QED
      BY <2>1, <2>2
  <1>3. CASE SeverLink(ret)
    BY <1>1, <1>3 DEF SeverLink, LocalSever, GvisorSever, HostRaises
  <1>4. CASE DropTap(ret) \/ DeleteTap(ret)
    BY <1>1, <1>4 DEF DropTap, DeleteTap, HostRaises
  <1>5. CASE Terminate(ret)
    BY <1>1, <1>5 DEF Terminate, LocalTerminate, GvisorTerminate, FirecrackerTerminate,
                      HostRaises
  <1>6. QED
    BY <1>2, <1>3, <1>4, <1>5

LEMMA RaiseStep == IInv /\ RaiseInv /\ [Next]_vars => RaiseInv'
  <1> SUFFICES ASSUME IInv, RaiseInv, [Next]_vars
               PROVE  RaiseInv'
    OBVIOUS
  <1>0. /\ TypeOK /\ LockInv /\ ProgressInv /\ BackendTypeOK
        /\ emitPc \in [Events -> EmitPcs] /\ wiring' = wiring /\ sink' = sink
    <2>1. wiring' = wiring /\ sink' = sink
      BY DEF Next, Report, ThreadStep, Emit, Decide, AlreadyKilled, Fire, KillStep,
         RecordCause, RevokeNext, SeverNetwork, SeverTap, SeverTapDelete,
         TerminateProcess, Finish, World, vars
    <2>2. QED
      BY <2>1 DEF IInv, TypeOK, SinkTypeOK
  <1>1. GoodHost' = GoodHost
    BY <1>0 DEF GoodHost, wiring
  <1>2. ASSUME UNCHANGED <<kstep, emitPc>>
        PROVE  RaiseInv'
    BY <1>0, <1>1, <1>2 DEF RaiseInv
  <1>3. ASSUME NEW e \in Events, NEW s \in Severities, Report(e, s)
        PROVE  RaiseInv'
    BY <1>0, <1>1, <1>3 DEF Report, StartEmit, EmitAt, killVars, RaiseInv
  <1>4. ASSUME NEW e \in Events, Emit(e)
        PROVE  RaiseInv'
    BY <1>0, <1>1, <1>4 DEF Emit, EmitStep, WriteLocal, WriteFails, BroadcastRaises,
       BroadcastOk, CountDelivered, BroadcastFails, AfterLocal, EmitAt, killVars, RaiseInv
  <1>5. ASSUME NEW e \in Events, Decide(e) \/ AlreadyKilled(e)
        PROVE  RaiseInv'
    BY <1>2, <1>5 DEF Decide, AlreadyKilled, killVars, sinkVars
  <1>6. ASSUME NEW e \in Events, Fire(e) \/ RecordCause(e) \/ Finish(e)
        PROVE  RaiseInv'
    BY <1>0, <1>1, <1>6 DEF Fire, RecordCause, AfterRevokes, Finish, sinkVars, RaiseInv
  <1>7. ASSUME NEW e \in Events,
               RevokeNext(e) \/ SeverNetwork(e) \/ SeverTap(e) \/ SeverTapDelete(e)
                 \/ TerminateProcess(e)
        PROVE  RaiseInv'
    <2>1. kstep # "raised" /\ emitPc' = emitPc
      BY <1>7 DEF RevokeNext, SeverNetwork, SeverTap, SeverTapDelete, TerminateProcess,
         SeverAt, TerminateAt, sinkVars
    <2>2. GoodHost => kstep' # "raised"
      <3>1. ASSUME GoodHost, RevokeNext(e)
            PROVE  kstep' # "raised"
        <4>1. PICK ret \in Returns :
                /\ RevokeCredential(CredentialIds[revokeAt + 1], ret)
                /\ GoOn(e, ret, AfterRevokes(revokeAt + 1))
          BY <3>1 DEF RevokeNext
        <4>2. CredentialIds[revokeAt + 1] \in Tokens
          BY <1>0, <3>1, NType, SupervisorAssumption DEF RevokeNext, ProgressInv, TypeOK, N
        <4>3. QED
          BY <1>0, <3>1, <4>1, <4>2, CallsRaise DEF GoOn, AfterRevokes
      <3>2. ASSUME GoodHost, SeverNetwork(e) \/ TerminateProcess(e) \/ SeverTapDelete(e)
            PROVE  kstep' # "raised"
        <4>1. PICK ret \in Returns :
                /\ SeverLink(ret) \/ Terminate(ret) \/ DeleteTap(ret)
                /\ GoOn(e, ret, AfterCall) \/ GoOn(e, ret, "store")
          BY <3>2 DEF SeverNetwork, TerminateProcess, SeverTapDelete
        <4>2. QED
          BY <1>0, <3>2, <4>1, CallsRaise DEF GoOn, AfterCall
      <3>3. ASSUME GoodHost, SeverTap(e)
            PROVE  kstep' # "raised"
        <4>1. PICK ret \in Returns :
                DropTap(ret) /\ (GoOn(e, ret, AfterCall) \/ GoOn(e, ret, "tapdel"))
          BY <3>3 DEF SeverTap
        <4>2. QED
          BY <1>0, <3>3, <4>1, CallsRaise DEF GoOn, AfterCall
      <3>4. QED
        BY <1>7, <3>1, <3>2, <3>3
    <2>3. QED
      BY <1>0, <1>1, <2>1, <2>2 DEF RaiseInv
  <1>8. CASE World \/ UNCHANGED vars
    BY <1>2, <1>8 DEF World, vars, sinkVars, killVars
  <1>9. QED
    BY <1>3, <1>4, <1>5, <1>6, <1>7, <1>8 DEF Next, ThreadStep, KillStep

LEMMA RaiseInductive == Spec => [](IInv /\ OutcomeInv /\ RaiseInv)
  <1>1. Init => RaiseInv
    BY DEF Init, SinkInit, RaiseInv
  <1>2. QED
    BY <1>1, RaiseStep, OutcomeInductive, PTL DEF Spec

\* Steps of execute_kill only go forward.
LEMMA KillRunsOut ==
  ASSUME IInv, NEW e \in Events, KillStep(e)
  PROVE  KillLeft \in Nat /\ KillLeft <= N + 5 /\ KillLeft' \in Nat /\ KillLeft' < KillLeft
  <1>0. /\ LockInv /\ ProgressInv /\ N \in Nat /\ revokeAt \in 0..N
    BY NType DEF IInv, TypeOK
  <1>1. CASE RecordCause(e)
    <2>1. kstep = "cause" /\ revokeAt' = 0 /\ kstep' = IF 0 = N THEN "first" ELSE "revoke"
      BY <1>0, <1>1 DEF RecordCause, AfterRevokes, ProgressInv
    <2>2. QED
      BY <1>0, <2>1 DEF KillLeft
  <1>2. CASE RevokeNext(e)
    <2>1. kstep = "revoke" /\ revokeAt < N
      BY <1>0, <1>2 DEF RevokeNext, ProgressInv
    <2>2. \/ kstep' = "raised"
          \/ /\ revokeAt' = revokeAt + 1
             /\ kstep' = IF revokeAt + 1 = N THEN "first" ELSE "revoke"
      BY <1>2 DEF RevokeNext, GoOn, AfterRevokes
    <2>3. QED
      BY <1>0, <2>1, <2>2 DEF KillLeft
  <1>3. CASE SeverNetwork(e) \/ TerminateProcess(e)
    <2>1. kstep \in {"first", "second"} /\ kstep' \in {"raised", AfterCall}
      BY <1>3 DEF SeverNetwork, TerminateProcess, GoOn, SeverAt, TerminateAt
    <2>2. QED
      BY <1>0, <2>1 DEF KillLeft, AfterCall
  <1>4. CASE SeverTap(e)
    <2>1. kstep = "second" /\ kstep' \in {"raised", "store", "tapdel"}
      BY <1>4 DEF SeverTap, GoOn, SeverAt, AfterCall, canSeverFirst
    <2>2. QED
      BY <1>0, <2>1 DEF KillLeft
  <1>5. CASE SeverTapDelete(e) \/ Finish(e)
    <2>1. \/ kstep = "tapdel" /\ kstep' \in {"raised", "store"}
          \/ kstep = "store" /\ kstep' = "done"
      BY <1>5 DEF SeverTapDelete, Finish, GoOn
    <2>2. QED
      BY <1>0, <2>1 DEF KillLeft
  <1>6. QED
    BY <1>1, <1>2, <1>3, <1>4, <1>5 DEF KillStep

\* A step of one thread brings its own report nearer to its end and leaves every
\* other where it is.
LEMMA ThreadAdvances ==
  ASSUME IInv, NEW e \in Events, ThreadStep(e)
  PROVE  /\ ReportLeft(e)' \in Nat /\ ReportLeft(e)' < ReportLeft(e)
         /\ \A f \in Events \ {e} : ReportLeft(f)' = ReportLeft(f)
  <1>0. /\ TypeOK /\ LockInv /\ EmitInv /\ N \in Nat
        /\ emitPc \in [Events -> EmitPcs] /\ pc \in [Events -> Pcs]
    BY NType DEF IInv, TypeOK, SinkTypeOK
  <1>1. ASSUME NEW f \in Events, pc'[f] = pc[f], emitPc'[f] = emitPc[f], pc[f] # "kill"
        PROVE  ReportLeft(f)' = ReportLeft(f)
    BY <1>1 DEF ReportLeft
  <1>2. CASE Emit(e)
    <2>1. /\ pc' = pc /\ kstep' = kstep /\ revokeAt' = revokeAt
          /\ \/ emitPc[e] = "local" /\ emitPc'[e] # "local"
             \/ emitPc[e] = "broadcast" /\ emitPc'[e] \in {"counting", "emitted"}
             \/ emitPc[e] = "counting" /\ emitPc'[e] = "emitted"
          /\ emitPc' = [emitPc EXCEPT ![e] = emitPc'[e]]
      BY <1>0, <1>2 DEF Emit, EmitStep, WriteLocal, WriteFails, BroadcastRaises, BroadcastOk,
         CountDelivered, BroadcastFails, AfterLocal, EmitAt, reportVars, killVars
    <2>2. pc[e] = "emitting"
      BY <1>0, <2>1 DEF EmitInv, Pcs
    <2>3. ReportLeft(e)' \in Nat /\ ReportLeft(e)' < ReportLeft(e)
      BY <1>0, <2>1, <2>2 DEF ReportLeft
    <2>4. \A f \in Events \ {e} : ReportLeft(f)' = ReportLeft(f)
      BY <1>0, <2>1 DEF ReportLeft, KillLeft
    <2>5. QED
      BY <2>3, <2>4
  <1>3. CASE Decide(e) \/ AlreadyKilled(e) \/ Fire(e)
    <2>1. /\ emitPc' = emitPc /\ revokeAt' = revokeAt
          /\ pc' = [pc EXCEPT ![e] = pc'[e]]
          /\ \/ /\ pc[e] = "emitting" /\ emitPc[e] \in {"emitted", "raised"}
                /\ pc'[e] \in {"raised", "returned", "lock"} /\ kstep' = kstep
             \/ pc[e] = "lock" /\ pc'[e] = "returned" /\ kstep' = kstep
             \/ pc[e] = "lock" /\ pc'[e] = "kill" /\ lock = None /\ kstep' = "cause"
      BY <1>0, <1>3 DEF Decide, AlreadyKilled, Fire, AfterEmit, sinkVars, killVars
    <2>2. ReportLeft(e)' \in Nat /\ ReportLeft(e)' < ReportLeft(e)
      BY <1>0, <2>1 DEF ReportLeft, KillLeft
    <2>3. \A f \in Events \ {e} : ReportLeft(f)' = ReportLeft(f)
      <3>1. CASE kstep' = kstep
        BY <1>0, <2>1, <3>1 DEF ReportLeft, KillLeft
      <3>2. CASE lock = None
        <4>1. \A f \in Events : pc[f] # "kill"
          BY <1>0, <3>2 DEF LockInv
        <4>2. QED
          BY <1>0, <1>1, <2>1, <4>1
      <3>3. QED
        BY <2>1, <3>1, <3>2
    <2>4. QED
      BY <2>2, <2>3
  <1>4. CASE KillStep(e)
    <2>1. /\ lock = e /\ pc[e] = "kill" /\ emitPc' = emitPc
          /\ \/ pc' = pc
             \/ pc' = [pc EXCEPT ![e] = "raised"]
             \/ pc' = [pc EXCEPT ![e] = "returned"]
      BY <1>4, KillStepShape DEF sinkVars
    <2>2. ReportLeft(e)' \in Nat /\ ReportLeft(e)' < ReportLeft(e)
      <3>1. /\ KillLeft \in Nat /\ KillLeft' \in Nat /\ KillLeft' < KillLeft
        BY <1>4, KillRunsOut
      <3>2. ReportLeft(e) = KillLeft /\ ReportLeft(e)' \in {KillLeft', 0}
        BY <1>0, <2>1 DEF ReportLeft
      <3>3. QED
        BY <3>1, <3>2
    <2>3. ASSUME NEW f \in Events \ {e}
          PROVE  ReportLeft(f)' = ReportLeft(f)
      <3>1. pc[f] # "kill" /\ pc'[f] = pc[f]
        BY <1>0, <2>1 DEF LockInv
      <3>2. QED
        BY <1>1, <2>1, <3>1
    <2>4. QED
      BY <2>2, <2>3
  <1>5. QED
    BY <1>2, <1>3, <1>4 DEF ThreadStep

LEMMA LeftType == IInv => \A f \in Events : ReportLeft(f) \in Nat
  <1> SUFFICES ASSUME IInv, NEW f \in Events
               PROVE  ReportLeft(f) \in Nat
    OBVIOUS
  <1>1. N \in Nat /\ revokeAt \in 0..N
    BY NType DEF IInv, TypeOK
  <1>2. KillLeft \in Nat
    BY <1>1 DEF KillLeft
  <1>3. QED
    BY <1>1, <1>2 DEF ReportLeft

\* No step of any thread, or of the world, sets a report back.
LEMMA NeverFurther ==
  ASSUME IInv, Next, NEW f \in Events
  PROVE  ReportLeft(f)' <= ReportLeft(f)
  <1>0. /\ N \in Nat /\ pc \in [Events -> Pcs] /\ emitPc \in [Events -> EmitPcs]
        /\ ReportLeft(f) \in Nat
    BY NType, LeftType DEF IInv, TypeOK, SinkTypeOK
  <1>1. ASSUME NEW e \in Events, NEW s \in Severities, Report(e, s)
        PROVE  ReportLeft(f)' <= ReportLeft(f)
    <2>1. /\ pc[e] = "idle" /\ pc' = [pc EXCEPT ![e] = "emitting"]
          /\ emitPc' = [emitPc EXCEPT ![e] = "local"]
          /\ UNCHANGED <<kstep, revokeAt>>
      BY <1>1 DEF Report, StartEmit, EmitAt, killVars
    <2>2. CASE f = e
      BY <1>0, <2>1, <2>2 DEF ReportLeft
    <2>3. CASE f # e
      <3>1. ReportLeft(f)' = ReportLeft(f)
        BY <1>0, <2>1, <2>3 DEF ReportLeft, KillLeft
      <3>2. QED
        BY <1>0, <3>1
    <2>4. QED
      BY <2>2, <2>3
  <1>2. ASSUME NEW e \in Events, ThreadStep(e)
        PROVE  ReportLeft(f)' <= ReportLeft(f)
    BY <1>0, <1>2, ThreadAdvances
  <1>3. CASE World
    <2>1. ReportLeft(f)' = ReportLeft(f)
      BY <1>3 DEF World, sinkVars, reportVars, killVars, ReportLeft, KillLeft
    <2>2. QED
      BY <1>0, <2>1
  <1>4. QED
    BY <1>1, <1>2, <1>3 DEF Next

-----------------------------------------------------------------------------
(* The theorems.                                                           *)

\* Every variable keeps its type (supervisor.py:25-40, kill.py:26-31).
THEOREM TypeCorrect == Spec => []TypeOK
  <1>1. IInv => TypeOK
    BY DEF IInv
  <1>2. QED
    BY <1>1, Inductive, PTL

\* The lock is held by exactly the thread in execute_kill, and by nobody once
\* the kill has ended, whether it was finished or raised (supervisor.py:66-73).
THEOREM LockDiscipline == Spec => []LockInv
  <1>1. IInv => LockInv
    BY DEF IInv
  <1>2. QED
    BY <1>1, Inductive, PTL

\* Credentials first, always, with every backend and whatever the calls return
\* or raise (kill.py:94-126).
THEOREM CredentialsAreFirst == Spec => []CredentialsFirst
  <1>1. IInv => CredentialsFirst
    BY DEF IInv
  <1>2. QED
    BY <1>1, Inductive, PTL

\* Then the order the backend needs: sever_network has returned before the process is
\* signalled, or a tap is touched after terminate() has returned, the VM signalled if
\* terminate() said so, and removed from a VM that is gone (kill.py:103-126).
THEOREM KillOrder == Spec => []SeverOrder
  <1>1. IInv => SeverOrder
    BY DEF IInv
  <1>2. QED
    BY <1>1, Inductive, PTL

\* A KillResult claims only what is so at the issuer, on the link and of the
\* process (kill.py:26-31, 114-126, with the three backends).
THEOREM ResultClaims == Spec => []ResultTruthful
  <1>1. IInv => ResultTruthful
    BY DEF IInv
  <1>2. QED
    BY <1>1, Inductive, PTL

\* What an unlocked reader may conclude (supervisor.py:42-52).
THEOREM Publication == Spec => []PublicationOrder
  <1>1. IInv => PublicationOrder
    BY DEF IInv, LockInv, ProgressInv, PublicationOrder
  <1>2. QED
    BY <1>1, Inductive, PTL

\* The record is made, or its failure kept, before the decision
\* (supervisor.py:61-66, sinks.py:37-45, 69-74).
THEOREM RecordFirst == Spec => []ForensicRecord
  <1>1. IInv => ForensicRecord
    BY DEF IInv, TypeOK, SinkTypeOK, EmitInv, ForensicRecord
  <1>2. QED
    BY <1>1, Inductive, PTL

\* The local write of an event was tried before it is sent to a registry
\* (sinks.py:69-74).
THEOREM LocalFirst == Spec => []LocalBeforeNetwork
  <1>1. IInv => LocalBeforeNetwork
    BY DEF IInv, TypeOK, SinkTypeOK, EmitInv, LocalBeforeNetwork
  <1>2. QED
    BY <1>1, Inductive, PTL

\* A broadcast that ended was delivered, is in the sink's failures or in the tee's,
\* and in one of them only.  `delivered` may lose increments of reports that count
\* at once, but never claims more than was delivered, nor none when some was
\* (sinks.py:69-74, 98-116).
THEOREM BroadcastsAddUp == Spec => []BroadcastAccounting
  <1>1. ASSUME Init
        PROVE  BroadcastInv
    <2>1. /\ sink \in {"tee", "local"} /\ emitPc = [e \in Events |-> "idle"]
          /\ undelivered = {} /\ teeRaised = {} /\ delivered = 0
      BY <1>1 DEF Init, SinkInit
    <2>2. Ended = {} /\ Counted = {}
      BY <2>1 DEF Ended, Counted
    <2>3. QED
      BY <2>1, <2>2, FS_EmptySet DEF BroadcastInv, BroadcastAccounting
  <1>2. IInv /\ BroadcastInv /\ [Next]_vars => BroadcastInv'
    BY BroadcastStep DEF IInv
  <1>3. BroadcastInv => BroadcastAccounting
    BY DEF BroadcastInv
  <1>4. QED
    BY <1>1, <1>2, <1>3, Inductive, PTL DEF Spec

\* Whoever gets an answer from report knows the kill is over if it was a KILL, also
\* the thread that only waited; and an exception has one of two causes
\* (supervisor.py:61-73).
THEOREM AnswersAreTrue == Spec => []ReturnsTell
  <1>1. OutcomeInv => ReturnsTell
    BY DEF OutcomeInv, ReturnsTell
  <1>2. QED
    BY <1>1, OutcomeInductive, PTL

\* Whatever the sinks, the issuer, the registry and the host's commands answer, an
\* exception reaches execute_kill or report only from a host command that cannot be
\* run, a backend without a revoker, a revocation whose request cannot be made, or
\* a bare local sink (README:60-64, kill.py:94-126, credentials.py:58-76,
\* sinks.py:59-74).
THEOREM NothingOnTheKillPathRaises == Spec => []NothingRaises
  <1>1. ASSUME IInv, OutcomeInv, RaiseInv
        PROVE  NothingRaises
    <2>1. ASSUME SafeWiring, NEW e \in Events
          PROVE  /\ pc[e] # "raised"
                 /\ pc[e] = "returned" /\ severity[e] = "kill" =>
                      kstep = "done" /\ kill_result # None
      <3>1. kstep # "raised" /\ emitPc[e] # "raised"
        BY <1>1, <2>1 DEF RaiseInv, SafeWiring
      <3>2. QED
        BY <1>1, <3>1 DEF OutcomeInv, IInv, LockInv
    <2>2. QED
      BY <1>1, <2>1 DEF NothingRaises, RaiseInv
  <1>2. QED
    BY <1>1, RaiseInductive, PTL

\* A report has at most N + 11 steps in it, and each step of its thread takes one
\* of them away for good: what liveness under fairness rests on (supervisor.py:54-73,
\* kill.py:94-126).
THEOREM ReportsRunOut == Spec => ReportsAdvance
  <1> DEFINE Nearer == \A e \in Events : /\ ThreadStep(e) => ReportLeft(e)' < ReportLeft(e)
                                         /\ ReportLeft(e)' <= ReportLeft(e)
  <1>1. IInv /\ Next => Nearer
    BY ThreadAdvances, NeverFurther
  <1>2. IInv /\ [Next]_vars => [Nearer]_vars
    BY <1>1
  <1>3. QED
    BY <1>2, Inductive, PTL DEF Spec, ReportsAdvance

\* One kill, one cause, one result, for good (supervisor.py:66-73).
THEOREM OneKill == Spec => KilledOnce
  <1> DEFINE Step == /\ killed => killed'
                     /\ cause # None => cause' = cause
                     /\ kill_result # None => kill_result' = kill_result
                     /\ kstep \in {"done", "raised"} => UNCHANGED killVars
  <1>1. ASSUME IInv, Next
        PROVE  Step
    <2>1. LockInv
      BY <1>1 DEF IInv
    <2>2. ASSUME NEW e \in Events, NEW s \in Severities, Report(e, s)
          PROVE  Step
      BY <2>2 DEF Report, killVars
    <2>3. ASSUME NEW e \in Events, Emit(e) \/ Decide(e) \/ AlreadyKilled(e)
          PROVE  Step
      BY <2>3 DEF Emit, Decide, AlreadyKilled, killVars
    <2>4. ASSUME NEW e \in Events, Fire(e)
          PROVE  Step
      BY <2>1, <2>4 DEF Fire, LockInv
    <2>5. ASSUME NEW e \in Events, KillStep(e)
          PROVE  Step
      <3>1. lock = e /\ lock # None
        BY <2>5 DEF KillStep, RecordCause, RevokeNext, SeverNetwork, SeverTap,
                    SeverTapDelete, TerminateProcess, Finish
      <3>2. kstep \notin {"done", "raised"} /\ killed /\ kill_result = None
        BY <2>1, <3>1 DEF LockInv
      <3>3. killed' = killed /\ (cause # None => cause' = cause)
        BY <2>1, <2>5 DEF KillStep, RecordCause, RevokeNext, SeverNetwork, SeverTap,
                    SeverTapDelete, TerminateProcess, Finish, LockInv
      <3>4. QED
        BY <3>2, <3>3
    <2>6. CASE World
      BY <2>6 DEF World, killVars
    <2>7. QED
      BY <1>1, <2>2, <2>3, <2>4, <2>5, <2>6 DEF Next, ThreadStep
  <1>2. IInv /\ [Next]_vars => [Step]_vars
    BY <1>1
  <1>3. QED
    BY <1>2, Inductive, PTL DEF Spec, KilledOnce

-----------------------------------------------------------------------------
(* Supervisor implements KillSwitch.                                       *)

\* Every step of the supervisor is a step of the kill switch or leaves it as it
\* is, so the supervisor is one (supervisor.py:54-73, kill.py:94-126).
THEOREM Implements == Spec => ImplementsKillSwitch
  <1> USE NType
  <1>1. Init => KS!Init
    BY DEF Init, KS!Init, Phase, canSeverFirst
  <1>2. ASSUME IInv, [Next]_vars
        PROVE  [KS!Next]_(KS!vars)
    <2>0. TypeOK /\ LockInv /\ ProgressInv /\ revokeAt \in 0..N
      BY <1>2 DEF IInv, TypeOK
    <2>1. CASE UNCHANGED <<cause, kstep, revokeAt, acted, backend>>
      BY <2>1 DEF KS!vars, Phase, canSeverFirst
    <2>2. ASSUME NEW e \in Events, Fire(e)
          PROVE  UNCHANGED KS!vars
      BY <2>0, <2>2 DEF Fire, KS!vars, Phase, LockInv, canSeverFirst, wiring
    <2>3. ASSUME NEW e \in Events, RecordCause(e)
          PROVE  KS!Fire
      BY <2>0, <2>3 DEF RecordCause, AfterRevokes, KS!Fire, Phase, LockInv,
                        canSeverFirst, wiring
    <2>4. ASSUME NEW e \in Events, RevokeNext(e)
          PROVE  KS!Revoke \/ KS!Abort
      BY <2>0, <2>4 DEF RevokeNext, GoOn, AfterRevokes, KS!Revoke, KS!Abort, Phase,
                        LockInv, ProgressInv, canSeverFirst, wiring
    <2>5. ASSUME NEW e \in Events, SeverNetwork(e) \/ TerminateProcess(e)
          PROVE  KS!Act \/ KS!Abort
      BY <2>0, <2>5 DEF SeverNetwork, TerminateProcess, GoOn, Returned, AfterCall, SeverAt,
                        TerminateAt, KS!Act, KS!First, KS!Abort, Phase, LockInv,
                        ProgressInv, canSeverFirst, wiring
    <2>6. ASSUME NEW e \in Events, SeverTap(e) \/ SeverTapDelete(e)
          PROVE  KS!Act \/ KS!Abort \/ UNCHANGED KS!vars
      BY <2>0, <2>6 DEF SeverTap, SeverTapDelete, GoOn, Returned, AfterCall, SeverAt,
                        KS!Act, KS!First, KS!Abort, KS!vars, Phase, LockInv,
                        ProgressInv, canSeverFirst, wiring
    <2>7. ASSUME NEW e \in Events, Finish(e)
          PROVE  KS!Complete
      BY <2>0, <2>7 DEF Finish, KS!Complete, Phase, LockInv, ProgressInv, canSeverFirst,
                        wiring
    <2>8. QED
      <3>1. ASSUME NEW e \in Events, NEW s \in Severities, Report(e, s)
            PROVE  UNCHANGED <<cause, kstep, revokeAt, acted, backend>>
        BY <3>1 DEF Report, killVars, wiring
      <3>2. ASSUME NEW e \in Events, Emit(e) \/ Decide(e) \/ AlreadyKilled(e)
            PROVE  UNCHANGED <<cause, kstep, revokeAt, acted, backend>>
        BY <3>2 DEF Emit, Decide, AlreadyKilled, killVars, wiring
      <3>3. CASE World \/ UNCHANGED vars
        BY <2>1, <3>3 DEF World, vars, killVars, wiring
      <3>4. QED
        BY <1>2, <2>1, <2>2, <2>3, <2>4, <2>5, <2>6, <2>7, <3>1, <3>2, <3>3
           DEF Next, ThreadStep, KillStep, KS!Next
  <1>3. QED
    BY <1>1, <1>2, Inductive, PTL DEF Spec, ImplementsKillSwitch, KS!Spec
=============================================================================
