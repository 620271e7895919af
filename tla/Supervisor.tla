---------------------------- MODULE Supervisor -----------------------------
(***************************************************************************)
(* halt/supervisor.py and execute_kill (halt/kill.py): any number of fuse   *)
(* threads call Supervisor.report at once, each with an event of its own.   *)
(* A thread emits its event to the sink, and if the event is a KILL takes   *)
(* the lock; the first to do so runs execute_kill with the lock held.       *)
(*                                                                         *)
(* A step is what no other thread can see the middle of: the unlocked       *)
(* properties killed, cause and kill_result, the sinks, the token issuer    *)
(* and the host are looked at between any two steps.                        *)
(***************************************************************************)
EXTENDS Sinks, Backends, Sequences

CONSTANTS CredentialIds,  \* the tokens issued to the run, in the order given
          None

VARIABLES pc,           \* where the thread reporting e is
          severity,     \* of each event, "none" until it is reported
          ts,           \* when each event was created
          lock,         \* the event whose thread holds Supervisor._lock
          killed, cause, kill_result,
          kstep,        \* where the lock holder is in execute_kill
          result,       \* execute_kill's local KillResult
          revokeAt,     \* revocations that have returned
          acted         \* history: "sever" and "terminate" calls that have returned

reportVars == <<pc, severity, ts>>
killVars == <<killed, cause, kill_result, kstep, result, revokeAt, acted>>
vars == <<sink, sinkVars, wiring, world, reportVars, lock, killVars>>

Severities == {"info", "warn", "kill"}
Pcs == {"idle", "emitting", "lock", "kill", "returned", "raised"}
KillSteps ==
  {"idle", "cause", "revoke", "first", "second", "tapdel", "store", "done", "raised"}
KillResults == [credentials_revoked : Seq(Tokens),
                network_severed : BOOLEAN,
                process_terminated : BOOLEAN]
N == Len(CredentialIds)

ASSUME SupervisorAssumption ==
  /\ CredentialIds \in Seq(Tokens)
  /\ None \notin Events \cup KillResults

TypeOK ==
  /\ SinkTypeOK /\ BackendTypeOK
  /\ pc \in [Events -> Pcs]
  /\ severity \in [Events -> Severities \cup {"none"}]
  /\ ts \in [Events -> Nat]
  /\ lock \in Events \cup {None}
  /\ killed \in BOOLEAN
  /\ cause \in Events \cup {None}
  /\ kill_result \in KillResults \cup {None}
  /\ kstep \in KillSteps
  /\ result \in KillResults
  /\ revokeAt \in 0..N
  /\ acted \subseteq {"sever", "terminate"}

Init ==
  /\ SinkInit /\ BackendInit
  /\ pc = [e \in Events |-> "idle"]
  /\ severity = [e \in Events |-> "none"]
  /\ ts = [e \in Events |-> 0]
  /\ lock = None
  /\ killed = FALSE /\ cause = None /\ kill_result = None
  /\ kstep = "idle"
  /\ result = [credentials_revoked |-> <<>>, network_severed |-> FALSE,
               process_terminated |-> FALSE]
  /\ revokeAt = 0 /\ acted = {}

-----------------------------------------------------------------------------
\* A fuse creates an event and calls report(e), which calls sink.emit(e).
Report(e, s) ==
  /\ pc[e] = "idle"
  /\ pc' = [pc EXCEPT ![e] = "emitting"]
  /\ severity' = [severity EXCEPT ![e] = s]
  /\ ts' = [ts EXCEPT ![e] = Cardinality({f \in Events : pc[f] # "idle"}) + 1]
  /\ StartEmit(e)
  /\ UNCHANGED <<sink, wiring, world, lock, killVars>>

Emit(e) ==
  /\ EmitStep(e)
  /\ UNCHANGED <<sink, wiring, world, reportVars, lock, killVars>>

\* emit is over: it raised, or only a KILL goes on to the lock.
AfterEmit(e) ==
  IF emitPc[e] = "raised" THEN "raised"
  ELSE IF severity[e] # "kill" THEN "returned"
  ELSE "lock"

Decide(e) ==
  /\ pc[e] = "emitting" /\ emitPc[e] \in {"emitted", "raised"}
  /\ pc' = [pc EXCEPT ![e] = AfterEmit(e)]
  /\ UNCHANGED <<sink, sinkVars, wiring, world, severity, ts, lock, killVars>>

\* `with self._lock: if self._killed: return`
AlreadyKilled(e) ==
  /\ pc[e] = "lock" /\ lock = None /\ killed
  /\ pc' = [pc EXCEPT ![e] = "returned"]
  /\ UNCHANGED <<sink, sinkVars, wiring, world, severity, ts, lock, killVars>>

\* Mutant of Fire: `if self._killed: return` is missing.
FireAgain(e) ==
  /\ pc[e] = "lock" /\ lock = None
  /\ pc' = [pc EXCEPT ![e] = "kill"]
  /\ lock' = e
  /\ killed' = TRUE
  /\ kstep' = "cause"
  /\ UNCHANGED <<sink, sinkVars, wiring, world, severity, ts, cause, kill_result,
                 result, revokeAt, acted>>

\* Mutant of Fire: the flag is only to be set once the kill has gone through.
FireFlagLater(e) ==
  /\ pc[e] = "lock" /\ lock = None /\ ~killed
  /\ pc' = [pc EXCEPT ![e] = "kill"]
  /\ lock' = e
  /\ kstep' = "cause"
  /\ UNCHANGED <<sink, sinkVars, wiring, world, severity, ts, killed, cause,
                 kill_result, result, revokeAt, acted>>

\* `with self._lock: self._killed = True`
Fire(e) ==
  /\ pc[e] = "lock" /\ lock = None /\ ~killed
  /\ pc' = [pc EXCEPT ![e] = "kill"]
  /\ lock' = e
  /\ killed' = TRUE
  /\ kstep' = "cause"
  /\ UNCHANGED <<sink, sinkVars, wiring, world, severity, ts, cause, kill_result,
                 result, revokeAt, acted>>

\* Mutant of AfterRevokes: the loop stops one credential short.
AfterRevokesButOne(i) == IF i + 1 >= N THEN "first" ELSE "revoke"

\* Where execute_kill is once i credentials are behind it.
AfterRevokes(i) == IF i = N THEN "first" ELSE "revoke"

\* `self._cause = event`, and execute_kill is called.
RecordCause(e) ==
  /\ lock = e /\ kstep = "cause"
  /\ cause' = e
  /\ kstep' = AfterRevokes(0)
  /\ UNCHANGED <<sink, sinkVars, wiring, world, reportVars, lock, killed,
                 kill_result, result, revokeAt, acted>>

\* Mutant of GoOn: acquire() without a finally to release.
GoOnLocked(e, ret, next) ==
  IF ret = "raise"
  THEN /\ kstep' = "raised" /\ UNCHANGED lock
       /\ pc' = [pc EXCEPT ![e] = "raised"]
  ELSE kstep' = next /\ UNCHANGED <<lock, pc>>

\* A backend call came back with ret: execute_kill goes on to step `next`, or
\* the exception leaves execute_kill and report, and `with` frees the lock.
GoOn(e, ret, next) ==
  IF ret = "raise"
  THEN /\ kstep' = "raised" /\ lock' = None
       /\ pc' = [pc EXCEPT ![e] = "raised"]
  ELSE kstep' = next /\ UNCHANGED <<lock, pc>>

\* One turn of execute_kill's loop over credential_ids.
RevokeNext(e) ==
  /\ lock = e /\ kstep = "revoke"
  /\ \E ret \in Returns :
       LET c == CredentialIds[revokeAt + 1] IN
       /\ RevokeCredential(c, ret)
       /\ revokeAt' = IF ret = "raise" THEN revokeAt ELSE revokeAt + 1
       /\ result' = IF ret = "true"
                    THEN [result EXCEPT !.credentials_revoked = Append(@, c)]
                    ELSE result
       /\ GoOn(e, ret, AfterRevokes(revokeAt + 1))
  /\ UNCHANGED <<sink, sinkVars, wiring, severity, ts, killed, cause, kill_result, acted>>

SeverAt == IF canSeverFirst THEN "first" ELSE "second"
TerminateAt == IF canSeverFirst THEN "second" ELSE "first"
AfterCall == IF kstep = "first" THEN "second" ELSE "store"

\* Mutant of Returned: any return, whatever its value, is taken for success.
ReturnedAnything(a, ret) ==
  /\ acted' = IF ret = "raise" THEN acted ELSE acted \cup {a}
  /\ result' = IF ret = "raise" THEN result
               ELSE IF a = "sever" THEN [result EXCEPT !.network_severed = TRUE]
               ELSE [result EXCEPT !.process_terminated = TRUE]

\* What execute_kill keeps of a call to sever_network or terminate.
Returned(a, ret) ==
  /\ acted' = IF ret = "raise" THEN acted ELSE acted \cup {a}
  /\ result' = IF ret = "raise" THEN result
               ELSE IF a = "sever" THEN [result EXCEPT !.network_severed = (ret = "true")]
               ELSE [result EXCEPT !.process_terminated = (ret = "true")]

SeverNetwork(e) ==
  /\ lock = e /\ kstep = SeverAt /\ backend # "firecracker"
  /\ \E ret \in Returns :
       /\ SeverLink(ret) /\ Returned("sever", ret) /\ GoOn(e, ret, AfterCall)
  /\ UNCHANGED <<sink, sinkVars, wiring, severity, ts, killed, cause, kill_result, revokeAt>>

\* FirecrackerBackend.sever_network runs two commands.
SeverTap(e) ==
  /\ lock = e /\ kstep = SeverAt /\ backend = "firecracker"
  /\ \E ret \in Returns :
       /\ DropTap(ret)
       /\ IF ret = "false"
          THEN Returned("sever", ret) /\ GoOn(e, ret, AfterCall)
          ELSE GoOn(e, ret, "tapdel") /\ UNCHANGED <<acted, result>>
  /\ UNCHANGED <<sink, sinkVars, wiring, severity, ts, killed, cause, kill_result, revokeAt>>

SeverTapDelete(e) ==
  /\ lock = e /\ kstep = "tapdel"
  /\ \E ret \in Returns :
       /\ DeleteTap(ret) /\ Returned("sever", ret) /\ GoOn(e, ret, "store")
  /\ UNCHANGED <<sink, sinkVars, wiring, severity, ts, killed, cause, kill_result, revokeAt>>

TerminateProcess(e) ==
  /\ lock = e /\ kstep = TerminateAt
  /\ \E ret \in Returns :
       /\ Terminate(ret) /\ Returned("terminate", ret) /\ GoOn(e, ret, AfterCall)
  /\ UNCHANGED <<sink, sinkVars, wiring, severity, ts, killed, cause, kill_result, revokeAt>>

\* `self._kill_result = ...`, then the lock is released and report returns.
Finish(e) ==
  /\ lock = e /\ kstep = "store"
  /\ kill_result' = result
  /\ kstep' = "done" /\ lock' = None
  /\ pc' = [pc EXCEPT ![e] = "returned"]
  /\ UNCHANGED <<sink, sinkVars, wiring, world, severity, ts, killed, cause,
                 result, revokeAt, acted>>

KillStep(e) ==
  \/ RecordCause(e) \/ RevokeNext(e) \/ SeverNetwork(e) \/ SeverTap(e)
  \/ SeverTapDelete(e) \/ TerminateProcess(e) \/ Finish(e)

\* Everything the thread inside report(e) does.
ThreadStep(e) == Emit(e) \/ Decide(e) \/ AlreadyKilled(e) \/ Fire(e) \/ KillStep(e)

World == WorldStep /\ UNCHANGED <<sink, sinkVars, wiring, reportVars, lock, killVars>>

Next ==
  \/ \E e \in Events, s \in Severities : Report(e, s)
  \/ \E e \in Events : ThreadStep(e)
  \/ World

Spec == Init /\ [][Next]_vars

\* A thread inside report keeps running: every call it makes has a timeout or
\* is a host command taken to return.  The lock is free for good once the kill
\* is over, so weak fairness is enough for the threads that wait for it.
FairSpec == Spec /\ \A e \in Events : WF_vars(ThreadStep(e))

-----------------------------------------------------------------------------
(* What the kill switch promises.                                          *)

Phase == CASE cause = None -> "armed"
           [] cause # None /\ kstep = "done" -> "dead"
           [] cause # None /\ kstep = "raised" -> "aborted"
           [] OTHER -> "firing"

\* The supervisor is a KillSwitch: one kill for one cause, credentials first,
\* then the two calls in the backend's order, dead or aborted for good
\* (supervisor.py:54-73 with kill.py:94-126).
KS == INSTANCE KillSwitch WITH phase <- Phase, revokes <- revokeAt,
                               severFirst <- canSeverFirst
ImplementsKillSwitch == KS!Spec

\* "The first one, under the lock, is the one that fires and is recorded as
\* cause; later concurrent trips do not re-trigger or overwrite it"
\* (supervisor.py:55-60): once killed, always killed; cause and kill_result are
\* written once; after the kill nothing of it ever moves again.
KilledOnce ==
  [][/\ killed => killed'
     /\ cause # None => cause' = cause
     /\ kill_result # None => kill_result' = kill_result
     /\ kstep \in {"done", "raised"} => UNCHANGED killVars]_vars

\* "Kill order is credentials first, always" (README:53, kill.py:97-101): while
\* a revocation is still to be tried, no one has been signalled, no link has
\* been brought down and neither call has returned.
CredentialsFirst ==
  acted # {} \/ link = "down" \/ proc = "dying" => revokeAt = N

\* "So a process that survives an initial failed terminate() is still cut off"
\* (kill.py:103-112): with a backend that can sever first, the process is
\* signalled only once its link is gone or severing it was seen to fail; with
\* Firecracker the tap is touched only once terminate() has returned, the VM by
\* then signalled unless terminate() did not find it (a VM that is registered only
\* afterwards loses its tap and runs on), and it goes away only when the VM is gone.
SeverOrder ==
  IF backend # "firecracker"
  THEN proc = "dying" => /\ "sever" \in acted
                         /\ result.network_severed => link = "gone"
  ELSE /\ "sever" \in acted \/ link = "down" =>
            /\ "terminate" \in acted
            /\ result.process_terminated => proc # "running"
       /\ link = "gone" => proc = "gone"

\* A KillResult claims nothing that is not so (kill.py:26-31, 114-126): a
\* severed link is gone, a terminated process runs no more, and each credential
\* listed is one the issuer no longer honours.
ResultTruthful ==
  /\ result.network_severed => link = "gone"
  /\ result.process_terminated => proc # "running"
  /\ \A i \in 1..Len(result.credentials_revoked) :
       result.credentials_revoked[i] \in revoked

\* The properties killed, cause and kill_result are read without the lock
\* (supervisor.py:42-52).  A reader that sees one of them sees the ones before:
\* a result comes with its cause, the kill it reports is complete, and it is
\* the result execute_kill returned.
PublicationOrder ==
  /\ cause # None => killed
  /\ kill_result # None => /\ cause # None /\ kill_result = result
                           /\ revokeAt = N /\ acted = {"sever", "terminate"}

\* "Every observation is logged, trip or not, before the kill decision is made"
\* (README:65-67): an event that waits for the lock, fires the kill or is done
\* with has its line in the local file, or the failed write was recorded.
ForensicRecord ==
  \A e \in Events :
    pc[e] \in {"lock", "kill", "returned"} => e \in logged \cup teeFailures

\* The lock is held by the one thread that is in execute_kill, and by no one
\* before, after or when a call raised: nobody is locked out by a failed kill
\* (supervisor.py:66-73).
LockInv ==
  /\ \A e \in Events : pc[e] = "kill" <=> lock = e
  /\ lock = None <=> kstep \in {"idle", "done", "raised"}
  /\ killed <=> kstep # "idle"
  /\ cause = None <=> kstep \in {"idle", "cause"}
  /\ lock # None /\ cause # None => cause = lock
  /\ kill_result = None <=> kstep # "done"

-----------------------------------------------------------------------------
(* The inductive invariant: the above follow from it, see SupervisorProofs. *)

\* Where a report is in emit, and what that says of its event.
EmitInv ==
  \A e \in Events :
    /\ pc[e] = "idle" <=> emitPc[e] = "idle"
    /\ pc[e] \in {"lock", "kill", "returned"} => emitPc[e] = "emitted"
    /\ pc[e] = "raised" => emitPc[e] \in {"emitted", "raised"}
    /\ emitPc[e] \in {"broadcast", "counting", "emitted"} => e \in logged \cup teeFailures
    /\ e \in received \cup undelivered => emitPc[e] \in {"counting", "emitted"}

\* How far execute_kill is at each of its steps.
ProgressInv ==
  /\ kstep \in {"idle", "cause", "revoke", "first"} => acted = {}
  /\ kstep = "revoke" => revokeAt < N
  /\ kstep \in {"idle", "cause"} => revokeAt = 0
  /\ kstep \in {"first", "second", "tapdel", "store", "done"} => revokeAt = N
  /\ kstep = "second" => acted = {IF canSeverFirst THEN "sever" ELSE "terminate"}
  /\ kstep = "tapdel" => acted = {"terminate"} /\ ~canSeverFirst
  /\ kstep \in {"store", "done"} => acted = {"sever", "terminate"}
  /\ kill_result # None => kill_result = result

IInv == /\ TypeOK /\ LockInv /\ EmitInv /\ ProgressInv
        /\ CredentialsFirst /\ SeverOrder /\ ResultTruthful

\* What a report that came back tells its caller: if it was a KILL and returned,
\* the kill is over, whichever thread ran it; if it raised, its record could not
\* be made or it ran the kill and a call raised (supervisor.py:61-73).
ReturnsTell ==
  \A e \in Events :
    /\ pc[e] = "returned" /\ severity[e] = "kill" => kstep \in {"done", "raised"}
    /\ pc[e] = "raised" =>
         e \notin logged \cup teeFailures \/ (cause = e /\ kstep = "raised")

\* What is behind it, inductive with IInv.
OutcomeInv ==
  \A e \in Events :
    /\ emitPc[e] \in {"idle", "local", "raised"} => e \notin logged \cup teeFailures
    /\ pc[e] \in {"lock", "kill"} => severity[e] = "kill"
    /\ pc[e] = "returned" /\ severity[e] = "kill" => kstep \in {"done", "raised"}
    /\ pc[e] = "raised" => emitPc[e] = "raised" \/ (cause = e /\ kstep = "raised")

-----------------------------------------------------------------------------
(* How far a report is from its end.                                       *)

\* The most steps execute_kill has left.
KillLeft ==
  CASE kstep = "cause" -> N + 5
    [] kstep = "revoke" -> N - revokeAt + 4
    [] kstep = "first" -> 4
    [] kstep = "second" -> 3
    [] kstep = "tapdel" -> 2
    [] kstep = "store" -> 1
    [] OTHER -> 0

\* The most steps the thread in report(e) has left, its turn at the lock given.
ReportLeft(e) ==
  CASE pc[e] = "idle" -> N + 11
    [] pc[e] = "emitting" ->
         N + (CASE emitPc[e] = "local" -> 10 [] emitPc[e] = "broadcast" -> 9
                [] emitPc[e] = "counting" -> 8 [] OTHER -> 7)
    [] pc[e] = "lock" -> N + 6
    [] pc[e] = "kill" -> KillLeft
    [] OTHER -> 0

\* Every step a thread takes brings its report nearer to its end, and no other
\* thread ever sets it back: the kill has no loop but the one over the
\* credentials, and a report waits at most once (supervisor.py:54-73, kill.py:94-126).
ReportsAdvance ==
  [][\A e \in Events : /\ ThreadStep(e) => ReportLeft(e)' < ReportLeft(e)
                       /\ ReportLeft(e)' <= ReportLeft(e)]_vars

-----------------------------------------------------------------------------
(* Liveness.                                                               *)

\* No backend call raises: the host's commands can be run, and credentials are
\* revoked in process or over HTTP at a URL that a request can be made for.  With
\* the tee the README recommends, no sink's exception gets out either.
GoodHost == hostOk /\ (backend = "local" \/ revoker = "http")
SafeWiring == sink = "tee" /\ GoodHost

\* "Nothing on the kill path may raise" (README:60-64, kill.py:94-126,
\* credentials.py:58-76, sinks.py:59-74): a kill is left half done only where a host
\* command cannot be run, no revoker was given, or its request cannot be made; with
\* the tee as well no report raises, whichever sink fails, and a KILL report that
\* has come back was answered by a finished kill.
NothingRaises ==
  /\ GoodHost => kstep # "raised"
  /\ SafeWiring => \A e \in Events :
       /\ pc[e] # "raised"
       /\ pc[e] = "returned" /\ severity[e] = "kill" =>
            kstep = "done" /\ kill_result # None

\* What is behind it, inductive with IInv.
RaiseInv ==
  /\ kstep = "raised" => ~GoodHost
  /\ sink = "tee" => \A e \in Events : emitPc[e] # "raised"

\* A dead IAM endpoint, a dead registry, an event that cannot be written or a full
\* disk does not stand between a KILL report and a finished kill (README:60-64,
\* credentials.py:64-76, sinks.py:69-74).
KillCompletes ==
  \A e \in Events :
    (SafeWiring /\ severity[e] = "kill") ~> (kstep = "done" /\ kill_result # None)

\* Every call of report comes back, also when the kill raised on another
\* thread while this one waited for the lock (supervisor.py:61-73).
EveryReportReturns ==
  \A e \in Events : pc[e] # "idle" ~> pc[e] \in {"returned", "raised"}

-----------------------------------------------------------------------------
(* What the repository says that the code does not do.                     *)

\* supervisor.py:8-13: "first kill wins" deterministically by event_id/ts, not
\* by which thread happened to acquire a lock first.
FirstKillWins ==
  cause # None =>
    \A e \in Events : severity[e] = "kill" => ts[cause] <= ts[e]

\* kill.py:36-41 and firecracker.py:28-35: terminate first, and the tap is no
\* longer busy when it is deleted.
TapFreeWhenDeleted ==
  kstep = "tapdel" /\ result.process_terminated => proc = "gone"
=============================================================================
