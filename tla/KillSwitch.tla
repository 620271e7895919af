---------------------------- MODULE KillSwitch -----------------------------
(***************************************************************************)
(* What the supervisor promises of a kill, whoever reports and whatever     *)
(* the backend answers: it fires at most once, for one cause; every         *)
(* credential is gone through before anything else is touched; the two      *)
(* remaining calls come in the order the backend needs; and it ends dead,   *)
(* or aborted where a call raised, for good.  Supervisor implements it.     *)
(***************************************************************************)
EXTENDS Naturals

CONSTANTS Events, None,
          N               \* number of credentials issued to the run

VARIABLES phase,       \* "armed", "firing", "dead" or "aborted"
          cause,       \* the event the kill fired for
          revokes,     \* revocations gone through
          acted,       \* which of "sever" and "terminate" have returned
          severFirst   \* the order the backend needs

vars == <<phase, cause, revokes, acted, severFirst>>

First == IF severFirst THEN "sever" ELSE "terminate"

Init ==
  /\ phase = "armed" /\ cause = None
  /\ revokes = 0 /\ acted = {}
  /\ severFirst \in BOOLEAN

Fire ==
  /\ phase = "armed"
  /\ phase' = "firing"
  /\ cause' \in Events
  /\ UNCHANGED <<revokes, acted, severFirst>>

Revoke ==
  /\ phase = "firing" /\ revokes < N
  /\ revokes' = revokes + 1
  /\ UNCHANGED <<phase, cause, acted, severFirst>>

Act ==
  /\ phase = "firing" /\ revokes = N
  /\ \E a \in {"sever", "terminate"} \ acted :
       /\ acted = {} => a = First
       /\ acted' = acted \cup {a}
  /\ UNCHANGED <<phase, cause, revokes, severFirst>>

Complete ==
  /\ phase = "firing" /\ revokes = N /\ acted = {"sever", "terminate"}
  /\ phase' = "dead"
  /\ UNCHANGED <<cause, revokes, acted, severFirst>>

\* A backend call raised: nothing further is attempted.
Abort ==
  /\ phase = "firing"
  /\ phase' = "aborted"
  /\ UNCHANGED <<cause, revokes, acted, severFirst>>

Next == Fire \/ Revoke \/ Act \/ Complete \/ Abort

Spec == Init /\ [][Next]_vars
=============================================================================
