--------------------------- MODULE MCSupervisor ----------------------------
(***************************************************************************)
(* Instances of Supervisor for TLC.                                         *)
(***************************************************************************)
EXTENDS Supervisor, TLC

CONSTANTS c1, c2

MCTokens == {c1, c2}
MCCredentialIds == <<c1, c2>>
MCOneCredential == <<c1>>

\* Events are interchangeable.
Symmetry == Permutations(Events)
=============================================================================
