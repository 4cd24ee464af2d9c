--------------------------- MODULE ScopeConstants ---------------------------
(***************************************************************************)
(* Who takes part in a TaskScope, and what its proofs assume of them.      *)
(***************************************************************************)
EXTENDS FiniteSets

CONSTANTS
  Jobs,      \* the functions given to Start
  Joiners,   \* the coroutines that await Join
  None       \* no job

ASSUME ScopeAssumption == IsFiniteSet(Jobs) /\ None \notin Jobs
=============================================================================
