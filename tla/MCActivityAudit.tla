-------------------------- MODULE MCActivityAudit ---------------------------
(***************************************************************************)
(* Instances of ActivityAudit: the desktop core alone, or with a CLI run.  *)
(***************************************************************************)
EXTENDS ActivityAudit, TLC

CONSTANTS core, cli

\* The processes make the same calls.
Symmetry == Permutations(Proc)
=============================================================================
