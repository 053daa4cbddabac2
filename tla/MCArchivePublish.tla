-------------------------- MODULE MCArchivePublish --------------------------
(***************************************************************************)
(* Instance of ArchivePublish: the desktop core and a command line work on *)
(* one stored archive and one free name; either may start after the other  *)
(* died and clean up behind it.                                            *)
(***************************************************************************)
EXTENDS ArchivePublish, TLC

CONSTANTS core, cli, a, b, old, new

Want(kind, src, dst) == [kind |-> kind, src |-> src, dst |-> dst, force |-> FALSE]
Force(kind, src, dst) == [kind |-> kind, src |-> src, dst |-> dst, force |-> TRUE]

TwoRuns == a :> core @@ b :> cli
CoreTwice == [p \in Proc |-> IF p = core THEN 2 ELSE 1]

AllChoices ==
  a :> {Want("createPqc", new, new), Want("rekey", old, old), Want("split", old, old)} @@
  b :> {Want("create", new, new), Want("createPqc", new, new), Want("rekey", old, old),
        Force("rekey", new, old), Want("split", old, old), Want("join", old, new)}
Keyfiles == a :> {Want("createPqc", new, new)} @@ b :> {}
=============================================================================
