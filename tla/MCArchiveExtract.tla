-------------------------- MODULE MCArchiveExtract --------------------------
(***************************************************************************)
(* Instance of ArchiveExtract: the desktop core and a command line extract *)
(* into one folder and clean up behind each other.                         *)
(***************************************************************************)
EXTENDS ArchiveExtract, TLC

CONSTANTS core, cli, e1, e2, f, g, d, n

Job(kind, entries) == [kind |-> kind, entries |-> entries, intact |-> TRUE]
Damaged(kind, entries) == [kind |-> kind, entries |-> entries, intact |-> FALSE]

TwoRuns == e1 :> core @@ e2 :> cli
Once == [p \in Proc |-> 1]
Flat == d :> {} @@ n :> {}
Nested == d :> {} @@ n :> {d}

AllChoices ==
  e1 :> {Job("indexed", <<f, d>>), Job("legacy", <<f>>), Damaged("legacy", <<f>>)} @@
  e2 :> {Job("indexed", <<f, g>>), Job("provider", <<f>>), Job("single", <<f>>), Damaged("streamed", <<f>>)}
OneTree == e1 :> {Job("indexed", <<f, d, n>>)} @@ e2 :> {}

GTaken == {<<Out, g>>}
=============================================================================
