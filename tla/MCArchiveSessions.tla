------------------------- MODULE MCArchiveSessions --------------------------
(***************************************************************************)
(* Instance of ArchiveSessions: two openSession requests, an extractAll    *)
(* (two workers) and an extractSelection (one).                            *)
(***************************************************************************)
EXTENDS ArchiveSessions, TLC

CONSTANTS open1, open2, all, some, s1, s2

TwoReads == all :> 2 @@ some :> 1
TwoOpens == open1 :> s1 @@ open2 :> s2
=============================================================================
