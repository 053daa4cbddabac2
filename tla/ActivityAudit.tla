--------------------------- MODULE ActivityAudit ----------------------------
(***************************************************************************)
(* The hash-chained activity log (audit/activity_audit.py).  The desktop   *)
(* core and every CLI run are processes of their own that share the file;  *)
(* ActivityAuditLog._lock excludes nobody outside its process, so a call   *)
(* is the file operations it makes, one action each.  Inside a process the *)
(* calls follow each other: all of them are made on its event loop.        *)
(***************************************************************************)
EXTENDS Naturals, Sequences, FiniteSets, SequencesExt

CONSTANTS
  Proc,       \* processes that use the log
  MaxEvents,  \* how many events are recorded
  MaxLoads,   \* how often the log is summarised, exported or cleared
  MaxCrashes  \* how often a process dies inside a call

ASSUME AuditAssumption ==
  /\ MaxEvents \in Nat
  /\ MaxLoads \in Nat
  /\ MaxCrashes \in Nat

VARIABLES
  log,      \* the lines of the log file that parse; empty also without a file
  torn,     \* the file ends in the middle of a line
  pc,       \* where each process is in its call
  call,     \* the call it makes
  mine,     \* the event that its record call writes
  prev,     \* the hash it read for that
  keep,     \* load_entries: what it read and retained
  expired,  \* events older than the retention period
  events, loads, crashes,  \* how many so far
  written,  \* history: events whose record call returned
  cleared,  \* history: events that clear() took from the file
  exposed,  \* history: events at risk, see below
  mixed,    \* history: a call began while another process was in one
  status    \* chain_status of the last summary

vars == <<log, torn, pc, call, mine, prev, keep, expired, events, loads, crashes,
          written, cleared, exposed, mixed, status>>

-----------------------------------------------------------------------------
Event == 1..MaxEvents

\* A hash stands for everything it commits to: the events of the chain so far.
Hash(event, before) == Append(before, event)

Entry == [id : Event, prev : Seq(Event), hash : Seq(Event)]

Ids(s) == {s[i].id : i \in DOMAIN s}

LastHash(s) == IF s = <<>> THEN <<>> ELSE Last(s).hash

VerifyChain(s) ==
  IF s = <<>> THEN "empty"
  ELSE IF \A i \in DOMAIN s : /\ s[i].prev = IF i = 1 THEN <<>> ELSE s[i-1].hash
                              /\ s[i].hash = Hash(s[i].id, s[i].prev)
       THEN "verified" ELSE "broken"

\* _apply_retention, entry by entry.
Retained(s) ==
  LET after[n \in 0..Len(s)] ==
        IF n = 0 THEN <<>>
        ELSE IF s[n].id \in expired THEN after[n - 1] ELSE Append(after[n - 1], s[n])
  IN  after[Len(s)]

\* mutant of Restitch: the entries keep the hashes they were read with
RestitchNothing(s) == s

\* _rewrite_entries gives every entry a new place in the chain.
Restitch(s) ==
  LET ids == [i \in DOMAIN s |-> s[i].id]
  IN  [i \in DOMAIN s |-> [id   |-> s[i].id,
                           prev |-> SubSeq(ids, 1, i - 1),
                           hash |-> SubSeq(ids, 1, i)]]

Rewriting(p) == pc[p] \in {"loaded", "truncated"}

\* A newly appended event is at risk while another process has read the file in
\* order to rewrite it: that one does not know of it.
AppendAtRisk(p, event) == {e \in {event} : \E q \in Proc \ {p} : Rewriting(q)}

\* So are the events of a rewrite that another process finds half done, if it
\* will rewrite the file from there.
ReadAtRisk(p) == UNION {Ids(keep[q]) : q \in {r \in Proc \ {p} : pc[r] = "truncated"}}

TypeOK ==
  /\ log \in Seq(Entry)
  /\ torn \in BOOLEAN
  /\ pc \in [Proc -> {"idle", "hashed", "loaded", "truncated", "returning"}]
  /\ call \in [Proc -> {"none", "record", "summary", "clear"}]
  /\ mine \in [Proc -> 0..MaxEvents]
  /\ prev \in [Proc -> Seq(Event)]
  /\ keep \in [Proc -> Seq(Entry)]
  /\ expired \subseteq Event
  /\ events \in 0..MaxEvents /\ loads \in 0..MaxLoads /\ crashes \in 0..MaxCrashes
  /\ written \subseteq Event /\ cleared \subseteq Event /\ exposed \subseteq Event
  /\ mixed \in BOOLEAN
  /\ status \in {"empty", "verified", "broken"}

Init ==
  /\ log = <<>> /\ torn = FALSE
  /\ pc = [p \in Proc |-> "idle"]
  /\ call = [p \in Proc |-> "none"]
  /\ mine = [p \in Proc |-> 0]
  /\ prev = [p \in Proc |-> <<>>]
  /\ keep = [p \in Proc |-> <<>>]
  /\ expired = {}
  /\ events = 0 /\ loads = 0 /\ crashes = 0
  /\ written = {} /\ cleared = {} /\ exposed = {}
  /\ mixed = FALSE
  /\ status = "empty"

-----------------------------------------------------------------------------
Begin(p) == mixed' = (mixed \/ \E q \in Proc \ {p} : pc[q] # "idle")

\* The call is over, and its locals are gone.
Return(p) ==
  /\ pc' = [pc EXCEPT ![p] = "idle"]
  /\ call' = [call EXCEPT ![p] = "none"]
  /\ mine' = [mine EXCEPT ![p] = 0]
  /\ prev' = [prev EXCEPT ![p] = <<>>]
  /\ keep' = [keep EXCEPT ![p] = <<>>]

\* record_event, record_archive_creation: the last hash is read ...
ReadLastHash(p) ==
  /\ pc[p] = "idle"
  /\ events < MaxEvents
  /\ events' = events + 1
  /\ mine' = [mine EXCEPT ![p] = events + 1]
  /\ prev' = [prev EXCEPT ![p] = LastHash(log)]
  /\ pc' = [pc EXCEPT ![p] = "hashed"]
  /\ call' = [call EXCEPT ![p] = "record"]
  /\ Begin(p)
  /\ UNCHANGED <<log, torn, keep, expired, loads, crashes, written, cleared, exposed, status>>

\* mutant of AppendEntry: the log is not opened for appending
AppendEntryFresh(p) ==
  /\ pc[p] = "hashed"
  /\ log' = <<[id |-> mine[p], prev |-> prev[p], hash |-> Hash(mine[p], prev[p])]>>
  /\ torn' = FALSE
  /\ exposed' = exposed \cup AppendAtRisk(p, mine[p])
  /\ written' = written \cup {mine[p]}
  /\ Return(p)
  /\ UNCHANGED <<expired, events, loads, crashes, cleared, mixed, status>>

\* ... and the entry is appended; behind a torn line it becomes part of it.
AppendEntry(p) ==
  /\ pc[p] = "hashed"
  /\ log' = IF torn THEN log
            ELSE Append(log, [id |-> mine[p], prev |-> prev[p], hash |-> Hash(mine[p], prev[p])])
  /\ torn' = FALSE
  /\ exposed' = exposed \cup (IF torn THEN {mine[p]} ELSE AppendAtRisk(p, mine[p]))
  /\ written' = written \cup {mine[p]}
  /\ Return(p)
  /\ UNCHANGED <<expired, events, loads, crashes, cleared, mixed, status>>

\* load_entries, called by get_summary, build_markdown_export and clear, reads
\* the file and rewrites it only if the retention period took something.
LoadEntries(p, how) ==
  /\ pc[p] = "idle"
  /\ loads < MaxLoads
  /\ loads' = loads + 1
  /\ keep' = [keep EXCEPT ![p] = Retained(log)]
  /\ pc' = [pc EXCEPT ![p] = IF Len(Retained(log)) # Len(log) THEN "loaded" ELSE "returning"]
  /\ call' = [call EXCEPT ![p] = how]
  /\ Begin(p)
  /\ exposed' = IF Len(Retained(log)) # Len(log) THEN exposed \cup ReadAtRisk(p) ELSE exposed
  /\ UNCHANGED <<log, torn, mine, prev, expired, events, crashes, written, cleared, status>>

\* _rewrite_entries: nothing is left, the file is removed; otherwise it is
\* opened for writing, which empties it ...
Truncate(p) ==
  /\ pc[p] = "loaded"
  /\ log' = <<>>
  /\ torn' = FALSE
  /\ pc' = [pc EXCEPT ![p] = IF keep[p] = <<>> THEN "returning" ELSE "truncated"]
  /\ UNCHANGED <<call, mine, prev, keep, expired, events, loads, crashes, written, cleared,
                 exposed, mixed, status>>

\* ... and written from its start, over what others appended meanwhile.
Flush(p) ==
  /\ pc[p] = "truncated"
  /\ log' = Restitch(keep[p]) \o SubSeq(log, Len(keep[p]) + 1, Len(log))
  /\ torn' = (torn /\ Len(log) > Len(keep[p]))
  /\ pc' = [pc EXCEPT ![p] = "returning"]
  /\ UNCHANGED <<call, mine, prev, keep, expired, events, loads, crashes, written, cleared,
                 exposed, mixed, status>>

\* get_summary verifies the entries that load_entries returned.
ReturnSummary(p) ==
  /\ pc[p] = "returning" /\ call[p] = "summary"
  /\ status' = VerifyChain(keep[p])
  /\ Return(p)
  /\ UNCHANGED <<log, torn, expired, events, loads, crashes, written,
                 cleared, exposed, mixed>>

\* clear() removes the file, whatever has been added since it counted.
ReturnClear(p) ==
  /\ pc[p] = "returning" /\ call[p] = "clear"
  /\ cleared' = cleared \cup Ids(log)
  /\ log' = <<>>
  /\ torn' = FALSE
  /\ Return(p)
  /\ UNCHANGED <<expired, events, loads, crashes, written, exposed, mixed, status>>

\* A process dies in a call.  A rewrite leaves what it has flushed so far.
Crash(p) ==
  /\ pc[p] # "idle"
  /\ crashes < MaxCrashes
  /\ crashes' = crashes + 1
  /\ \/ /\ pc[p] = "truncated"
        /\ \E n \in 0..(Len(keep[p]) - 1), cut \in BOOLEAN :
             /\ log' = SubSeq(Restitch(keep[p]), 1, n)
             /\ torn' = cut
        /\ exposed' = exposed \cup Ids(keep[p]) \cup Ids(log)
     \/ /\ pc[p] # "truncated"
        /\ UNCHANGED <<log, torn, exposed>>
  /\ Return(p)
  /\ UNCHANGED <<expired, events, loads, written, cleared, mixed, status>>

\* Time passes: events expire in the order in which they were made.
Expire ==
  \E event \in 1..events :
    /\ event \notin expired
    /\ \A older \in 1..(event - 1) : older \in expired
    /\ expired' = expired \cup {event}
    /\ UNCHANGED <<log, torn, pc, call, mine, prev, keep, events, loads, crashes, written,
                   cleared, exposed, mixed, status>>

Next ==
  \/ \E p \in Proc :
       \/ ReadLastHash(p) \/ AppendEntry(p)
       \/ LoadEntries(p, "summary") \/ LoadEntries(p, "clear")
       \/ Truncate(p) \/ Flush(p) \/ ReturnSummary(p) \/ ReturnClear(p)
       \/ Crash(p)
  \/ Expire

Spec == Init /\ [][Next]_vars

-----------------------------------------------------------------------------
\* Properties.

Quiet == \A p \in Proc : pc[p] = "idle"

\* Events that were recorded, are not too old, were not cleared, and are gone.
Missing == written \ (Ids(log) \cup expired \cup cleared)

\* As long as the calls of different processes do not overlap, the file is a
\* chain from its first line to its last between them, through any mix of expiry
\* rewrites, clears, crashes and torn lines.
FileChains == Quiet /\ ~mixed => VerifyChain(log) # "broken"

\* No process loses an event that record returned, except one that was appended
\* while another process was rewriting the file, the events of a rewrite that
\* another rewriter found half done, and what a crash in a rewrite, or the torn
\* line it left, took along.  A single process that does not crash loses nothing.
LossAccounted == Quiet => Missing \subseteq exposed

\* test_activity_audit_hash_chain_and_generic_events asserts "verified" for a
\* log that only the code has written; CHANGELOG.md speaks of tamper evidence.
SummaryVerified == status # "broken"
=============================================================================
