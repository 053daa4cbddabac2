--------------------------- MODULE ArchiveExtract ---------------------------
(***************************************************************************)
(* How the contents of an archive reach the user's folder: the payload is  *)
(* decrypted into a private directory (or a temporary file) and verified   *)
(* as a whole, and only then are its entries moved, one after the other,   *)
(* under their final names.  Other processes extract into the same folder  *)
(* and clean up what dead processes left - by their registries and, in the *)
(* system's temporary directory, by name and age.                          *)
(*                                                                         *)
(* A slot is a name in a place: the user's folder, or the preview directory*)
(* of an extraction.  How a registry is written is ArchivePublish's        *)
(* subject: here a record is simply there, or lost.                        *)
(***************************************************************************)
EXTENDS Naturals, FiniteSets, Sequences

CONSTANTS
  Proc,        \* processes; each starts once
  Ext,         \* extractions
  Runs,        \* the process of each extraction
  Choices,     \* what each extraction may be asked to do
  Passes,      \* clean-ups of each process
  Entry,       \* files and empty directories of archives
  Dir,         \* of these, the directories
  Within,      \* the empty directories that contain one, outer ones too
  Prior,       \* slots of the user's folder that are taken from the start
  Out,         \* the user's folder
  MaxCrashes,  \* bound on crashes
  MaxStuck,    \* bound on things that cannot be unlinked
  MaxLost,     \* bound on records that are lost
  None

\* An indexed payload; a streamed one (AVP, several files); an AVP2 payload of
\* several files, unpacked from a container; a payload of one file that is not
\* indexed; and an indexed one of a drand capsule, which the command line
\* extracts into a preview and copies from there.
Kinds == {"indexed", "streamed", "legacy", "single", "provider"}
Jobs == [kind : Kinds, entries : Seq(Entry), intact : BOOLEAN]

Slot == (Ext \cup {Out}) \X Entry
Artifact == Ext \X {"root", "container", "part", "unpack"}

ASSUME ExtractAssumption ==
  /\ Runs \in [Ext -> Proc] /\ Passes \in [Proc -> {1, 2}]
  /\ \A e \in Ext : Choices[e] \subseteq Jobs
  /\ \A e \in Ext : \A j \in Choices[e] :
       j.kind = "single" => Len(j.entries) = 1 /\ j.entries[1] \notin Dir
  /\ Dir \subseteq Entry /\ Within \in [Dir -> SUBSET Dir]
  /\ \A x \in Dir : x \notin Within[x] /\ \A y \in Within[x] : Within[y] \subseteq Within[x]
  /\ Out \notin Ext /\ None \notin Ext \cup {"user"} \cup Artifact \cup Jobs /\ "user" \notin Ext
  /\ Prior \subseteq {Out} \X Entry
  /\ \A s \in Prior : s[2] \in Dir => {Out} \X Within[s[2]] \subseteq Prior
  /\ MaxCrashes \in Nat /\ MaxStuck \in Nat /\ MaxLost \in Nat

VARIABLES
  job, pc,
  index,     \* position in the list of entries
  staged,    \* entries in the private directory
  committed, \* entries of the current round under their new name
  mine,      \* temporary artifacts the extraction answers for
  fresh,     \* the one it created and has not recorded yet
  gone,      \* the one it removed and has not unregistered yet
  owner,     \* whose entry a slot holds: an extraction's, the user's, none
  partial,   \* slots whose copy is not complete
  temps,     \* temporary artifacts that exist
  recorded,  \* those with a record in the registry of their process
  old,       \* those not modified for an hour
  up,        \* whether each process runs
  jpc, jTodo, jSafe, jOld, passes,  \* the clean-up of each process
  crashes,
  lost,      \* history: artifacts whose record was lost
  stuck,     \* history: artifacts and slots that could not be unlinked
  raced      \* history: slots filled while another extraction had found them free

extVars  == <<job, pc, index, committed>>
ownVars  == <<mine, fresh, gone>>
places   == <<owner, partial>>
janVars  == <<jpc, jTodo, jSafe, jOld, passes>>
histVars == <<lost, stuck, raced>>
vars == <<extVars, staged, ownVars, places, temps, recorded, old, janVars, up, crashes, histVars>>

Ended == {"idle", "refused", "failed", "done"}
States == Ended \cup {"opened", "extracting", "needContainer", "containerReady", "decoding", "decoded",
                      "unpacked", "verified", "checking", "moving", "copying", "undoing",
                      "failing", "closing", "dropping"}

TypeOK ==
  /\ \A e \in Ext : job[e] \in Choices[e] \cup {None}
  /\ pc \in [Ext -> States] /\ index \in [Ext -> Nat]
  /\ \A e \in Ext : committed[e] \subseteq Entry /\ staged[e] \subseteq Entry
  /\ \A e \in Ext : /\ mine[e] \subseteq {e} \X {"root", "container", "part", "unpack"}
                    /\ fresh[e] \in mine[e] \cup {None} /\ gone[e] \in mine[e] \cup {None}
  /\ owner \in [Slot -> Ext \cup {"user", None}] /\ partial \subseteq Slot
  /\ \A s \in partial : owner[s] # None
  /\ temps \subseteq Artifact /\ recorded \subseteq Artifact /\ old \subseteq temps
  /\ up \in [Proc -> {"new", "up", "dead"}]
  /\ jpc \in [Proc -> {"off", "registry", "sweep"}] /\ passes \in [Proc -> 0..2]
  /\ \A p \in Proc : jTodo[p] \cup jSafe[p] \cup jOld[p] \subseteq Artifact
  /\ crashes \in 0..MaxCrashes
  /\ lost \subseteq Artifact /\ stuck \subseteq Artifact \cup Slot /\ raced \subseteq Slot

Init ==
  /\ job = [e \in Ext |-> None] /\ pc = [e \in Ext |-> "idle"] /\ index = [e \in Ext |-> 1]
  /\ staged = [e \in Ext |-> {}] /\ committed = [e \in Ext |-> {}]
  /\ mine = [e \in Ext |-> {}] /\ fresh = [e \in Ext |-> None] /\ gone = [e \in Ext |-> None]
  /\ owner = [s \in Slot |-> IF s \in Prior THEN "user" ELSE None] /\ partial = {}
  /\ temps = {} /\ recorded = {} /\ old = {}
  /\ up = [p \in Proc |-> "new"]
  /\ jpc = [p \in Proc |-> "off"] /\ jTodo = [p \in Proc |-> {}] /\ jSafe = [p \in Proc |-> {}]
  /\ jOld = [p \in Proc |-> {}] /\ passes = [p \in Proc |-> 0]
  /\ crashes = 0 /\ lost = {} /\ stuck = {} /\ raced = {}

-----------------------------------------------------------------------------
Running(e, s) == up[Runs[e]] = "up" /\ pc[e] = s
At(e, s) == Running(e, s) /\ fresh[e] = None /\ gone[e] = None
Go(e, s) == pc' = [pc EXCEPT ![e] = s]

Is(e, kinds) == job[e] # None /\ job[e].kind \in kinds
Root(e) == <<e, IF Is(e, {"legacy"}) THEN "unpack" ELSE "root">>
Container(e) == <<e, "container">>
Part(e) == <<e, "part">>

Entries(e) == {job[e].entries[i] : i \in DOMAIN job[e].entries}
Listed(e) == index[e] \in DOMAIN job[e].entries
Current(e) == job[e].entries[index[e]]

\* The second round of a provider extraction copies from its preview.
Delivering(e) == Is(e, {"provider"}) /\ Root(e) \notin mine[e]
Place(e) == IF Is(e, {"provider"}) /\ ~Delivering(e) THEN e ELSE Out
Target(e) == <<Place(e), Current(e)>>
Under(x) == {x} \cup {y \in Dir : x \in Within[y]}

\* mutant of Create: the code that cleans up does not know of it
CreateUnnoted(e, a) ==
  /\ temps' = temps \cup {a}
  /\ fresh' = [fresh EXCEPT ![e] = a]
  /\ UNCHANGED mine

\* Create a temporary artifact; it is recorded in a step of its own.
Create(e, a) ==
  /\ temps' = temps \cup {a}
  /\ mine' = [mine EXCEPT ![e] = @ \cup {a}]
  /\ fresh' = [fresh EXCEPT ![e] = a]

\* secure_remove_file, secure_remove_tree: the contents go, the name may stay.
Emptied(a) == IF a = Root(a[1]) THEN [staged EXCEPT ![a[1]] = {}] ELSE staged
CanStick(a) == a \in stuck \/ Cardinality(stuck) < MaxStuck
SecureRemove(a) ==
  /\ staged' = Emptied(a)
  /\ \/ temps' = temps \ {a} /\ old' = old \ {a} /\ UNCHANGED stuck
     \/ a \in temps /\ CanStick(a) /\ stuck' = stuck \cup {a} /\ UNCHANGED <<temps, old>>

\* It is modified, or made again.
Touch(a) == old' = old \ {a} /\ jOld' = [p \in Proc |-> jOld[p] \ {a}]

\* An extraction removes an artifact and is about to unregister it.
Drop(e, a) == SecureRemove(a) /\ gone' = [gone EXCEPT ![e] = a]

\* mutant of Record: directories are not recorded
RecordFiles(e) ==
  /\ up[Runs[e]] = "up" /\ fresh[e] # None
  /\ recorded' = recorded \cup ({fresh[e]} \ {<<e, "root">>, <<e, "unpack">>})
  /\ fresh' = [fresh EXCEPT ![e] = None]
  /\ UNCHANGED <<extVars, staged, mine, gone, places, temps, old, janVars, up, crashes, histVars>>

Record(e) ==
  /\ up[Runs[e]] = "up" /\ fresh[e] # None
  /\ recorded' = recorded \cup {fresh[e]}
  /\ fresh' = [fresh EXCEPT ![e] = None]
  /\ UNCHANGED <<extVars, staged, mine, gone, places, temps, old, janVars, up, crashes, histVars>>

Unrecord(e) ==
  /\ up[Runs[e]] = "up" /\ gone[e] # None
  /\ recorded' = recorded \ {gone[e]}
  /\ mine' = [mine EXCEPT ![e] = @ \ {gone[e]}]
  /\ gone' = [gone EXCEPT ![e] = None]
  /\ UNCHANGED <<extVars, staged, fresh, places, temps, old, janVars, up, crashes, histVars>>

-----------------------------------------------------------------------------
\* Header, keychain, time lock, keys, post-quantum material, signature: nothing
\* is on disk when one of them refuses.
Begin(e, j) ==
  LET p == Runs[e] IN
  /\ At(e, "idle") /\ passes[p] > 0
  /\ \A z \in Ext : Runs[z] = p => pc[z] \in Ended /\ gone[z] = None
  /\ job' = [job EXCEPT ![e] = j]
  /\ Go(e, "opened") \/ Go(e, "refused")
  /\ UNCHANGED <<index, committed, staged, ownVars, places, temps, recorded, old, janVars, up, crashes, histVars>>

\* avikal_extract_<uuid> in the temporary directory; an AVP2 payload gets a
\* second one for its container.
MakeRoot(e) ==
  /\ \/ At(e, "opened") /\ ~Is(e, {"single"}) /\ Create(e, <<e, "root">>)
     \/ At(e, "decoded") /\ Create(e, <<e, "unpack">>)
  /\ Go(e, "extracting")
  /\ UNCHANGED <<job, index, committed, staged, gone, places, recorded, old, janVars, up, crashes, histVars>>

\* LegacyPayloadStreamingRequired: the first directory is given up.
NeedContainer(e) ==
  /\ At(e, "extracting") /\ Is(e, {"legacy"}) /\ Container(e) \notin mine[e]
  /\ Drop(e, <<e, "root">>)
  /\ Go(e, "needContainer")
  /\ UNCHANGED <<job, index, committed, mine, fresh, places, recorded, janVars, up, crashes, lost, raced>>

MakeContainer(e) ==
  /\ At(e, "needContainer")
  /\ Create(e, Container(e))
  /\ Go(e, "containerReady")
  /\ UNCHANGED <<job, index, committed, staged, gone, places, recorded, old, janVars, up, crashes, histVars>>

\* stream_payload_to_file decodes into a file beside its output ...
MakePart(e) ==
  /\ \/ At(e, "containerReady")
     \/ At(e, "opened") /\ Is(e, {"single"})
  /\ Create(e, Part(e))
  /\ Go(e, "decoding")
  /\ UNCHANGED <<job, index, committed, staged, gone, places, recorded, old, janVars, up, crashes, histVars>>

\* mutant of Intact: the commitments are not compared
IntactUnchecked(e) == TRUE

\* Size, checksum and signed commitment of the whole payload.
Intact(e) == job[e].intact

\* The extractions that found a slot free and have not filled it.
Aiming(e, s) == pc[e] \in {"moving", "copying"} /\ Target(e) = s
Races(e, slots) == {s \in slots : \E z \in Ext \ {e} : Aiming(z, s)}

\* ... and renames it when the whole payload is verified: onto the container,
\* or onto the output of a single file, which it does not look for first.
Decode(e) ==
  /\ At(e, "decoding")
  /\ IF Intact(e)
     THEN /\ gone' = [gone EXCEPT ![e] = Part(e)]
          /\ IF Is(e, {"single"})
             THEN /\ temps' = temps \ {Part(e)}
                  /\ owner' = [owner EXCEPT ![Target(e)] = e]
                  /\ partial' = partial \ {Target(e)}
                  /\ raced' = raced \cup Races(e, {Target(e)})
                  /\ Go(e, "done")
                  /\ UNCHANGED <<old, jOld>>
             ELSE /\ temps' = (temps \ {Part(e)}) \cup {Container(e)}
                  /\ Touch(Container(e))
                  /\ Go(e, "decoded")
                  /\ UNCHANGED <<places, raced>>
     ELSE Go(e, "failing") /\ UNCHANGED <<temps, old, jOld, gone, places, raced>>
  /\ UNCHANGED <<job, index, committed, staged, mine, fresh, recorded, jpc, jTodo, jSafe, passes, up, crashes,
                 lost, stuck>>

\* One entry is written into the private directory, which is made again if it
\* is not there; a file in a folder of its own does not touch it.
ExtractEntry(e) ==
  /\ At(e, "extracting") /\ Listed(e)
  /\ Is(e, {"legacy"}) => Container(e) \in mine[e]
  /\ staged' = [staged EXCEPT ![e] = @ \cup {Current(e)}]
  /\ index' = [index EXCEPT ![e] = @ + 1]
  /\ temps' = temps \cup {Root(e)}
  /\ \/ Touch(Root(e))
     \/ Root(e) \in temps /\ UNCHANGED <<old, jOld>>
  /\ UNCHANGED <<job, pc, committed, ownVars, places, recorded, jpc, jTodo, jSafe, passes, up, crashes, histVars>>

\* The whole payload is compared with what the archive's signature commits to;
\* a container was verified before it was unpacked.
Verify(e) ==
  /\ At(e, "extracting") /\ ~Listed(e)
  /\ Is(e, {"legacy"}) => Container(e) \in mine[e]
  /\ Go(e, IF Is(e, {"legacy"}) THEN "unpacked" ELSE IF Intact(e) THEN "verified" ELSE "failing")
  /\ UNCHANGED <<job, index, committed, staged, ownVars, places, temps, recorded, old, janVars, up, crashes, histVars>>

DropContainer(e) ==
  /\ At(e, "unpacked")
  /\ IF Container(e) \in temps
     THEN Drop(e, Container(e)) /\ UNCHANGED mine
     ELSE mine' = [mine EXCEPT ![e] = @ \ {Container(e)}] /\ UNCHANGED <<staged, temps, old, stuck, gone>>
  /\ Go(e, "verified")
  /\ UNCHANGED <<job, index, committed, fresh, places, recorded, janVars, up, crashes, lost, raced>>

-----------------------------------------------------------------------------
\* The output folder is created, or cannot be: then the private directory, or
\* the preview to deliver, stays.
MakeOutput(e) ==
  /\ At(e, "verified")
  /\ \/ Go(e, "checking") /\ index' = [index EXCEPT ![e] = 1]
     \/ Go(e, IF Place(e) = Out THEN "failed" ELSE "dropping") /\ UNCHANGED index
  /\ UNCHANGED <<job, committed, staged, ownVars, places, temps, recorded, old, janVars, up, crashes, histVars>>

\* mutant of Refused: the name is not looked at
RefusedNever(e) == FALSE

\* An entry is refused if its name is taken; the command line copies files only.
Refused(e) ==
  \/ owner[Target(e)] # None
  \/ Delivering(e) /\ Current(e) \in Dir

Check(e) ==
  /\ At(e, "checking") /\ Listed(e)
  /\ Go(e, IF Refused(e) THEN "undoing" ELSE "moving")
  /\ UNCHANGED <<job, index, committed, staged, ownVars, places, temps, recorded, old, janVars, up, crashes, histVars>>

\* What there is to move: of a swept directory, nothing.
Available(e) == IF Delivering(e) THEN {x \in Entry : owner[<<e, x>>] = e} ELSE staged[e]
NextEntry(e) ==
  /\ committed' = [committed EXCEPT ![e] = @ \cup {Current(e)}]
  /\ index' = [index EXCEPT ![e] = @ + 1]
  /\ Go(e, "checking")

\* shutil.move: a rename, which replaces a file and takes a directory along
\* with everything in it - into the directory of that name, if there is one.
Move(e) ==
  LET x == Current(e)
      slots == {<<Place(e), y>> : y \in Under(x) \cap staged[e]}
  IN
  /\ At(e, "moving") /\ ~Delivering(e) /\ x \in Available(e)
  /\ owner' = IF x \in Dir /\ owner[Target(e)] # None THEN owner
              ELSE [s \in Slot |-> IF s \in slots THEN e ELSE owner[s]]
  /\ partial' = partial \ slots
  /\ raced' = raced \cup Races(e, slots) \cup {s \in slots : owner[s] # None}
  /\ staged' = [staged EXCEPT ![e] = @ \ Under(x)]
  /\ NextEntry(e)
  /\ UNCHANGED <<job, ownVars, temps, recorded, old, janVars, up, crashes, lost, stuck>>

\* A copy, across file systems or from a preview: the name is there before the
\* contents are.
StartCopy(e) ==
  LET s == Target(e) IN
  /\ At(e, "moving") /\ Current(e) \in Available(e) \ Dir
  /\ owner' = [owner EXCEPT ![s] = e]
  /\ partial' = partial \cup {s}
  /\ raced' = raced \cup Races(e, {s}) \cup (IF owner[s] # None THEN {s} ELSE {})
  /\ Go(e, "copying")
  /\ UNCHANGED <<job, index, committed, staged, ownVars, temps, recorded, old, janVars, up, crashes, lost, stuck>>

\* Whoever shares the name by then shares the file.
EndCopy(e) ==
  /\ At(e, "copying")
  /\ partial' = IF owner[Target(e)] = e THEN partial \ {Target(e)} ELSE partial
  /\ staged' = IF Delivering(e) THEN staged ELSE [staged EXCEPT ![e] = @ \ {Current(e)}]
  /\ NextEntry(e)
  /\ UNCHANGED <<job, ownVars, owner, temps, recorded, old, janVars, up, crashes, histVars>>

\* Any other exception, a cancellation among them.
Fail(e) ==
  /\ \/ /\ \E s \in {"opened", "needContainer", "containerReady", "decoding", "extracting", "decoded"} : At(e, s)
        /\ Go(e, "failing")
     \/ /\ \E s \in {"moving", "copying"} : At(e, s)
        /\ Go(e, "undoing")
     \/ /\ At(e, "verified") /\ Delivering(e)
        /\ Go(e, "dropping")
  /\ UNCHANGED <<job, index, committed, staged, ownVars, places, temps, recorded, old, janVars, up, crashes, histVars>>

-----------------------------------------------------------------------------
\* mutant of Undo: the last one is left out
UndoButLast(e) ==
  /\ At(e, "undoing") /\ committed[e] # {}
  /\ \E x \in committed[e] :
       LET s == <<Place(e), x>>  last == committed[e] = {x} IN
       /\ committed' = [committed EXCEPT ![e] = @ \ {x}]
       /\ owner' = IF last THEN owner ELSE [owner EXCEPT ![s] = None]
       /\ partial' = IF last THEN partial ELSE partial \ {s}
  /\ UNCHANGED <<job, pc, index, staged, ownVars, temps, recorded, old, janVars, up, crashes, histVars>>

\* The entries moved so far are removed, by name.
Undo(e) ==
  \E x \in committed[e] :
    LET slots == {<<Place(e), y>> : y \in Under(x)}  s == <<Place(e), x>> IN
    /\ At(e, "undoing")
    /\ committed' = [committed EXCEPT ![e] = @ \ {x}]
    /\ \/ /\ owner' = [z \in Slot |-> IF z \in slots THEN None ELSE owner[z]]
          /\ partial' = partial \ slots
          /\ UNCHANGED stuck
       \/ /\ owner[s] # None /\ CanStick(s)
          /\ stuck' = stuck \cup {s}
          /\ UNCHANGED places
    /\ UNCHANGED <<job, pc, index, staged, ownVars, temps, recorded, old, janVars, up, crashes, lost, raced>>

\* The end of a round: the private directory goes, whatever happened.
EndMove(e) ==
  LET over == At(e, "checking") /\ ~Listed(e)  undone == At(e, "undoing") /\ committed[e] = {} IN
  /\ ~Delivering(e) /\ (over \/ undone)
  /\ Drop(e, Root(e))
  /\ Go(e, IF Is(e, {"provider"}) THEN (IF over THEN "verified" ELSE "dropping")
           ELSE IF over THEN "done" ELSE "failed")
  /\ committed' = [committed EXCEPT ![e] = {}]
  /\ UNCHANGED <<job, index, mine, fresh, places, recorded, janVars, up, crashes, lost, raced>>

EndDelivery(e) ==
  /\ Delivering(e)
  /\ \/ At(e, "checking") /\ ~Listed(e) /\ Go(e, "closing")
     \/ At(e, "undoing") /\ committed[e] = {} /\ Go(e, "dropping")
  /\ UNCHANGED <<job, index, committed, staged, ownVars, places, temps, recorded, old, janVars, up, crashes, histVars>>

\* The preview of a provider extraction is removed, file by file.
ClearPreview(e) ==
  LET slots == {<<e, x>> : x \in Entry} IN
  /\ At(e, "closing") \/ At(e, "dropping")
  /\ \/ /\ owner' = [s \in Slot |-> IF s \in slots THEN None ELSE owner[s]]
        /\ partial' = partial \ slots /\ UNCHANGED stuck
     \/ \E s \in slots :
          /\ owner[s] # None /\ CanStick(s) /\ stuck' = stuck \cup {s}
          /\ owner' = [z \in Slot |-> IF z \in slots \ {s} THEN None ELSE owner[z]]
          /\ partial' = partial \ (slots \ {s})
  /\ Go(e, IF pc[e] = "closing" THEN "done" ELSE "failed")
  /\ UNCHANGED <<job, index, committed, staged, ownVars, temps, recorded, old, janVars, up, crashes, lost, raced>>

\* A failure before anything is moved: the artifacts go, innermost first.
Discard(e) ==
  LET rest == {Part(e), Root(e), <<e, "root">>} \cap mine[e]
      a == CHOOSE x \in (IF rest = {} THEN {Container(e)} ELSE rest) : TRUE
  IN
  /\ At(e, "failing")
  /\ IF mine[e] = {}
     THEN /\ Go(e, IF Is(e, {"provider"}) THEN "dropping" ELSE "failed")
          /\ UNCHANGED <<staged, temps, old, stuck, gone, mine>>
     ELSE /\ IF a \in temps \/ a \in {Root(e), <<e, "root">>}
             THEN Drop(e, a) /\ UNCHANGED mine
             ELSE mine' = [mine EXCEPT ![e] = @ \ {a}] /\ UNCHANGED <<staged, temps, old, stuck, gone>>
          /\ UNCHANGED pc
  /\ UNCHANGED <<job, index, committed, fresh, places, recorded, janVars, up, crashes, lost, raced>>

-----------------------------------------------------------------------------
\* cleanup_startup_temp_artifacts: first the registries.  Artifacts of living
\* processes are left alone, and remembered for the sweep.
StartCleanup(p) ==
  LET safe == {a \in recorded : up[Runs[a[1]]] = "up"} IN
  /\ \/ up[p] = "new"
     \/ up[p] = "up" /\ passes[p] > 0
  /\ jpc[p] = "off" /\ passes[p] < Passes[p]
  /\ up' = [up EXCEPT ![p] = "up"]
  /\ jpc' = [jpc EXCEPT ![p] = "registry"]
  /\ jSafe' = [jSafe EXCEPT ![p] = safe]
  /\ jTodo' = [jTodo EXCEPT ![p] = recorded \ safe]
  /\ UNCHANGED <<extVars, staged, ownVars, places, temps, recorded, old, jOld, passes, crashes, histVars>>

\* Only a file that stays keeps its record: a directory counts as removed as
\* soon as something in it was.
RemoveRecorded(p, a) ==
  /\ up[p] = "up" /\ jpc[p] = "registry" /\ a \in jTodo[p]
  /\ jTodo' = [jTodo EXCEPT ![p] = @ \ {a}]
  /\ SecureRemove(a)
  /\ recorded' = IF a \in temps' /\ a[2] \in {"container", "part"} THEN recorded ELSE recorded \ {a}
  /\ UNCHANGED <<extVars, ownVars, places, jpc, jSafe, jOld, passes, up, crashes, lost, raced>>

\* Then the system's temporary directory: an hour old, not remembered.
InTempDir(a) == a[2] = "part" => Is(a[1], {"legacy"})

\* mutant of Sweepable: age is enough
SweepableByAge(p) == {a \in old : InTempDir(a)}

Sweepable(p) == {a \in old : InTempDir(a)} \ jSafe[p]

StartSweep(p) ==
  /\ up[p] = "up" /\ jpc[p] = "registry" /\ jTodo[p] = {}
  /\ jpc' = [jpc EXCEPT ![p] = "sweep"]
  /\ jOld' = [jOld EXCEPT ![p] = Sweepable(p)]
  /\ UNCHANGED <<extVars, staged, ownVars, places, temps, recorded, old, jTodo, jSafe, passes, up, crashes, histVars>>

Sweep(p, a) ==
  /\ up[p] = "up" /\ jpc[p] = "sweep" /\ a \in jOld[p]
  /\ jOld' = [jOld EXCEPT ![p] = @ \ {a}]
  /\ IF a \in temps THEN SecureRemove(a) ELSE UNCHANGED <<staged, temps, old, stuck>>
  /\ UNCHANGED <<extVars, ownVars, places, recorded, jpc, jTodo, jSafe, passes, up, crashes, lost, raced>>

EndCleanup(p) ==
  /\ up[p] = "up" /\ jpc[p] = "sweep" /\ jOld[p] = {}
  /\ jpc' = [jpc EXCEPT ![p] = "off"]
  /\ jSafe' = [jSafe EXCEPT ![p] = {}]
  /\ passes' = [passes EXCEPT ![p] = @ + 1]
  /\ UNCHANGED <<extVars, staged, ownVars, places, temps, recorded, old, jTodo, jOld, up, crashes, histVars>>

-----------------------------------------------------------------------------
\* An hour passes over an artifact.  Two things take less: recording what was
\* just created, and a clean-up's walk through the registries.  It makes no
\* difference when no clean-up is to come.
Age(a) ==
  /\ a \in temps \ old /\ fresh[a[1]] # a
  /\ ~(Running(a[1], "decoding") /\ a[2] = "part")
  /\ \A p \in Proc : jpc[p] # "registry"
  /\ \E p \in Proc : up[p] # "dead" /\ jpc[p] = "off" /\ passes[p] < Passes[p]
  /\ old' = old \cup {a}
  /\ UNCHANGED <<extVars, staged, ownVars, places, temps, recorded, janVars, up, crashes, histVars>>

\* A record that could not be written, or was destroyed with its registry.
LoseRecord(a) ==
  /\ a \in recorded /\ Cardinality(lost) < MaxLost
  /\ recorded' = recorded \ {a}
  /\ lost' = lost \cup {a}
  /\ UNCHANGED <<extVars, staged, ownVars, places, temps, old, janVars, up, crashes, stuck, raced>>

Crash(p) ==
  /\ up[p] = "up" /\ crashes < MaxCrashes
  /\ crashes' = crashes + 1
  /\ up' = [up EXCEPT ![p] = "dead"]
  /\ jpc' = [jpc EXCEPT ![p] = "off"]
  /\ jTodo' = [jTodo EXCEPT ![p] = {}] /\ jSafe' = [jSafe EXCEPT ![p] = {}] /\ jOld' = [jOld EXCEPT ![p] = {}]
  /\ UNCHANGED <<extVars, staged, ownVars, places, temps, recorded, old, passes, histVars>>

Step(e) ==
  \/ Record(e) \/ Unrecord(e)
  \/ MakeRoot(e) \/ NeedContainer(e) \/ MakeContainer(e) \/ MakePart(e) \/ Decode(e)
  \/ ExtractEntry(e) \/ Verify(e) \/ DropContainer(e)
  \/ MakeOutput(e) \/ Check(e) \/ Move(e) \/ StartCopy(e) \/ EndCopy(e) \/ Fail(e)
  \/ Undo(e) \/ EndMove(e) \/ EndDelivery(e) \/ ClearPreview(e) \/ Discard(e)

Cleanup(p) ==
  \/ StartCleanup(p) \/ StartSweep(p) \/ EndCleanup(p)
  \/ \E a \in Artifact : RemoveRecorded(p, a) \/ Sweep(p, a)

Next ==
  \/ \E e \in Ext : \E j \in Choices[e] : Begin(e, j)
  \/ \E e \in Ext : Step(e)
  \/ \E p \in Proc : Cleanup(p) \/ Crash(p)
  \/ \E a \in Artifact : Age(a) \/ LoseRecord(a)

Spec == Init /\ [][Next]_vars

-----------------------------------------------------------------------------
\* Nothing of a payload that fails its checks is ever seen under a final name,
\* not even in a preview and not for a moment.
NothingUnverified == \A s \in Slot : owner[s] \in Ext => job[owner[s]].intact

\* The single files that were put in place unasked.
ReplacedUnasked(s) == \E z \in Ext : Is(z, {"single"}) /\ pc[z] = "done" /\ <<Out, Current(z)>> = s

\* An extraction that succeeded put every entry in place, whole; one that
\* failed left none of its own, but for a copy that broke off half-way.  The
\* exceptions: a name two extractions had both found free - either may then
\* replace or remove the other's entry - or one that cannot be unlinked.
AllOrNothing ==
  \A e \in Ext :
    /\ pc[e] = "done" =>
         \A x \in Entries(e) :
           LET s == <<Out, x>> IN
           \/ owner[s] = e /\ s \notin partial
           \/ s \in raced \/ ReplacedUnasked(s)
    /\ pc[e] = "failed" =>
         \A x \in Entry : LET s == <<Out, x>> IN owner[s] = e => s \in partial \cup stuck

\* What was in the user's folder is neither replaced nor removed, except by a
\* single file of the older formats.
UserFilesKept == \A s \in Prior : owner[s] = "user" \/ ReplacedUnasked(s)

\* No clean-up takes the temporary artifact of an extraction at work, however
\* long that takes, unless its record was lost.
WorkKept ==
  \A e \in Ext : \A a \in mine[e] :
    up[Runs[e]] = "up" /\ gone[e] # a => a \in temps \cup lost

\* Decrypted contents in a temporary place are always on record, unless the
\* process died before it recorded them, the record was lost, or they cannot
\* be unlinked.
PlaintextOnRecord ==
  \A a \in temps : a \in recorded \cup lost \cup stuck \/ fresh[a[1]] = a

\* "Refusing to overwrite existing extracted file" (multi_file_decoder.py:910):
\* what is refused was there before, and is not the extraction's own.
RefusesOnlyOthers ==
  \A e \in Ext : pc[e] = "checking" /\ Listed(e) => owner[Target(e)] # e
=============================================================================
