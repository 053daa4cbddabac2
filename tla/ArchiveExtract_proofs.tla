----------------------- MODULE ArchiveExtract_proofs -----------------------
(***************************************************************************)
(* For any number of processes, extractions, entries, crashes and lost     *)
(* records: nothing of a payload that fails its checks is ever seen under  *)
(* a final name.                                                           *)
(***************************************************************************)
EXTENDS ArchiveExtract, TLAPS

USE DEF Slot, Artifact

\* The whole payload was found intact on the way to these.
Past == {"decoded", "unpacked", "verified", "checking", "moving", "copying"}

Shapes ==
  /\ job \in [Ext -> Jobs \cup {None}]
  /\ pc \in [Ext -> States]
  /\ mine \in [Ext -> SUBSET Artifact]
  /\ owner \in [Slot -> Ext \cup {"user", None}]

\* Who has a slot has begun, with an intact payload.
Placed == \A s \in Slot : \A e \in Ext : owner[s] = e => pc[e] # "idle" /\ job[e].intact

PastIntact == \A e \in Ext : pc[e] \in Past => job[e].intact

\* A container is unpacked only after it was decoded: until then an extraction
\* of that kind either has no container or is not extracting.
UnpackIntact ==
  \A e \in Ext :
    /\ pc[e] \in {"idle", "opened"} => Container(e) \notin mine[e]
    /\ pc[e] = "extracting" /\ Is(e, {"legacy"}) /\ Container(e) \in mine[e] => job[e].intact

VerifiedInv == Shapes /\ Placed /\ PastIntact /\ UnpackIntact

LEMMA VerifiedInit == ASSUME Init PROVE VerifiedInv
  BY ExtractAssumption DEF Init, VerifiedInv, Shapes, Placed, PastIntact, UnpackIntact, States, Ended, Past, Container

\* What the invariant speaks of does not change.
LEMMA VerifiedStutter ==
  ASSUME VerifiedInv, UNCHANGED <<job, pc, mine, owner>>
  PROVE  VerifiedInv'
  BY DEF VerifiedInv, Shapes, Placed, PastIntact, UnpackIntact, Is, Container

\* An extraction moves on, slots are given up, artifacts are forgotten.
LEMMA VerifiedMoves ==
  ASSUME VerifiedInv,
         NEW e \in Ext, NEW s \in States \ {"idle", "opened"},
         pc' = [pc EXCEPT ![e] = s], UNCHANGED job,
         pc[e] # "idle",
         s \in Past => job[e].intact,
         s = "extracting" => pc[e] \in {"opened", "extracting"} \/ job[e].intact,
         mine' \in [Ext -> SUBSET Artifact],
         \A z \in Ext : Container(z) \in mine'[z] => Container(z) \in mine[z] \/ pc[z] \notin {"idle", "opened", "extracting"},
         owner' \in [Slot -> Ext \cup {"user", None}],
         \A t \in Slot : owner'[t] \in {owner[t], None} \/ (owner'[t] = e /\ job[e].intact)
  PROVE  VerifiedInv'
<1> USE DEF VerifiedInv, Shapes
<1>1. Shapes'
  OBVIOUS
<1>2. Placed'
  BY ExtractAssumption DEF Placed
<1>3. PastIntact'
  BY DEF PastIntact
<1>4. UnpackIntact'
  BY DEF UnpackIntact, Is, Container
<1>5. QED
  BY <1>1, <1>2, <1>3, <1>4

\* An extraction begins: it has no slot and no container yet.
LEMMA VerifiedBegin ==
  ASSUME VerifiedInv, NEW e \in Ext, NEW j \in Choices[e], Begin(e, j)
  PROVE  VerifiedInv'
<1> USE DEF VerifiedInv, Shapes, Begin, At, Running, Go
<1>1. /\ pc[e] = "idle" /\ job' = [job EXCEPT ![e] = j] /\ j \in Jobs
      /\ pc' = [pc EXCEPT ![e] = "opened"] \/ pc' = [pc EXCEPT ![e] = "refused"]
      /\ UNCHANGED <<mine, owner>>
  BY ExtractAssumption DEF ownVars, places
<1>2. Shapes'
  BY <1>1 DEF States, Ended
<1>3. Placed'
  BY <1>1 DEF Placed
<1>4. PastIntact'
  BY <1>1 DEF PastIntact, Past
<1>5. UnpackIntact'
  BY <1>1 DEF UnpackIntact, Is, Container
<1>6. QED
  BY <1>2, <1>3, <1>4, <1>5

\* Every step of an extraction keeps it: the payload is checked on every way to
\* the steps that fill slots.
LEMMA VerifiedStep ==
  ASSUME VerifiedInv, NEW e \in Ext, Step(e)
  PROVE  VerifiedInv'
<1> USE DEF VerifiedInv, Shapes, At, Running, Go, extVars, ownVars, places, histVars, Past, States, Ended
<1>1. CASE Record(e)
  BY <1>1, VerifiedStutter DEF Record
<1>2. CASE Unrecord(e)
  <2>1. /\ UNCHANGED <<job, pc, owner>> /\ mine' \in [Ext -> SUBSET Artifact]
        /\ \A z \in Ext : mine'[z] \subseteq mine[z]
    BY <1>2 DEF Unrecord
  <2>2. QED
    BY <2>1 DEF Placed, PastIntact, UnpackIntact, Is, Container
<1>3. CASE MakeRoot(e)
  <2>1. /\ pc[e] = "opened" \/ (pc[e] = "decoded" /\ job[e].intact)
        /\ pc' = [pc EXCEPT ![e] = "extracting"] /\ UNCHANGED <<job, owner>>
    BY <1>3 DEF MakeRoot, PastIntact
  <2>2. \E a \in Artifact : a # Container(e) /\ mine' = [mine EXCEPT ![e] = @ \cup {a}]
    BY <1>3 DEF MakeRoot, Create, Container
  <2>3. mine' \in [Ext -> SUBSET Artifact] /\ \A z \in Ext : Container(z) \in mine'[z] => Container(z) \in mine[z]
    BY <2>2
  <2>4. QED
    BY <2>1, <2>3, VerifiedMoves
<1>4. CASE NeedContainer(e)
  BY <1>4, VerifiedMoves DEF NeedContainer
<1>5. CASE MakeContainer(e)
  <2>1. /\ pc[e] = "needContainer" /\ pc' = [pc EXCEPT ![e] = "containerReady"]
        /\ UNCHANGED <<job, owner>>
    BY <1>5 DEF MakeContainer
  <2>2. mine' \in [Ext -> SUBSET Artifact] /\ \A z \in Ext \ {e} : mine'[z] = mine[z]
    BY <1>5 DEF MakeContainer, Create, Container
  <2>3. QED
    BY <2>1, <2>2, VerifiedMoves
<1>6. CASE MakePart(e)
  <2>1. /\ pc[e] \in {"containerReady", "opened"} /\ pc' = [pc EXCEPT ![e] = "decoding"]
        /\ UNCHANGED <<job, owner>>
    BY <1>6 DEF MakePart
  <2>2. \E a \in Artifact : a # Container(e) /\ mine' = [mine EXCEPT ![e] = @ \cup {a}]
    BY <1>6 DEF MakePart, Create, Container, Part
  <2>3. mine' \in [Ext -> SUBSET Artifact] /\ \A z \in Ext : Container(z) \in mine'[z] => Container(z) \in mine[z]
    BY <2>2
  <2>4. QED
    BY <2>1, <2>3, VerifiedMoves
<1>7. CASE Decode(e)
  <2>1. CASE Intact(e) /\ Is(e, {"single"})
    <3>1. pc[e] = "decoding" /\ pc' = [pc EXCEPT ![e] = "done"] /\ UNCHANGED <<job, mine>>
      BY <1>7, <2>1 DEF Decode
    <3>2. job[e].intact /\ owner' = [owner EXCEPT ![Target(e)] = e]
      BY <1>7, <2>1 DEF Decode, Intact
    <3>3. /\ owner' \in [Slot -> Ext \cup {"user", None}]
          /\ \A t \in Slot : owner'[t] \in {owner[t], e}
      BY <3>2
    <3>4. QED
      BY <3>1, <3>2, <3>3, VerifiedMoves
  <2>2. CASE Intact(e) /\ ~Is(e, {"single"})
    BY <1>7, <2>2, VerifiedMoves DEF Decode, Intact
  <2>3. CASE ~Intact(e)
    BY <1>7, <2>3, VerifiedMoves DEF Decode
  <2>4. QED
    BY <2>1, <2>2, <2>3
<1>8. CASE ExtractEntry(e)
  BY <1>8, VerifiedMoves DEF ExtractEntry
<1>9. CASE Verify(e)
  <2>1. CASE Is(e, {"legacy"})
    BY <1>9, <2>1, VerifiedMoves DEF Verify, UnpackIntact
  <2>2. CASE ~Is(e, {"legacy"}) /\ Intact(e)
    BY <1>9, <2>2, VerifiedMoves DEF Verify, Intact
  <2>3. CASE ~Is(e, {"legacy"}) /\ ~Intact(e)
    BY <1>9, <2>3, VerifiedMoves DEF Verify
  <2>4. QED
    BY <2>1, <2>2, <2>3
<1>10. CASE DropContainer(e)
  BY <1>10, VerifiedMoves DEF DropContainer, PastIntact
<1>11. CASE MakeOutput(e)
  BY <1>11, VerifiedMoves DEF MakeOutput, PastIntact
<1>12. CASE Check(e)
  BY <1>12, VerifiedMoves DEF Check, PastIntact
<1>13. CASE Move(e)
  <2>1. pc[e] = "moving" /\ job[e].intact
    BY <1>13 DEF Move, PastIntact
  <2>2. /\ owner' \in [Slot -> Ext \cup {"user", None}]
        /\ \A t \in Slot : owner'[t] \in {owner[t], e}
    BY <1>13 DEF Move
  <2>3. pc' = [pc EXCEPT ![e] = "checking"] /\ UNCHANGED <<job, mine>>
    BY <1>13 DEF Move, NextEntry
  <2>4. QED
    BY <2>1, <2>2, <2>3, VerifiedMoves
<1>14. CASE StartCopy(e)
  BY <1>14, VerifiedMoves DEF StartCopy, PastIntact
<1>15. CASE EndCopy(e)
  BY <1>15, VerifiedMoves DEF EndCopy, NextEntry, PastIntact
<1>16. CASE Fail(e)
  BY <1>16, VerifiedMoves DEF Fail, PastIntact
<1>17. CASE Undo(e)
  <2>1. pc[e] = "undoing" /\ pc' = [pc EXCEPT ![e] = "undoing"] /\ UNCHANGED <<job, mine>>
    BY <1>17 DEF Undo
  <2>2. /\ owner' \in [Slot -> Ext \cup {"user", None}]
        /\ \A t \in Slot : owner'[t] \in {owner[t], None}
    BY <1>17 DEF Undo
  <2>3. QED
    BY <2>1, <2>2, VerifiedMoves
<1>18. CASE EndMove(e)
  BY <1>18, VerifiedMoves DEF EndMove, PastIntact
<1>19. CASE EndDelivery(e)
  BY <1>19, VerifiedMoves DEF EndDelivery, PastIntact
<1>20. CASE ClearPreview(e)
  <2>1. /\ pc[e] \in {"closing", "dropping"} /\ UNCHANGED <<job, mine>>
        /\ pc' = [pc EXCEPT ![e] = "done"] \/ pc' = [pc EXCEPT ![e] = "failed"]
    BY <1>20 DEF ClearPreview
  <2>2. /\ owner' \in [Slot -> Ext \cup {"user", None}]
        /\ \A t \in Slot : owner'[t] \in {owner[t], None}
    BY <1>20 DEF ClearPreview
  <2>3. QED
    BY <2>1, <2>2, VerifiedMoves
<1>21. CASE Discard(e)
  <2>1. /\ pc[e] = "failing" /\ UNCHANGED <<job, owner>>
        /\ \E s \in {"failing", "dropping", "failed"} : pc' = [pc EXCEPT ![e] = s]
    BY <1>21 DEF Discard
  <2>2. mine' \in [Ext -> SUBSET Artifact] /\ \A z \in Ext : mine'[z] \subseteq mine[z]
    BY <1>21 DEF Discard
  <2>3. QED
    BY <2>1, <2>2, VerifiedMoves
<1>22. QED
  BY <1>1, <1>2, <1>3, <1>4, <1>5, <1>6, <1>7, <1>8, <1>9, <1>10, <1>11, <1>12, <1>13, <1>14, <1>15, <1>16,
     <1>17, <1>18, <1>19, <1>20, <1>21 DEF Step

\* Clean-ups, crashes, lost records and time touch none of what it speaks of.
LEMMA VerifiedPreserved ==
  ASSUME VerifiedInv, [Next]_vars
  PROVE  VerifiedInv'
<1> USE DEF extVars, ownVars, places, histVars
<1>1. ASSUME NEW e \in Ext, NEW j \in Choices[e], Begin(e, j) PROVE VerifiedInv'
  BY <1>1, VerifiedBegin
<1>2. ASSUME NEW e \in Ext, Step(e) PROVE VerifiedInv'
  BY <1>2, VerifiedStep
<1>3. ASSUME NEW p \in Proc, Cleanup(p) \/ Crash(p) PROVE VerifiedInv'
  BY <1>3, VerifiedStutter DEF Cleanup, Crash, StartCleanup, StartSweep, EndCleanup, RemoveRecorded, Sweep
<1>4. ASSUME NEW a \in Artifact, Age(a) \/ LoseRecord(a) PROVE VerifiedInv'
  BY <1>4, VerifiedStutter DEF Age, LoseRecord
<1>5. CASE UNCHANGED vars
  BY <1>5, VerifiedStutter DEF vars
<1>6. QED
  BY <1>1, <1>2, <1>3, <1>4, <1>5 DEF Next

\* Whatever the archives hold, however many extractions, crashes, clean-ups and
\* lost records: what is seen under a final name, or in a preview, belongs to a
\* payload that passed its checks (extract_multi_file_avk moves nothing before).
THEOREM NeverUnverified == Spec => []NothingUnverified
<1>1. VerifiedInv => NothingUnverified
  BY DEF VerifiedInv, Placed, NothingUnverified
<1>2. QED
  BY <1>1, VerifiedInit, VerifiedPreserved, PTL DEF Spec

HIDE DEF Slot, Artifact

-----------------------------------------------------------------------------
\* Types, and what an extraction answers for at each of its steps.

Parts == {"root", "container", "part", "unpack"}

Typed ==
  /\ job \in [Ext -> Jobs \cup {None}] /\ pc \in [Ext -> States] /\ index \in [Ext -> Nat]
  /\ staged \in [Ext -> SUBSET Entry] /\ committed \in [Ext -> SUBSET Entry]
  /\ mine \in [Ext -> SUBSET Artifact]
  /\ fresh \in [Ext -> Artifact \cup {None}] /\ gone \in [Ext -> Artifact \cup {None}]
  /\ owner \in [Slot -> Ext \cup {"user", None}] /\ partial \subseteq Slot
  /\ \A s \in partial : owner[s] # None
  /\ temps \subseteq Artifact /\ recorded \subseteq Artifact /\ old \subseteq temps
  /\ up \in [Proc -> {"new", "up", "dead"}] /\ jpc \in [Proc -> {"off", "registry", "sweep"}]
  /\ passes \in [Proc -> 0..2]
  /\ \A p \in Proc : jpc[p] # "off" => passes[p] < Passes[p]
  /\ jTodo \in [Proc -> SUBSET Artifact] /\ jSafe \in [Proc -> SUBSET Artifact]
  /\ jOld \in [Proc -> SUBSET Artifact]
  /\ crashes \in 0..MaxCrashes
  /\ lost \subseteq Artifact /\ stuck \subseteq Artifact \cup Slot /\ raced \subseteq Slot

\* The artifacts an extraction answers for, without one it has just removed.
Kit(e) == mine[e] \ {gone[e]}
Legacy(e) == Is(e, {"legacy"})
Moves == {"checking", "moving", "copying", "undoing"}

\* ... which its step and the kind of its payload determine.
KitOK(e) ==
  LET R == <<e, "root">>  C == <<e, "container">>  P == <<e, "part">>  U == <<e, "unpack">> IN
  /\ pc[e] \in {"idle", "refused", "opened"} => mine[e] = {}
  /\ pc[e] = "needContainer" => Legacy(e) /\ Kit(e) = {}
  /\ pc[e] = "extracting" => Kit(e) = {R} \/ (Legacy(e) /\ Kit(e) = {C, U})
  /\ pc[e] \in {"containerReady", "decoded"} => Legacy(e) /\ Kit(e) = {C}
  /\ pc[e] = "decoding" => \/ Legacy(e) /\ Kit(e) = {C, P}
                           \/ Is(e, {"single"}) /\ Kit(e) = {P}
  /\ pc[e] = "unpacked" => Legacy(e) /\ Kit(e) = {C, U}
  /\ pc[e] \in Moves \cup {"verified"} => \/ Legacy(e) /\ Kit(e) = {U}
                                          \/ ~Legacy(e) /\ Kit(e) = {R}
                                          \/ Is(e, {"provider"}) /\ Kit(e) = {}
  /\ pc[e] \in {"closing", "done"} => Kit(e) = {}
  /\ pc[e] \in {"closing", "dropping"} => Is(e, {"provider"})
  /\ mine[e] \subseteq IF Legacy(e) THEN {e} \X Parts ELSE {R, P}

\* What it has not made yet; each artifact is made once.
Unmade(e) ==
  IF pc[e] \in {"idle", "refused", "opened"} THEN {e} \X Parts
  ELSE IF ~Legacy(e) THEN {}
  ELSE IF pc[e] = "needContainer" \/ (pc[e] = "extracting" /\ Container(e) \notin mine[e])
  THEN {e} \X {"container", "part", "unpack"}
  ELSE IF pc[e] = "containerReady" THEN {e} \X {"part", "unpack"}
  ELSE IF pc[e] \in {"decoding", "decoded"} THEN {<<e, "unpack">>}
  ELSE {}

JobOK(e) ==
  /\ job[e] = None <=> pc[e] = "idle"
  /\ job[e] # None => job[e] \in Choices[e]
  /\ index[e] > 0 /\ (pc[e] = "idle" => index[e] = 1)
  /\ pc[e] \in {"moving", "copying"} => Listed(e)
  /\ Is(e, {"single"}) =>
       index[e] = 1 /\ pc[e] \in {"refused", "opened", "decoding", "failing", "done", "failed"}

StepOK(e) ==
  /\ JobOK(e) /\ KitOK(e)
  /\ fresh[e] \in mine[e] \cup {None} /\ gone[e] \in mine[e] \cup {None}
  /\ fresh[e] = None \/ gone[e] = None
  /\ pc[e] \in Moves \cup {"extracting"} => gone[e] = None
  /\ up[Runs[e]] = "new" => pc[e] = "idle"
  /\ Running(e, "decoding") => Part(e) \notin old
  /\ \A a \in Unmade(e) : a \notin temps /\ \A p \in Proc : a \notin jOld[p]

StepInv == Typed /\ \A e \in Ext : StepOK(e)

LEMMA ArtifactFacts ==
  /\ \A a \in Artifact : a[1] \in Ext /\ a = <<a[1], a[2]>> /\ a[2] \in Parts
  /\ \A e \in Ext : \A k \in Parts : <<e, k>> \in Artifact /\ <<e, k>>[1] = e /\ <<e, k>>[2] = k
  /\ None \notin Artifact
BY ExtractAssumption DEF Artifact, Parts

LEMMA StepInit == Init => StepInv
<1> SUFFICES ASSUME Init PROVE StepInv
  OBVIOUS
<1>1. Typed
  BY ExtractAssumption DEF Init, Typed, States, Ended, Slot
<1>2. ASSUME NEW e \in Ext PROVE StepOK(e)
  BY DEF Init, StepOK, JobOK, KitOK, Is, Moves
<1>3. QED BY <1>1, <1>2 DEF StepInv

\* A step of one extraction, of a clean-up or of time leaves the others alone.
LEMMA StepFrame ==
  ASSUME NEW z \in Ext, StepOK(z),
         job'[z] = job[z], pc'[z] = pc[z], index'[z] = index[z],
         mine'[z] = mine[z], fresh'[z] = fresh[z], gone'[z] = gone[z],
         up'[Runs[z]] = "new" => up[Runs[z]] = "new",
         Running(z, "decoding")' => Running(z, "decoding") /\ (Part(z) \in old' => Part(z) \in old),
         \A a : a[1] = z /\ a \in temps' => a \in temps,
         \A a : \A p \in Proc : a[1] = z /\ a \in jOld'[p] => a \in jOld[p] \cup temps
  PROVE  StepOK(z)'
<1>1. JobOK(z)' /\ KitOK(z)' /\ Unmade(z)' = Unmade(z)
  BY DEF StepOK, JobOK, KitOK, Unmade, Is, Kit, Legacy, Listed
<1>2. \A a \in Unmade(z) : a[1] = z
  BY DEF Unmade, Parts
<1>3. QED BY <1>1, <1>2 DEF StepOK, Part

\* What an extraction is asked to do is known once it has begun.
LEMMA JobKnown ==
  ASSUME StepInv, NEW e \in Ext, pc[e] # "idle"
  PROVE  /\ job[e] \in Choices[e] /\ job[e] \in Jobs /\ job[e] # None
         /\ \A kinds : Is(e, kinds) <=> job[e].kind \in kinds
         /\ Listed(e) => Current(e) \in Entry
<1>1. job[e] # None /\ job[e] \in Choices[e] /\ job[e] \in Jobs
  BY ExtractAssumption DEF StepInv, StepOK, JobOK
<1>2. job[e].entries \in Seq(Entry)
  BY <1>1 DEF Jobs
<1>3. Listed(e) => Current(e) \in Entry
  BY <1>2 DEF Listed, Current
<1>4. QED BY <1>1, <1>3 DEF Is

\* The entry an extraction is about to fill a slot with.
LEMMA TargetType ==
  ASSUME StepInv, NEW e \in Ext, pc[e] # "idle",
         pc[e] \in {"moving", "copying"} \/ Is(e, {"single"})
  PROVE  Listed(e) /\ Current(e) \in Entry /\ Target(e) \in Slot
<1>1. job[e] \in Jobs /\ (Is(e, {"single"}) => job[e].kind = "single" /\ index[e] = 1)
  BY JobKnown DEF StepInv, StepOK, JobOK
<1>2. Is(e, {"single"}) => Len(job[e].entries) = 1
  BY <1>1, JobKnown, ExtractAssumption
<1>3. Listed(e)
  <2>1. CASE pc[e] \in {"moving", "copying"}
    BY <2>1 DEF StepInv, StepOK, JobOK
  <2>2. CASE Is(e, {"single"})
    <3>1. job[e].entries \in Seq(Entry)
      BY <1>1 DEF Jobs
    <3>2. QED BY <1>1, <1>2, <2>2, <3>1 DEF Listed
  <2>3. QED BY <2>1, <2>2
<1>4. QED BY <1>3, JobKnown DEF Target, Place, Slot

LEMMA RacesType ==
  ASSUME StepInv, NEW e \in Ext, NEW slots
  PROVE  Races(e, slots) \subseteq Slot
BY TargetType DEF Races, Aiming

\* Artifacts whose removal a variable may record.
LEMMA RemoveType ==
  ASSUME Typed, NEW a, SecureRemove(a)
  PROVE  /\ staged' \in [Ext -> SUBSET Entry]
         /\ temps' \subseteq temps /\ old' \subseteq temps' /\ old' \subseteq old
         /\ stuck' \subseteq Artifact \cup Slot /\ stuck \subseteq stuck'
         /\ a \in temps' => a \in stuck'
         /\ \A b : b # a /\ b \in temps => b \in temps'
BY DEF SecureRemove, Emptied, Typed

LEMMA TypedStep ==
  ASSUME StepInv, NEW e \in Ext, Step(e)
  PROVE  Typed'
<1> USE DEF StepInv, Typed, At, Running, Go, extVars, ownVars, places, janVars, histVars
<1>0. \A k \in Parts : <<e, k>> \in Artifact
  BY ArtifactFacts
<1>1. CASE Record(e)
  BY <1>1 DEF Record
<1>2. CASE Unrecord(e)
  BY <1>2 DEF Unrecord
<1>3. CASE MakeRoot(e)
  <2>1. /\ pc' = [pc EXCEPT ![e] = "extracting"]
        /\ \E a \in Artifact : Create(e, a)
        /\ UNCHANGED <<job, index, committed, staged, gone, places, recorded, old, janVars, up, crashes, histVars>>
    BY <1>0, <1>3 DEF MakeRoot, Parts
  <2>2. QED BY <2>1 DEF Create, States
<1>4. CASE NeedContainer(e)
  <2>1. SecureRemove(<<e, "root">>) /\ gone' = [gone EXCEPT ![e] = <<e, "root">>]
        /\ pc' = [pc EXCEPT ![e] = "needContainer"]
    BY <1>4 DEF NeedContainer, Drop
  <2>2. gone' \in [Ext -> Artifact \cup {None}] /\ pc' \in [Ext -> States]
    BY <1>0, <2>1 DEF Parts, States
  <2>3. QED BY <1>4, <2>1, <2>2, RemoveType DEF NeedContainer
<1>5. CASE MakeContainer(e)
  <2>1. /\ pc' = [pc EXCEPT ![e] = "containerReady"]
        /\ \E a \in Artifact : Create(e, a)
        /\ UNCHANGED <<job, index, committed, staged, gone, places, recorded, old, janVars, up, crashes, histVars>>
    BY <1>0, <1>5 DEF MakeContainer, Container, Parts
  <2>2. QED BY <2>1 DEF Create, States
<1>6. CASE MakePart(e)
  <2>1. /\ pc' = [pc EXCEPT ![e] = "decoding"]
        /\ \E a \in Artifact : Create(e, a)
        /\ UNCHANGED <<job, index, committed, staged, gone, places, recorded, old, janVars, up, crashes, histVars>>
    BY <1>0, <1>6 DEF MakePart, Part, Parts
  <2>2. QED BY <2>1 DEF Create, States
<1>7. CASE Decode(e)
  <2>1. CASE Intact(e) /\ Is(e, {"single"})
    <3>1. Target(e) \in Slot /\ Races(e, {Target(e)}) \subseteq Slot
      BY <1>7, <2>1, TargetType, RacesType DEF Decode
    <3>2. /\ gone' = [gone EXCEPT ![e] = Part(e)] /\ pc' = [pc EXCEPT ![e] = "done"]
          /\ temps' = temps \ {Part(e)} /\ owner' = [owner EXCEPT ![Target(e)] = e]
          /\ partial' = partial \ {Target(e)} /\ raced' = raced \cup Races(e, {Target(e)})
          /\ UNCHANGED <<old, jOld>>
      BY <1>7, <2>1 DEF Decode
    <3>3. gone' \in [Ext -> Artifact \cup {None}] /\ pc' \in [Ext -> States]
      BY <1>0, <3>2 DEF Part, Parts, States, Ended
    <3>4. owner' \in [Slot -> Ext \cup {"user", None}] /\ partial' \subseteq Slot
          /\ \A s \in partial' : owner'[s] # None
      BY <3>1, <3>2
    <3>5. Part(e) \notin old
      BY <1>7 DEF Decode, StepOK
    <3>6. QED BY <1>7, <3>1, <3>2, <3>3, <3>4, <3>5 DEF Decode
  <2>2. CASE Intact(e) /\ ~Is(e, {"single"})
    <3>1. /\ gone' = [gone EXCEPT ![e] = Part(e)] /\ pc' = [pc EXCEPT ![e] = "decoded"]
          /\ temps' = (temps \ {Part(e)}) \cup {Container(e)}
          /\ old' = old \ {Container(e)} /\ jOld' = [p \in Proc |-> jOld[p] \ {Container(e)}]
          /\ UNCHANGED <<places, raced>>
      BY <1>7, <2>2 DEF Decode, Touch
    <3>2. Part(e) \in Artifact /\ Container(e) \in Artifact
      BY <1>0 DEF Part, Container, Parts
    <3>3. Part(e) \notin old
      BY <1>7 DEF Decode, StepOK
    <3>4. temps' \subseteq Artifact /\ old' \subseteq temps'
      BY <3>1, <3>2, <3>3
    <3>5. gone' \in [Ext -> Artifact \cup {None}] /\ pc' \in [Ext -> States] /\ jOld' \in [Proc -> SUBSET Artifact]
      BY <3>1, <3>2 DEF States
    <3>6. QED BY <1>7, <3>1, <3>4, <3>5 DEF Decode
  <2>3. CASE ~Intact(e)
    BY <1>7, <2>3 DEF Decode, States
  <2>4. QED BY <2>1, <2>2, <2>3
<1>8. CASE ExtractEntry(e)
  <2>1. Current(e) \in Entry /\ Root(e) \in Artifact
    BY <1>0, <1>8, JobKnown DEF ExtractEntry, Root, Parts
  <2>2. /\ staged' = [staged EXCEPT ![e] = @ \cup {Current(e)}]
        /\ index' = [index EXCEPT ![e] = @ + 1]
        /\ temps' = temps \cup {Root(e)}
        /\ \/ old' = old \ {Root(e)} /\ jOld' = [p \in Proc |-> jOld[p] \ {Root(e)}]
           \/ UNCHANGED <<old, jOld>>
    BY <1>8 DEF ExtractEntry, Touch
  <2>3. QED BY <1>8, <2>1, <2>2 DEF ExtractEntry
<1>9. CASE Verify(e)
  BY <1>9 DEF Verify, States
<1>10. CASE DropContainer(e)
  <2>1. CASE Container(e) \in temps
    <3>1. SecureRemove(Container(e)) /\ gone' = [gone EXCEPT ![e] = Container(e)]
          /\ pc' = [pc EXCEPT ![e] = "verified"] /\ UNCHANGED mine
      BY <1>10, <2>1 DEF DropContainer, Drop
    <3>2. gone' \in [Ext -> Artifact \cup {None}] /\ pc' \in [Ext -> States]
      BY <1>0, <3>1 DEF Parts, States, Container
    <3>3. QED BY <1>10, <3>1, <3>2, RemoveType DEF DropContainer
  <2>2. CASE Container(e) \notin temps
    BY <1>10, <2>2 DEF DropContainer, States
  <2>3. QED BY <2>1, <2>2
<1>11. CASE MakeOutput(e)
  BY <1>11 DEF MakeOutput, States, Ended
<1>12. CASE Check(e)
  BY <1>12 DEF Check, States
<1>13. CASE Move(e)
  <2>1. Current(e) \in Entry /\ Target(e) \in Slot
    BY <1>13, TargetType DEF Move
  <2> DEFINE slots == {<<Place(e), y>> : y \in Under(Current(e)) \cap staged[e]}
  <2>2. slots \subseteq Slot
    BY <2>1 DEF Slot, Target
  <2>3. /\ owner' = IF Current(e) \in Dir /\ owner[Target(e)] # None THEN owner
                    ELSE [s \in Slot |-> IF s \in slots THEN e ELSE owner[s]]
        /\ partial' = partial \ slots
        /\ raced' = raced \cup Races(e, slots) \cup {s \in slots : owner[s] # None}
        /\ staged' = [staged EXCEPT ![e] = @ \ Under(Current(e))]
        /\ NextEntry(e)
        /\ UNCHANGED <<job, ownVars, temps, recorded, old, janVars, up, crashes, lost, stuck>>
    BY <1>13 DEF Move
  <2> HIDE DEF slots
  <2>4. owner' \in [Slot -> Ext \cup {"user", None}] /\ partial' \subseteq Slot
        /\ \A s \in partial' : owner'[s] # None
    <3>1. CASE owner' = owner
      BY <2>3, <3>1
    <3>2. CASE owner' = [s \in Slot |-> IF s \in slots THEN e ELSE owner[s]]
      BY <2>3, <3>2
    <3>3. QED BY <2>3, <3>1, <3>2
  <2>5. raced' \subseteq Slot
    BY <2>2, <2>3, RacesType
  <2>6. staged' \in [Ext -> SUBSET Entry] /\ committed' \in [Ext -> SUBSET Entry]
        /\ index' \in [Ext -> Nat] /\ pc' \in [Ext -> States]
    BY <2>1, <2>3 DEF NextEntry, States
  <2>7. QED BY <2>3, <2>4, <2>5, <2>6
<1>14. CASE StartCopy(e)
  <2>1. Target(e) \in Slot /\ Races(e, {Target(e)}) \subseteq Slot
    BY <1>14, TargetType, RacesType DEF StartCopy
  <2>2. /\ owner' = [owner EXCEPT ![Target(e)] = e]
        /\ partial' = partial \cup {Target(e)}
    BY <1>14 DEF StartCopy
  <2>3. owner' \in [Slot -> Ext \cup {"user", None}] /\ partial' \subseteq Slot
        /\ \A s \in partial' : owner'[s] # None
    BY <2>1, <2>2, ExtractAssumption
  <2>4. raced' \subseteq Slot /\ pc' \in [Ext -> States]
    BY <1>14, <2>1 DEF StartCopy, States
  <2>5. QED BY <1>14, <2>3, <2>4 DEF StartCopy
<1>15. CASE EndCopy(e)
  <2>1. Current(e) \in Entry
    BY <1>15, TargetType DEF EndCopy
  <2>2. partial' \subseteq partial
    BY <1>15 DEF EndCopy
  <2>3. staged' \in [Ext -> SUBSET Entry]
    BY <1>15 DEF EndCopy
  <2>4. committed' \in [Ext -> SUBSET Entry] /\ index' \in [Ext -> Nat] /\ pc' \in [Ext -> States]
    BY <1>15, <2>1 DEF EndCopy, NextEntry, States
  <2>5. QED BY <1>15, <2>2, <2>3, <2>4 DEF EndCopy
<1>16. CASE Fail(e)
  BY <1>16 DEF Fail, States
<1>17. CASE Undo(e)
  <2>1. PICK x \in committed[e] :
          /\ committed' = [committed EXCEPT ![e] = @ \ {x}]
          /\ \/ /\ owner' = [z \in Slot |-> IF z \in {<<Place(e), y>> : y \in Under(x)} THEN None ELSE owner[z]]
                /\ partial' = partial \ {<<Place(e), y>> : y \in Under(x)}
                /\ UNCHANGED stuck
             \/ /\ owner[<<Place(e), x>>] # None /\ stuck' = stuck \cup {<<Place(e), x>>}
                /\ UNCHANGED places
    BY <1>17 DEF Undo
  <2>2. <<Place(e), x>> \in Slot
    BY DEF Slot, Place
  <2>3. owner' \in [Slot -> Ext \cup {"user", None}] /\ partial' \subseteq Slot
        /\ \A s \in partial' : owner'[s] # None
    BY <2>1
  <2>4. stuck' \subseteq Artifact \cup Slot /\ committed' \in [Ext -> SUBSET Entry]
    BY <2>1, <2>2
  <2>5. QED BY <1>17, <2>3, <2>4 DEF Undo
<1>18. CASE EndMove(e)
  <2>1. SecureRemove(Root(e)) /\ gone' = [gone EXCEPT ![e] = Root(e)]
    BY <1>18 DEF EndMove, Drop
  <2>2. gone' \in [Ext -> Artifact \cup {None}]
    BY <1>0, <2>1 DEF Parts, Root
  <2>3. pc' \in [Ext -> States] /\ committed' \in [Ext -> SUBSET Entry]
    BY <1>18 DEF EndMove, States, Ended
  <2>4. QED BY <1>18, <2>1, <2>2, <2>3, RemoveType DEF EndMove
<1>19. CASE EndDelivery(e)
  BY <1>19 DEF EndDelivery, States
<1>20. CASE ClearPreview(e)
  <2> DEFINE slots == {<<e, x>> : x \in Entry}
  <2>1. slots \subseteq Slot
    BY DEF Slot
  <2>2. \E keep \in SUBSET slots :
          /\ owner' = [s \in Slot |-> IF s \in slots \ keep THEN None ELSE owner[s]]
          /\ partial' = partial \ (slots \ keep)
          /\ stuck' = stuck \cup keep
    <3>1. CASE /\ owner' = [s \in Slot |-> IF s \in slots THEN None ELSE owner[s]]
               /\ partial' = partial \ slots /\ UNCHANGED stuck
      <4>1. {} \in SUBSET slots /\ slots \ {} = slots /\ stuck' = stuck \cup {}
        BY <3>1
      <4>2. QED BY <3>1, <4>1
    <3>2. CASE \E s \in slots :
                 /\ stuck' = stuck \cup {s}
                 /\ owner' = [z \in Slot |-> IF z \in slots \ {s} THEN None ELSE owner[z]]
                 /\ partial' = partial \ (slots \ {s})
      <4>1. PICK s \in slots :
                 /\ stuck' = stuck \cup {s}
                 /\ owner' = [z \in Slot |-> IF z \in slots \ {s} THEN None ELSE owner[z]]
                 /\ partial' = partial \ (slots \ {s})
        BY <3>2
      <4>2. {s} \in SUBSET slots
        OBVIOUS
      <4>3. QED BY <4>1, <4>2
    <3>3. QED BY <1>20, <3>1, <3>2 DEF ClearPreview
  <2> HIDE DEF slots
  <2>3. owner' \in [Slot -> Ext \cup {"user", None}] /\ partial' \subseteq Slot
        /\ (\A s \in partial' : owner'[s] # None) /\ stuck' \subseteq Artifact \cup Slot
    BY <2>1, <2>2
  <2>4. pc' \in [Ext -> States]
    BY <1>20 DEF ClearPreview, States, Ended
  <2>5. QED BY <1>20, <2>3, <2>4 DEF ClearPreview
<1>21. CASE Discard(e)
  <2>1. pc' \in [Ext -> States]
    BY <1>21 DEF Discard, States, Ended
  <2>2. \/ UNCHANGED <<staged, temps, old, stuck, gone, mine>>
        \/ \E a \in mine[e] \cup {Container(e)} : Drop(e, a) /\ UNCHANGED mine
        \/ /\ \E a : mine' = [mine EXCEPT ![e] = @ \ {a}]
           /\ UNCHANGED <<staged, temps, old, stuck, gone>>
    BY <1>21 DEF Discard
  <2>3. CASE \E a \in mine[e] \cup {Container(e)} : Drop(e, a) /\ UNCHANGED mine
    <3>1. PICK a \in Artifact : SecureRemove(a) /\ gone' = [gone EXCEPT ![e] = a] /\ UNCHANGED mine
      BY <1>0, <2>3 DEF Drop, Container, Parts
    <3>2. QED BY <1>21, <2>1, <3>1, RemoveType DEF Discard
  <2>4. CASE UNCHANGED <<staged, temps, old, stuck, gone, mine>>
    BY <1>21, <2>1, <2>4 DEF Discard
  <2>5. CASE /\ \E a : mine' = [mine EXCEPT ![e] = @ \ {a}]
             /\ UNCHANGED <<staged, temps, old, stuck, gone>>
    BY <1>21, <2>1, <2>5 DEF Discard
  <2>6. QED BY <2>2, <2>3, <2>4, <2>5
<1>22. QED
  BY <1>1, <1>2, <1>3, <1>4, <1>5, <1>6, <1>7, <1>8, <1>9, <1>10, <1>11, <1>12, <1>13, <1>14, <1>15, <1>16,
     <1>17, <1>18, <1>19, <1>20, <1>21 DEF Step

LEMMA TypedOther ==
  ASSUME StepInv,
         \/ \E e \in Ext : \E j \in Choices[e] : Begin(e, j)
         \/ \E p \in Proc : Cleanup(p) \/ Crash(p)
         \/ \E a \in Artifact : Age(a) \/ LoseRecord(a)
  PROVE  Typed'
<1> USE DEF StepInv, Typed, At, Running, Go, extVars, ownVars, places, janVars, histVars
<1>1. ASSUME NEW e \in Ext, NEW j \in Choices[e], Begin(e, j) PROVE Typed'
  BY <1>1, ExtractAssumption DEF Begin, States, Ended
<1>2. ASSUME NEW p \in Proc, StartCleanup(p) PROVE Typed'
  BY <1>2 DEF StartCleanup
<1>3. ASSUME NEW p \in Proc, NEW a \in Artifact, RemoveRecorded(p, a) PROVE Typed'
  <2>1. recorded' \subseteq recorded /\ jTodo' \in [Proc -> SUBSET Artifact]
    BY <1>3 DEF RemoveRecorded
  <2>2. QED BY <1>3, <2>1, RemoveType DEF RemoveRecorded
<1>4. ASSUME NEW p \in Proc, StartSweep(p) PROVE Typed'
  <2>1. Sweepable(p) \subseteq Artifact
    BY DEF Sweepable
  <2>2. QED BY <1>4, <2>1 DEF StartSweep
<1>5. ASSUME NEW p \in Proc, NEW a \in Artifact, Sweep(p, a) PROVE Typed'
  <2>1. jOld' \in [Proc -> SUBSET Artifact]
    BY <1>5 DEF Sweep
  <2>2. CASE a \in temps
    BY <1>5, <2>1, <2>2, RemoveType DEF Sweep
  <2>3. CASE a \notin temps
    BY <1>5, <2>1, <2>3 DEF Sweep
  <2>4. QED BY <2>2, <2>3
<1>6. ASSUME NEW p \in Proc, EndCleanup(p) PROVE Typed'
  <2>1. passes[p] + 1 \in 0..2
    <3>1. passes[p] \in 0..2 /\ Passes[p] \in {1, 2} /\ passes[p] < Passes[p]
      BY <1>6, ExtractAssumption DEF EndCleanup
    <3>2. QED BY <3>1
  <2>2. passes' \in [Proc -> 0..2] /\ \A q \in Proc : q # p => passes'[q] = passes[q]
    BY <1>6, <2>1 DEF EndCleanup
  <2>3. QED BY <1>6, <2>2 DEF EndCleanup
<1>7. ASSUME NEW p \in Proc, Crash(p) PROVE Typed'
  BY <1>7, ExtractAssumption DEF Crash
<1>8. ASSUME NEW a \in Artifact, Age(a) \/ LoseRecord(a) PROVE Typed'
  BY <1>8 DEF Age, LoseRecord
<1>9. QED BY <1>1, <1>2, <1>3, <1>4, <1>5, <1>6, <1>7, <1>8 DEF Cleanup

\* Of what it answers for, an extraction that failed removes one at a time.
LEMMA DiscardStep ==
  ASSUME StepInv, NEW e \in Ext, Discard(e)
  PROVE  /\ pc[e] = "failing" /\ fresh[e] = None /\ gone[e] = None
         /\ UNCHANGED <<job, index, committed, fresh, places, recorded, janVars, up, crashes, lost, raced>>
         /\ \/ /\ mine[e] = {} /\ pc' = [pc EXCEPT ![e] = IF Is(e, {"provider"}) THEN "dropping" ELSE "failed"]
               /\ UNCHANGED <<staged, temps, old, stuck, gone, mine>>
            \/ \E a \in mine[e] \cap ({e} \X Parts) :
                 /\ UNCHANGED pc
                 /\ \/ SecureRemove(a) /\ gone' = [gone EXCEPT ![e] = a] /\ UNCHANGED mine
                    \/ /\ a \notin temps /\ mine' = [mine EXCEPT ![e] = @ \ {a}]
                       /\ UNCHANGED <<staged, temps, old, stuck, gone>>
<1> DEFINE rest == {Part(e), Root(e), <<e, "root">>} \cap mine[e]
           pool == IF rest = {} THEN {Container(e)} ELSE rest
           a == CHOOSE x \in pool : TRUE
<1>0. pc[e] = "failing" /\ fresh[e] = None /\ gone[e] = None
  BY DEF Discard, At, Running
<1>1. CASE mine[e] = {}
  BY <1>0, <1>1 DEF Discard, Go
<1>2. CASE mine[e] # {}
  <2>1. a \in pool
    OBVIOUS
  <2>2. mine[e] \subseteq IF Legacy(e) THEN {e} \X Parts ELSE {<<e, "root">>, Part(e)}
    BY DEF StepInv, StepOK, KitOK, Part
  <2>3. mine[e] \subseteq rest \cup {Container(e)}
    BY <2>2 DEF Legacy, Root, Container, Part, Parts
  <2>4. a \in mine[e] /\ a \in {e} \X Parts
    BY <1>2, <2>1, <2>3 DEF Root, Container, Part, Parts
  <2>5. /\ UNCHANGED pc
        /\ \/ Drop(e, a) /\ UNCHANGED mine
           \/ a \notin temps /\ mine' = [mine EXCEPT ![e] = @ \ {a}] /\ UNCHANGED <<staged, temps, old, stuck, gone>>
    BY <1>2 DEF Discard
  <2> HIDE DEF a
  <2>6. UNCHANGED <<job, index, committed, fresh, places, recorded, janVars, up, crashes, lost, raced>>
    BY DEF Discard
  <2>7. QED BY <1>0, <2>4, <2>5, <2>6 DEF Drop
<1>3. QED BY <1>1, <1>2

\* What a step of an extraction may touch: its own variables, and artifacts of
\* its own.
LEMMA StepReach ==
  ASSUME StepInv, NEW e \in Ext, Step(e)
  PROVE  /\ UNCHANGED <<job, up, jpc, jTodo, jSafe, passes, crashes, lost>>
         /\ \A z \in Ext \ {e} : /\ pc'[z] = pc[z] /\ index'[z] = index[z]
                                 /\ mine'[z] = mine[z] /\ fresh'[z] = fresh[z] /\ gone'[z] = gone[z]
                                 /\ committed'[z] = committed[z] /\ staged'[z] = staged[z]
         /\ old' \subseteq old
         /\ \A p \in Proc : jOld'[p] \subseteq jOld[p]
         /\ \A a : a \in temps' /\ a \notin temps => a[1] = e
         /\ \A a : a \in temps /\ a \notin temps' => a[1] = e
<1> USE DEF StepInv, Typed, At, Running, Go, extVars, ownVars, places, janVars, histVars
<1>1. CASE Record(e) \/ Unrecord(e)
  BY <1>1 DEF Record, Unrecord
<1>2. CASE MakeRoot(e) \/ MakeContainer(e) \/ MakePart(e)
  BY <1>2 DEF MakeRoot, MakeContainer, MakePart, Create, Container, Part
<1>3. CASE NeedContainer(e)
  BY <1>3 DEF NeedContainer, Drop, SecureRemove, Emptied
<1>4. CASE Decode(e)
  BY <1>4 DEF Decode, Touch, Container, Part
<1>5. CASE ExtractEntry(e)
  BY <1>5 DEF ExtractEntry, Touch, Root
<1>6. CASE Verify(e) \/ MakeOutput(e) \/ Check(e) \/ Fail(e) \/ EndDelivery(e)
  BY <1>6 DEF Verify, MakeOutput, Check, Fail, EndDelivery
<1>7. CASE DropContainer(e)
  BY <1>7 DEF DropContainer, Drop, SecureRemove, Emptied, Container
<1>8. CASE Move(e)
  BY <1>8 DEF Move, NextEntry
<1>9. CASE StartCopy(e) \/ EndCopy(e)
  BY <1>9 DEF StartCopy, EndCopy, NextEntry
<1>10. CASE Undo(e)
  BY <1>10 DEF Undo
<1>11. CASE EndMove(e)
  BY <1>11 DEF EndMove, Drop, SecureRemove, Emptied, Root
<1>12. CASE ClearPreview(e)
  BY <1>12 DEF ClearPreview
<1>13. CASE Discard(e)
  BY <1>13, DiscardStep DEF SecureRemove, Emptied
<1>14. QED
  BY <1>1, <1>2, <1>3, <1>4, <1>5, <1>6, <1>7, <1>8, <1>9, <1>10, <1>11, <1>12, <1>13 DEF Step

\* What each step of an extraction does to what it answers for.
LEMMA StepOwn ==
  ASSUME StepInv, NEW e \in Ext, Step(e)
  PROVE  StepOK(e)'
<1> USE DEF At, Running, Go, extVars, ownVars, places, janVars, histVars
<1>0. Typed /\ StepOK(e) /\ JobOK(e) /\ KitOK(e)
  BY DEF StepInv, StepOK
<1>a. /\ Is(e, {"legacy"})' = Is(e, {"legacy"}) /\ Is(e, {"single"})' = Is(e, {"single"})
      /\ Is(e, {"provider"})' = Is(e, {"provider"}) /\ job' = job /\ up' = up
  BY StepReach DEF Is
<1>b. None \notin mine[e] /\ mine[e] \subseteq Artifact /\ gone \in [Ext -> Artifact \cup {None}]
      /\ fresh \in [Ext -> Artifact \cup {None}] /\ mine \in [Ext -> SUBSET Artifact]
      /\ pc \in [Ext -> States] /\ index \in [Ext -> Nat]
  BY <1>0, ArtifactFacts DEF Typed
<1>c. <<e, "root">> # None /\ <<e, "container">> # None /\ <<e, "part">> # None /\ <<e, "unpack">> # None
  <2>1. (\A k \in Parts : <<e, k>> \in Artifact) /\ None \notin Artifact
    BY ArtifactFacts
  <2>2. \A k \in {"root", "container", "part", "unpack"} : <<e, k>> \in Artifact
    BY <2>1 DEF Parts
  <2>3. QED BY <2>1, <2>2
<1>1. CASE Record(e)
  <2>1. JobOK(e)'
    BY <1>0, <1>a, <1>b, <1>1 DEF Record, JobOK, Listed
  <2>2. KitOK(e)'
    BY <1>0, <1>a, <1>1 DEF Record, KitOK, Kit, Legacy
  <2>3. (\A b \in Unmade(e) : b \notin temps /\ \A p \in Proc : b \notin jOld[p])'
    BY <1>0, <1>a, <1>b, <1>1, StepReach DEF Record, Unmade, Legacy, Parts, StepOK
  <2>4. QED BY <1>0, <1>1, <2>1, <2>2, <2>3 DEF Record, StepOK
<1>2. CASE Unrecord(e)
  <2>1. JobOK(e)'
    BY <1>0, <1>a, <1>b, <1>2 DEF Unrecord, JobOK, Listed
  <2>2. KitOK(e)'
    BY <1>0, <1>a, <1>b, <1>2 DEF Unrecord, KitOK, Kit, Legacy
  <2>3. (\A b \in Unmade(e) : b \notin temps /\ \A p \in Proc : b \notin jOld[p])'
    BY <1>0, <1>a, <1>b, <1>2, StepReach DEF Unrecord, Unmade, Legacy, Parts, StepOK
  <2>4. QED BY <1>0, <1>b, <1>2, <2>1, <2>2, <2>3 DEF Unrecord, StepOK
<1>3. CASE MakeRoot(e)
  <2> DEFINE R == <<e, "root">>  C == <<e, "container">>  P == <<e, "part">>  U == <<e, "unpack">>
  <2>1. /\ pc'[e] = "extracting" /\ gone'[e] = None /\ index'[e] = index[e] /\ ~Is(e, {"single"})
        /\ \/ /\ pc[e] = "opened" /\ mine'[e] = {R} /\ fresh'[e] = R /\ temps' = temps \cup {R}
           \/ /\ pc[e] = "decoded" /\ Legacy(e) /\ mine'[e] = {C, U} /\ fresh'[e] = U /\ temps' = temps \cup {U}
        /\ old' = old /\ jOld' = jOld
    <3>1. CASE At(e, "opened") /\ ~Is(e, {"single"}) /\ Create(e, R)
      BY <1>0, <1>b, <1>3, <3>1 DEF MakeRoot, Create, KitOK
    <3>2. CASE At(e, "decoded") /\ Create(e, U)
      <4>1. mine[e] = {C} /\ Legacy(e)
        BY <1>0, <1>b, <3>2 DEF KitOK, Kit
      <4>2. ~Is(e, {"single"})
        BY <4>1 DEF Legacy, Is
      <4>3. mine'[e] = {C, U} /\ fresh'[e] = U /\ temps' = temps \cup {U}
        BY <1>b, <3>2, <4>1 DEF Create
      <4>4. QED BY <1>b, <1>3, <3>2, <4>1, <4>2, <4>3 DEF MakeRoot
    <3>3. QED BY <1>3, <3>1, <3>2 DEF MakeRoot
  <2>2. Kit(e)' = mine'[e] /\ Legacy(e)' = Legacy(e)
    BY <1>a, <1>c, <2>1 DEF Kit, Legacy
  <2>3. JobOK(e)'
    BY <1>0, <1>a, <2>1 DEF JobOK
  <2>4. KitOK(e)'
    BY <1>a, <2>1, <2>2 DEF KitOK, Moves, Parts
  <2>5. /\ Unmade(e)' \subseteq Unmade(e)
        /\ \A b \in Unmade(e)' : b \in temps' => b \in temps
    BY <2>1, <2>2 DEF Unmade, Container, Parts
  <2>6. QED BY <1>0, <1>a, <1>b, <2>1, <2>3, <2>4, <2>5 DEF StepOK
<1>4. CASE NeedContainer(e)
  <2> DEFINE R == <<e, "root">>
  <2>1. /\ pc[e] = "extracting" /\ pc'[e] = "needContainer" /\ index'[e] = index[e] /\ fresh'[e] = None
        /\ gone'[e] = R /\ mine' = mine /\ jOld' = jOld /\ Legacy(e) /\ Container(e) \notin mine[e]
        /\ SecureRemove(R)
    BY <1>b, <1>4 DEF NeedContainer, Drop, Legacy
  <2>2. mine[e] = {R} /\ Kit(e)' = {} /\ Legacy(e)' = Legacy(e)
    <3>1. gone[e] = None
      BY <1>4 DEF NeedContainer
    <3>2. mine[e] = {R}
      BY <1>0, <1>b, <2>1, <3>1 DEF KitOK, Kit, Container
    <3>3. QED BY <1>a, <2>1, <3>2 DEF Kit, Legacy
  <2>3. JobOK(e)'
    BY <1>0, <1>a, <2>1 DEF JobOK, Legacy, Is
  <2>4. KitOK(e)'
    BY <1>a, <2>1, <2>2 DEF KitOK, Moves, Parts
  <2>5. Unmade(e)' = Unmade(e) /\ temps' \subseteq temps
    BY <1>0, <2>1, <2>2, RemoveType DEF Unmade
  <2>6. QED BY <1>0, <1>a, <1>b, <2>1, <2>2, <2>3, <2>4, <2>5 DEF StepOK, Moves
<1>5. CASE MakeContainer(e)
  <2> DEFINE C == <<e, "container">>
  <2>1. /\ pc[e] = "needContainer" /\ pc'[e] = "containerReady" /\ index'[e] = index[e] /\ gone'[e] = None
        /\ gone[e] = None /\ temps' = temps \cup {C} /\ mine'[e] = mine[e] \cup {C} /\ fresh'[e] = C
        /\ old' = old /\ jOld' = jOld
    BY <1>b, <1>5 DEF MakeContainer, Create, Container
  <2>2. mine[e] = {} /\ Legacy(e)
    BY <1>0, <1>b, <2>1 DEF KitOK, Kit
  <2>3. mine'[e] = {C} /\ Kit(e)' = {C} /\ Legacy(e)'
    BY <1>a, <1>c, <2>1, <2>2 DEF Kit, Legacy
  <2>4. JobOK(e)'
    BY <1>0, <1>a, <2>1, <2>2 DEF JobOK, Legacy, Is
  <2>5. KitOK(e)'
    BY <1>a, <2>1, <2>3 DEF KitOK, Moves, Parts
  <2>6. /\ Unmade(e)' \subseteq Unmade(e)
        /\ \A b \in Unmade(e)' : b \in temps' => b \in temps
    BY <2>1, <2>2, <2>3 DEF Unmade
  <2>7. QED BY <1>0, <1>a, <1>b, <2>1, <2>3, <2>4, <2>5, <2>6 DEF StepOK
<1>6. CASE MakePart(e)
  <2> DEFINE C == <<e, "container">>  P == <<e, "part">>
  <2>1. /\ pc'[e] = "decoding" /\ index'[e] = index[e] /\ gone'[e] = None /\ gone[e] = None
        /\ temps' = temps \cup {P} /\ mine'[e] = mine[e] \cup {P} /\ fresh'[e] = P
        /\ old' = old /\ jOld' = jOld
        /\ pc[e] = "containerReady" \/ (pc[e] = "opened" /\ Is(e, {"single"}))
    BY <1>b, <1>6 DEF MakePart, Create, Part
  <2>2. \/ pc[e] = "containerReady" /\ Legacy(e) /\ mine[e] = {C}
        \/ pc[e] = "opened" /\ Is(e, {"single"}) /\ mine[e] = {}
    BY <1>0, <1>b, <2>1 DEF KitOK, Kit
  <2>3. \/ pc[e] = "containerReady" /\ Legacy(e)' /\ mine'[e] = {C, P} /\ Kit(e)' = {C, P}
        \/ pc[e] = "opened" /\ Is(e, {"single"})' /\ mine'[e] = {P} /\ Kit(e)' = {P}
    BY <1>a, <1>c, <2>1, <2>2 DEF Kit, Legacy
  <2>4. JobOK(e)'
    BY <1>0, <1>a, <2>1, <2>2 DEF JobOK, Legacy, Is
  <2>5. KitOK(e)'
    BY <1>a, <2>1, <2>3 DEF KitOK, Moves, Parts
  <2>6. /\ Unmade(e)' \subseteq Unmade(e)
        /\ \A b \in Unmade(e)' : b \in temps' => b \in temps
    BY <1>a, <2>1, <2>2, <2>3 DEF Unmade, Legacy, Parts
  <2>7. P \in Unmade(e)
    BY <2>2 DEF Unmade, Parts
  <2>8. P \notin old'
    BY <1>0, <2>1, <2>7 DEF StepOK, Typed
  <2>9. QED BY <1>0, <1>a, <1>b, <2>1, <2>3, <2>4, <2>5, <2>6, <2>8 DEF StepOK, Part
<1>7. CASE Decode(e)
  <2>1. JobOK(e)'
    BY <1>0, <1>a, <1>b, <1>7 DEF Decode, JobOK
  <2>2. KitOK(e)'
    <3> DEFINE C == <<e, "container">>  P == <<e, "part">>
    <3>1. pc[e] = "decoding" /\ gone[e] = None /\ mine' = mine
      BY <1>7 DEF Decode
    <3>2. (Legacy(e) /\ mine[e] = {C, P}) \/ (Is(e, {"single"}) /\ mine[e] = {P})
      BY <1>0, <1>b, <3>1 DEF KitOK, Kit
    <3>3. \/ Is(e, {"single"}) /\ pc'[e] = "done" /\ gone'[e] = P
          \/ ~Is(e, {"single"}) /\ pc'[e] = "decoded" /\ gone'[e] = P
          \/ pc'[e] = "failing"
      BY <1>b, <1>7 DEF Decode, Part
    <3>4. \/ Is(e, {"single"})' /\ ~Legacy(e)' /\ pc'[e] = "done" /\ Kit(e)' = {} /\ mine'[e] = {P}
          \/ Legacy(e)' /\ pc'[e] = "decoded" /\ Kit(e)' = {C} /\ mine'[e] = {C, P}
          \/ pc'[e] = "failing"
      BY <1>a, <3>1, <3>2, <3>3 DEF Kit, Legacy, Is
    <3>5. QED BY <1>0, <1>a, <3>1, <3>4 DEF KitOK, Moves, Parts, Legacy
  <2>3. (\A b \in Unmade(e) : b \notin temps /\ \A p \in Proc : b \notin jOld[p])'
    BY <1>0, <1>a, <1>b, <1>7, StepReach DEF Decode, Container, Unmade, Legacy, StepOK
  <2>4. QED BY <1>0, <1>b, <1>7, <2>1, <2>2, <2>3 DEF Decode, Part, StepOK, KitOK, Kit, Moves
<1>8. CASE ExtractEntry(e)
  <2>1. JobOK(e)'
    BY <1>0, <1>a, <1>b, <1>8 DEF ExtractEntry, Root, Touch, JobOK, Listed
  <2>2. KitOK(e)'
    BY <1>0, <1>a, <1>8 DEF ExtractEntry, KitOK, Kit, Legacy
  <2>3. (\A b \in Unmade(e) : b \notin temps /\ \A p \in Proc : b \notin jOld[p])'
    BY <1>a, <1>8 DEF ExtractEntry, Unmade, Legacy
  <2>4. QED BY <1>8, <2>1, <2>2, <2>3 DEF ExtractEntry, StepOK
<1>9. CASE Verify(e)
  <2>1. JobOK(e)'
    BY <1>0, <1>a, <1>b, <1>9 DEF Verify, Container, JobOK, Listed
  <2>2. KitOK(e)'
    BY <1>0, <1>a, <1>b, <1>9 DEF Verify, Container, KitOK, Kit, Legacy, Moves
  <2>3. (\A b \in Unmade(e) : b \notin temps /\ \A p \in Proc : b \notin jOld[p])'
    BY <1>b, <1>9 DEF Verify, Unmade
  <2>4. QED BY <1>9, <2>1, <2>2, <2>3 DEF Verify, StepOK
<1>10. CASE DropContainer(e)
  <2>1. JobOK(e)'
    BY <1>0, <1>a, <1>b, <1>10 DEF DropContainer, Drop, Container, JobOK, Listed
  <2>2. KitOK(e)'
    BY <1>0, <1>a, <1>b, <1>10 DEF DropContainer, Drop, Container, KitOK, Kit, Legacy
  <2>3. (\A b \in Unmade(e) : b \notin temps /\ \A p \in Proc : b \notin jOld[p])'
    BY <1>10 DEF DropContainer, Unmade
  <2>4. QED BY <1>0, <1>b, <1>10, <2>1, <2>2, <2>3 DEF DropContainer, Container, StepOK, KitOK, Kit, Moves
<1>11. CASE MakeOutput(e)
  <2>1. JobOK(e)'
    BY <1>0, <1>a, <1>b, <1>11 DEF MakeOutput, Place, Delivering, JobOK, Listed
  <2>2. KitOK(e)'
    BY <1>0, <1>a, <1>b, <1>11 DEF MakeOutput, Place, KitOK, Kit, Legacy
  <2>3. (\A b \in Unmade(e) : b \notin temps /\ \A p \in Proc : b \notin jOld[p])'
    BY <1>b, <1>11 DEF MakeOutput, Unmade
  <2>4. QED BY <1>b, <1>11, <2>1, <2>2, <2>3 DEF MakeOutput, StepOK
<1>12. CASE Check(e)
  <2>1. JobOK(e)'
    BY <1>0, <1>a, <1>b, <1>12 DEF Check, JobOK, Listed
  <2>2. KitOK(e)'
    BY <1>0, <1>a, <1>12 DEF Check, KitOK, Kit, Legacy, Moves
  <2>3. (\A b \in Unmade(e) : b \notin temps /\ \A p \in Proc : b \notin jOld[p])'
    BY <1>0, <1>a, <1>b, <1>12, StepReach DEF Check, Unmade, Legacy, Parts, StepOK
  <2>4. QED BY <1>12, <2>1, <2>2, <2>3 DEF Check, StepOK
<1>13. CASE Move(e)
  <2>1. JobOK(e)'
    BY <1>0, <1>a, <1>b, <1>13 DEF Move, NextEntry, JobOK, Listed
  <2>2. KitOK(e)'
    BY <1>0, <1>a, <1>13 DEF Move, NextEntry, KitOK, Kit, Legacy, Moves
  <2>3. (\A b \in Unmade(e) : b \notin temps /\ \A p \in Proc : b \notin jOld[p])'
    BY <1>13 DEF Move, NextEntry, Unmade
  <2>4. QED BY <1>13, <2>1, <2>2, <2>3 DEF Move, NextEntry, StepOK
<1>14. CASE StartCopy(e)
  <2>1. JobOK(e)'
    BY <1>0, <1>a, <1>b, <1>14 DEF StartCopy, JobOK, Listed
  <2>2. KitOK(e)'
    BY <1>0, <1>a, <1>14 DEF StartCopy, KitOK, Kit, Legacy, Moves
  <2>3. (\A b \in Unmade(e) : b \notin temps /\ \A p \in Proc : b \notin jOld[p])'
    BY <1>0, <1>a, <1>b, <1>14, StepReach DEF StartCopy, Unmade, Legacy, Parts, StepOK
  <2>4. QED BY <1>14, <2>1, <2>2, <2>3 DEF StartCopy, StepOK
<1>15. CASE EndCopy(e)
  <2>1. JobOK(e)'
    BY <1>0, <1>a, <1>b, <1>15 DEF EndCopy, NextEntry, JobOK, Listed
  <2>2. KitOK(e)'
    BY <1>0, <1>a, <1>15 DEF EndCopy, NextEntry, KitOK, Kit, Legacy, Moves
  <2>3. (\A b \in Unmade(e) : b \notin temps /\ \A p \in Proc : b \notin jOld[p])'
    BY <1>15 DEF EndCopy, NextEntry, Unmade
  <2>4. QED BY <1>15, <2>1, <2>2, <2>3 DEF EndCopy, NextEntry, StepOK
<1>16. CASE Fail(e)
  <2>1. JobOK(e)'
    BY <1>0, <1>a, <1>b, <1>16 DEF Fail, Delivering, JobOK, Listed
  <2>2. KitOK(e)'
    BY <1>0, <1>a, <1>b, <1>16 DEF Fail, Delivering, KitOK, Kit, Legacy, Moves
  <2>3. (\A b \in Unmade(e) : b \notin temps /\ \A p \in Proc : b \notin jOld[p])'
    BY <1>b, <1>16 DEF Fail, Unmade
  <2>4. QED BY <1>b, <1>16, <2>1, <2>2, <2>3 DEF Fail, StepOK
<1>17. CASE Undo(e)
  <2>1. JobOK(e)'
    BY <1>0, <1>a, <1>b, <1>17 DEF Undo, JobOK, Listed
  <2>2. KitOK(e)'
    BY <1>0, <1>a, <1>17 DEF Undo, KitOK, Kit, Legacy
  <2>3. (\A b \in Unmade(e) : b \notin temps /\ \A p \in Proc : b \notin jOld[p])'
    BY <1>0, <1>a, <1>b, <1>17, StepReach DEF Undo, Unmade, Legacy, Parts, StepOK
  <2>4. QED BY <1>17, <2>1, <2>2, <2>3 DEF Undo, StepOK
<1>18. CASE EndMove(e)
  <2>1. JobOK(e)'
    BY <1>0, <1>a, <1>18 DEF EndMove, JobOK
  <2>2. KitOK(e)'
    BY <1>0, <1>a, <1>b, <1>18 DEF EndMove, Drop, Root, KitOK, Kit, Legacy, Moves
  <2>3. (\A b \in Unmade(e) : b \notin temps /\ \A p \in Proc : b \notin jOld[p])'
    BY <1>18 DEF EndMove, Unmade
  <2>4. QED BY <1>0, <1>a, <1>b, <1>18, <2>1, <2>3 DEF EndMove, Drop, Root, Delivering, StepOK, KitOK, Kit, Legacy,
     Moves, Parts
<1>19. CASE EndDelivery(e)
  <2>1. JobOK(e)'
    BY <1>0, <1>a, <1>b, <1>19 DEF EndDelivery, Delivering, Root, JobOK, Listed
  <2>2. KitOK(e)'
    BY <1>0, <1>a, <1>b, <1>19 DEF EndDelivery, Delivering, Root, KitOK, Kit, Legacy, Moves
  <2>3. (\A b \in Unmade(e) : b \notin temps /\ \A p \in Proc : b \notin jOld[p])'
    BY <1>b, <1>19 DEF EndDelivery, Unmade
  <2>4. QED BY <1>b, <1>19, <2>1, <2>2, <2>3 DEF EndDelivery, StepOK
<1>20. CASE ClearPreview(e)
  <2>1. JobOK(e)'
    BY <1>0, <1>a, <1>b, <1>20 DEF ClearPreview, JobOK, Listed
  <2>2. KitOK(e)'
    BY <1>0, <1>a, <1>20 DEF ClearPreview, KitOK, Kit, Legacy, Moves
  <2>3. (\A b \in Unmade(e) : b \notin temps /\ \A p \in Proc : b \notin jOld[p])'
    BY <1>0, <1>a, <1>b, <1>20, StepReach DEF ClearPreview, Unmade, Legacy, Parts, StepOK
  <2>4. QED BY <1>20, <2>1, <2>2, <2>3 DEF ClearPreview, StepOK
<1>21. CASE Discard(e)
  <2>1. JobOK(e)'
    BY <1>0, <1>a, <1>b, <1>21, DiscardStep DEF JobOK, Listed, Is
  <2>2. KitOK(e)'
    BY <1>0, <1>a, <1>b, <1>21, DiscardStep DEF KitOK, Kit, Legacy, Moves
  <2>3. (\A b \in Unmade(e) : b \notin temps /\ \A p \in Proc : b \notin jOld[p])'
    BY <1>0, <1>a, <1>b, <1>21, DiscardStep DEF Unmade, Legacy
  <2>4. QED BY <1>0, <1>a, <1>b, <1>21, <2>1, <2>2, <2>3, DiscardStep DEF StepOK, Moves
<1>22. QED
  BY <1>1, <1>2, <1>3, <1>4, <1>5, <1>6, <1>7, <1>8, <1>9, <1>10, <1>11, <1>12, <1>13, <1>14, <1>15, <1>16, <1>17,
     <1>18, <1>19, <1>20, <1>21 DEF Step

LEMMA StepOther ==
  ASSUME StepInv, NEW z \in Ext,
         \/ \E e \in Ext : \E j \in Choices[e] : Begin(e, j)
         \/ \E p \in Proc : Cleanup(p) \/ Crash(p)
         \/ \E a \in Artifact : Age(a) \/ LoseRecord(a)
  PROVE  StepOK(z)'
<1> USE DEF At, Running, Go, extVars, ownVars, places, janVars, histVars
<1>0. Typed /\ StepOK(z) /\ Runs \in [Ext -> Proc]
  BY ExtractAssumption DEF StepInv
<1>1. ASSUME NEW e \in Ext, NEW j \in Choices[e], Begin(e, j) PROVE StepOK(z)'
  <2>1. CASE z = e
    <3>1. /\ pc[e] = "idle" /\ pc'[e] \in {"opened", "refused"} /\ job'[e] = j
          /\ up'[Runs[e]] = "up" /\ fresh'[e] = None /\ gone'[e] = None /\ gone[e] = None
          /\ UNCHANGED <<index, mine, temps, old, jOld>>
      BY <1>0, <1>1 DEF Begin, Typed
    <3>2. j \in Choices[e] /\ j # None
      BY ExtractAssumption
    <3>3. mine[e] = {} /\ index[e] = 1
      BY <1>0, <2>1, <3>1 DEF StepOK, JobOK, KitOK
    <3>4. JobOK(e)'
      BY <3>1, <3>2, <3>3 DEF JobOK
    <3>5. KitOK(e)'
      BY <3>1, <3>3 DEF KitOK, Moves
    <3>6. Unmade(e)' = Unmade(e)
      BY <3>1 DEF Unmade
    <3>7. QED BY <1>0, <2>1, <3>1, <3>3, <3>4, <3>5, <3>6 DEF StepOK
  <2>2. CASE z # e
    BY <1>0, <1>1, <2>2, StepFrame DEF Begin, Typed
  <2>3. QED BY <2>1, <2>2
<1>2. ASSUME NEW p \in Proc, StartCleanup(p) PROVE StepOK(z)'
  <2>1. \/ Runs[z] # p
        \/ up[p] = "new" /\ pc[z] = "idle"
        \/ up[p] = "up"
    BY <1>0, <1>2 DEF StartCleanup, StepOK
  <2>2. up' = [up EXCEPT ![p] = "up"] /\ UNCHANGED <<extVars, ownVars, temps, old, jOld>>
    BY <1>2 DEF StartCleanup
  <2>3. /\ Running(z, "decoding")' => Running(z, "decoding")
        /\ up'[Runs[z]] = "new" => up[Runs[z]] = "new"
    BY <1>0, <2>1, <2>2 DEF Typed
  <2>4. QED BY <1>0, <2>2, <2>3, StepFrame
<1>3. ASSUME NEW p \in Proc, NEW a \in Artifact, RemoveRecorded(p, a) PROVE StepOK(z)'
  <2>1. temps' \subseteq temps /\ old' \subseteq old
    BY <1>0, <1>3, RemoveType DEF RemoveRecorded
  <2>2. UNCHANGED <<extVars, ownVars, up, jOld>>
    BY <1>3 DEF RemoveRecorded
  <2>3. QED BY <1>0, <2>1, <2>2, StepFrame
<1>4. ASSUME NEW p \in Proc, StartSweep(p) PROVE StepOK(z)'
  <2>1. UNCHANGED <<extVars, ownVars, up, temps, old>> /\ jOld' = [jOld EXCEPT ![p] = Sweepable(p)]
    BY <1>4 DEF StartSweep
  <2>2. \A a : \A q \in Proc : a \in jOld'[q] => a \in jOld[q] \cup temps
    BY <1>0, <2>1 DEF Sweepable, Typed
  <2>3. QED BY <1>0, <2>1, <2>2, StepFrame
<1>5. ASSUME NEW p \in Proc, NEW a \in Artifact, Sweep(p, a) PROVE StepOK(z)'
  <2>1. UNCHANGED <<extVars, ownVars, up>> /\ \A q \in Proc : jOld'[q] \subseteq jOld[q]
    BY <1>0, <1>5 DEF Sweep, Typed
  <2>2. temps' \subseteq temps /\ old' \subseteq old
    BY <1>0, <1>5, RemoveType DEF Sweep
  <2>3. QED BY <1>0, <2>1, <2>2, StepFrame
<1>6. ASSUME NEW p \in Proc, EndCleanup(p) PROVE StepOK(z)'
  BY <1>0, <1>6, StepFrame DEF EndCleanup
<1>7. ASSUME NEW p \in Proc, Crash(p) PROVE StepOK(z)'
  <2>1. /\ UNCHANGED <<extVars, ownVars, temps, old>> /\ up' = [up EXCEPT ![p] = "dead"]
        /\ \A q \in Proc : jOld'[q] \subseteq jOld[q]
    BY <1>0, <1>7 DEF Crash, Typed
  <2>2. /\ Running(z, "decoding")' => Running(z, "decoding")
        /\ up'[Runs[z]] = "new" => up[Runs[z]] = "new"
    BY <1>0, <2>1 DEF Typed
  <2>3. QED BY <1>0, <2>1, <2>2, StepFrame
<1>8. ASSUME NEW a \in Artifact, Age(a) PROVE StepOK(z)'
  <2>1. UNCHANGED <<extVars, ownVars, temps, jOld, up>> /\ old' = old \cup {a}
        /\ ~(Running(a[1], "decoding") /\ a[2] = "part")
    BY <1>8 DEF Age
  <2>2. Running(z, "decoding") => Part(z) # a
    BY <2>1 DEF Part
  <2>3. QED BY <1>0, <2>1, <2>2, StepFrame
<1>9. ASSUME NEW a \in Artifact, LoseRecord(a) PROVE StepOK(z)'
  BY <1>0, <1>9, StepFrame DEF LoseRecord
<1>10. QED BY <1>1, <1>2, <1>3, <1>4, <1>5, <1>6, <1>7, <1>8, <1>9 DEF Cleanup

LEMMA StepInvariant == Spec => []StepInv
<1>1. ASSUME StepInv, Next PROVE StepInv'
  <2>1. CASE \E e \in Ext : Step(e)
    <3>1. PICK e \in Ext : Step(e)
      BY <2>1
    <3>2. ASSUME NEW z \in Ext, z # e PROVE StepOK(z)'
      <4>1. StepOK(z)
        BY <1>1 DEF StepInv
      <4>2. old' \subseteq old /\ \A p \in Proc : jOld'[p] \subseteq jOld[p]
        BY <1>1, <3>1, StepReach
      <4>3. \A a : a[1] = z /\ a \in temps' => a \in temps
        BY <1>1, <3>1, <3>2, StepReach
      <4>4. /\ job' = job /\ up' = up /\ pc'[z] = pc[z] /\ index'[z] = index[z]
            /\ mine'[z] = mine[z] /\ fresh'[z] = fresh[z] /\ gone'[z] = gone[z]
        BY <1>1, <3>1, <3>2, StepReach
      <4>5. Running(z, "decoding")' => Running(z, "decoding")
        BY <4>4 DEF Running
      <4>6. QED BY <4>1, <4>2, <4>3, <4>4, <4>5, StepFrame
    <3>3. QED BY <1>1, <3>1, <3>2, StepOwn, TypedStep DEF StepInv
  <2>2. CASE \/ \E e \in Ext : \E j \in Choices[e] : Begin(e, j)
             \/ \E p \in Proc : Cleanup(p) \/ Crash(p)
             \/ \E a \in Artifact : Age(a) \/ LoseRecord(a)
    BY <1>1, <2>2, StepOther, TypedOther DEF StepInv
  <2>3. QED BY <1>1, <2>1, <2>2 DEF Next
<1>2. ASSUME StepInv, UNCHANGED vars PROVE StepInv'
  <2>1. Typed'
    BY <1>2 DEF StepInv, Typed, vars, extVars, ownVars, places, janVars, histVars
  <2>2. ASSUME NEW z \in Ext PROVE StepOK(z)'
    <3>1. StepOK(z) /\ UNCHANGED <<extVars, ownVars, up, temps, old, jOld>>
      BY <1>2 DEF StepInv, vars, janVars
    <3>2. QED BY <3>1, StepFrame DEF extVars, ownVars, Running
  <2>3. QED BY <2>1, <2>2 DEF StepInv
<1>3. QED BY <1>1, <1>2, StepInit, PTL DEF Spec

LEMMA TypeOf == StepInv => TypeOK
<1> SUFFICES ASSUME StepInv PROVE TypeOK
  OBVIOUS
<1>1. ASSUME NEW e \in Ext
      PROVE  /\ job[e] \in Choices[e] \cup {None}
             /\ mine[e] \subseteq {e} \X {"root", "container", "part", "unpack"}
             /\ fresh[e] \in mine[e] \cup {None} /\ gone[e] \in mine[e] \cup {None}
             /\ committed[e] \subseteq Entry /\ staged[e] \subseteq Entry
  BY DEF StepInv, Typed, StepOK, JobOK, KitOK, Parts
<1>2. QED BY <1>1 DEF StepInv, Typed, TypeOK

\* An extraction's bookkeeping keeps its form: what it answers for, has just
\* created or has just removed are artifacts of its own, only an entry someone
\* put there is incomplete, and only what exists ages.
THEOREM TypeCorrect == Spec => []TypeOK
BY StepInvariant, TypeOf, PTL

\* An artifact of an extraction at work.
Live(a) == up[Runs[a[1]]] = "up" /\ a \in Kit(a[1])

\* What a clean-up takes for a dead process's is one's.
DeadOnly ==
  /\ \A a \in recorded : up[Runs[a[1]]] # "new"
  /\ \A p \in Proc : \A a \in jTodo[p] : up[Runs[a[1]]] = "dead"
\* What an extraction answers for is on record, from the step after its creation.
Registered == \A e \in Ext : up[Runs[e]] = "up" => \A a \in mine[e] : a \in recorded \cup lost \/ fresh[e] = a
GoneOrStuck == \A e \in Ext : gone[e] \in temps => gone[e] \in stuck
FreshIsYoung == \A a \in old : fresh[a[1]] # a
\* The clean-ups' sets hold an artifact at work only if its record was lost: when
\* the registries are read, whatever is an hour old and at work is remembered.
Spared ==
  /\ \A p \in Proc : jpc[p] = "registry" => \A a \in old : Live(a) => a \in jSafe[p] \cup lost
  /\ \A p \in Proc : \A a \in jOld[p] : Live(a) => a \in lost

RecordInv ==
  /\ DeadOnly /\ Registered /\ GoneOrStuck /\ FreshIsYoung /\ Spared
  /\ WorkKept /\ PlaintextOnRecord

LEMMA RecordInit == Init => RecordInv
BY DEF Init, RecordInv, DeadOnly, Registered, GoneOrStuck, FreshIsYoung, Spared, WorkKept, PlaintextOnRecord

\* The artifacts of an extraction are its own.
LEMMA Own ==
  ASSUME StepInv, NEW e \in Ext
  PROVE  /\ \A a \in mine[e] : a \in Artifact /\ a[1] = e
         /\ fresh[e] # None => fresh[e] \in mine[e]
         /\ gone[e] # None => gone[e] \in mine[e]
         /\ None \notin Artifact
         /\ up[Runs[e]] = "new" => mine[e] = {}
         /\ \A a \in Unmade(e) : a \in Artifact /\ a[1] = e
<1>1. StepOK(e) /\ JobOK(e) /\ KitOK(e) /\ mine[e] \subseteq Artifact
  BY DEF StepInv, Typed, StepOK
<1>2. mine[e] \subseteq {e} \X Parts
  BY <1>1 DEF KitOK, Parts
<1>3. Unmade(e) \subseteq {e} \X Parts
  BY DEF Unmade, Parts
<1>4. {e} \X Parts \subseteq Artifact
  BY DEF Artifact, Parts
<1>5. up[Runs[e]] = "new" => mine[e] = {}
  BY <1>1 DEF StepOK, KitOK
<1>6.  \A a \in {e} \X Parts : a[1] = e
  OBVIOUS
<1>7. QED BY <1>1, <1>2, <1>3, <1>4, <1>5, <1>6, ArtifactFacts DEF StepOK

\* A step that touches no record and no artifact at work.
LEMMA RecordKept ==
  ASSUME RecordInv, UNCHANGED <<mine, fresh, gone, temps, recorded, up, jTodo, lost>>,
         old' \subseteq old, stuck \subseteq stuck',
         \A p \in Proc : /\ jOld'[p] \subseteq jOld[p]
                         /\ jpc'[p] = "registry" => jpc[p] = "registry" /\ jSafe'[p] = jSafe[p]
  PROVE  RecordInv'
<1> USE DEF RecordInv
<1>1. DeadOnly' /\ Registered'
  BY DEF DeadOnly, Registered
<1>2. GoneOrStuck' /\ FreshIsYoung'
  BY DEF GoneOrStuck, FreshIsYoung
<1>3. Spared'
  BY DEF Spared, Live, Kit
<1>4. WorkKept' /\ PlaintextOnRecord'
  BY DEF WorkKept, PlaintextOnRecord
<1>5. QED BY <1>1, <1>2, <1>3, <1>4

LEMMA RecordCreate ==
  ASSUME StepInv, RecordInv, NEW e \in Ext, NEW a \in Unmade(e), Create(e, a),
         up[Runs[e]] = "up", fresh[e] = None, gone[e] = None,
         UNCHANGED <<gone, recorded, old, jpc, jTodo, jSafe, jOld, up, lost, stuck>>
  PROVE  RecordInv'
<1> USE DEF RecordInv
<1>1. /\ mine' = [mine EXCEPT ![e] = @ \cup {a}] /\ temps' = temps \cup {a} /\ fresh' = [fresh EXCEPT ![e] = a]
      /\ mine \in [Ext -> SUBSET Artifact] /\ fresh \in [Ext -> Artifact \cup {None}] /\ a # None
      /\ a \in Artifact /\ a[1] = e /\ a \notin old /\ \A p \in Proc : a \notin jOld[p]
  BY Own DEF Create, StepInv, Typed, StepOK
<1>2. DeadOnly'
  BY DEF DeadOnly
<1>3. Registered'
  BY <1>1, Own DEF Registered
<1>4. GoneOrStuck'
  <2>1. \A z \in Ext : gone[z] # a
    BY <1>1, Own
  <2>2. QED BY <1>1, <2>1 DEF GoneOrStuck
<1>5. FreshIsYoung'
  BY <1>1, ArtifactFacts DEF FreshIsYoung, StepInv, Typed
<1>6. Spared'
  <2>1. \A b \in Artifact : b # a /\ Live(b)' => Live(b)
    BY <1>1, ArtifactFacts DEF Live, Kit
  <2>2. old \subseteq Artifact /\ \A p \in Proc : jOld[p] \subseteq Artifact
    BY DEF StepInv, Typed
  <2>3. QED BY <1>1, <2>1, <2>2 DEF Spared
<1>7. WorkKept'
  BY <1>1 DEF WorkKept
<1>8. PlaintextOnRecord'
  BY <1>1, ArtifactFacts DEF PlaintextOnRecord, StepInv, Typed
<1>9. QED BY <1>2, <1>3, <1>4, <1>5, <1>6, <1>7, <1>8

LEMMA RecordDrop ==
  ASSUME StepInv, RecordInv, NEW e \in Ext, NEW a \in mine[e], SecureRemove(a),
         gone[e] = None, gone' = [gone EXCEPT ![e] = a],
         UNCHANGED <<mine, fresh, recorded, jpc, jTodo, jSafe, jOld, up, lost>>
  PROVE  RecordInv'
<1> USE DEF RecordInv
<1>1. /\ temps' \subseteq temps /\ old' \subseteq old /\ stuck \subseteq stuck' /\ (a \in temps' => a \in stuck')
      /\ \A b : b # a /\ b \in temps => b \in temps'
  BY RemoveType DEF StepInv
<1>2. /\ gone \in [Ext -> Artifact \cup {None}] /\ a \in Artifact /\ a[1] = e
      /\ \A z \in Ext : z # e => a \notin mine[z] /\ gone[z] # a
  BY Own DEF StepInv, Typed
<1>3. DeadOnly' /\ Registered' /\ FreshIsYoung'
  BY <1>1 DEF DeadOnly, Registered, FreshIsYoung
<1>4. GoneOrStuck'
  BY <1>1, <1>2 DEF GoneOrStuck
<1>5. Spared'
  <2>1. \A b : b[1] \in Ext /\ Live(b)' => Live(b)
    BY <1>2, Own DEF Live, Kit
  <2>2. \A b \in old : b[1] \in Ext
    BY ArtifactFacts DEF StepInv, Typed
  <2>3. \A p \in Proc : \A b \in jOld[p] : b[1] \in Ext
    BY ArtifactFacts DEF StepInv, Typed
  <2>4. QED BY <1>1, <2>1, <2>2, <2>3 DEF Spared
<1>6. WorkKept'
  <2>1. \A b \in mine[e] : gone[e] # b
    BY Own
  <2>2. ASSUME NEW z \in Ext, NEW b \in mine[z], up[Runs[z]] = "up", gone'[z] # b PROVE b \in temps' \cup lost
    <3>1. b # a /\ gone[z] # b
      BY <1>2, <2>1, <2>2
    <3>2. QED BY <1>1, <2>2, <3>1 DEF WorkKept
  <2>3. QED BY <2>2 DEF WorkKept
<1>7. PlaintextOnRecord'
  BY <1>1 DEF PlaintextOnRecord
<1>8. QED BY <1>3, <1>4, <1>5, <1>6, <1>7

LEMMA RecordForget ==
  ASSUME StepInv, RecordInv, NEW e \in Ext, NEW a,
         gone[e] = None, mine' = [mine EXCEPT ![e] = @ \ {a}],
         UNCHANGED <<temps, old, stuck, gone, fresh, recorded, jpc, jTodo, jSafe, jOld, up, lost>>
  PROVE  RecordInv'
<1> USE DEF RecordInv
<1>1. \A z \in Ext : mine'[z] \subseteq mine[z]
  BY DEF StepInv, Typed
<1>2. DeadOnly' /\ Registered' /\ FreshIsYoung' /\ GoneOrStuck'
  BY <1>1 DEF DeadOnly, Registered, FreshIsYoung, GoneOrStuck
<1>3. Spared'
  <2>1. \A b : b[1] \in Ext /\ Live(b)' => Live(b)
    BY <1>1 DEF Live, Kit
  <2>2. \A b \in old : b[1] \in Ext
    BY ArtifactFacts DEF StepInv, Typed
  <2>3. \A p \in Proc : \A b \in jOld[p] : b[1] \in Ext
    BY ArtifactFacts DEF StepInv, Typed
  <2>4. QED BY <1>1, <2>1, <2>2, <2>3 DEF Spared
<1>4. WorkKept' /\ PlaintextOnRecord'
  BY <1>1 DEF WorkKept, PlaintextOnRecord
<1>5. QED BY <1>2, <1>3, <1>4

LEMMA RecordStep ==
  ASSUME StepInv, RecordInv, NEW e \in Ext, Step(e)
  PROVE  RecordInv'
<1> USE DEF At, Running, extVars, ownVars, places, janVars, histVars
<1>0. Typed /\ StepOK(e) /\ KitOK(e)
  BY DEF StepInv, StepOK
<1>1. CASE Record(e)
  <2>1. /\ up[Runs[e]] = "up" /\ recorded' = recorded \cup {fresh[e]} /\ fresh' = [fresh EXCEPT ![e] = None]
        /\ UNCHANGED <<mine, gone, temps, old, jpc, jTodo, jSafe, jOld, up, lost, stuck>>
    BY <1>1 DEF Record
  <2>2. fresh[e] \in mine[e] /\ fresh[e][1] = e /\ fresh \in [Ext -> Artifact \cup {None}]
    BY <1>0, <1>1, Own DEF Record, Typed
  <2>3. DeadOnly' /\ Registered'
    BY <2>1, <2>2 DEF RecordInv, DeadOnly, Registered
  <2>4. GoneOrStuck' /\ Spared' /\ WorkKept'
    BY <2>1 DEF RecordInv, GoneOrStuck, Spared, Live, Kit, WorkKept
  <2>5. FreshIsYoung' /\ PlaintextOnRecord'
    BY <1>0, <2>1, <2>2, ArtifactFacts DEF RecordInv, FreshIsYoung, PlaintextOnRecord, Typed
  <2>6. QED BY <2>3, <2>4, <2>5 DEF RecordInv
<1>2. CASE Unrecord(e)
  <2>1. /\ recorded' = recorded \ {gone[e]} /\ mine' = [mine EXCEPT ![e] = @ \ {gone[e]}]
        /\ gone' = [gone EXCEPT ![e] = None]
        /\ UNCHANGED <<fresh, temps, old, jpc, jTodo, jSafe, jOld, up, lost, stuck>>
    BY <1>2 DEF Unrecord
  <2>2. /\ gone[e] \in mine[e] /\ mine \in [Ext -> SUBSET Artifact] /\ gone \in [Ext -> Artifact \cup {None}]
        /\ \A z \in Ext : z # e => gone[e] \notin mine[z]
    BY <1>0, <1>2, Own DEF Unrecord, Typed
  <2>3. DeadOnly' /\ Registered' /\ FreshIsYoung'
    BY <2>1, <2>2 DEF RecordInv, DeadOnly, Registered, FreshIsYoung
  <2>4. GoneOrStuck'
    BY <1>0, <2>1, <2>2, ArtifactFacts DEF RecordInv, GoneOrStuck, Typed
  <2>5. Spared'
    <3>1. \A z \in Ext : Kit(z)' \subseteq Kit(z)
      BY <2>1, <2>2 DEF Kit
    <3>2. \A b : b[1] \in Ext /\ Live(b)' => Live(b)
      BY <2>1, <3>1 DEF Live
    <3>3. \A b \in old : b[1] \in Ext
      BY <1>0, ArtifactFacts DEF Typed
    <3>4. \A p \in Proc : \A b \in jOld[p] : b[1] \in Ext
      BY <1>0, ArtifactFacts DEF Typed
    <3>5. QED BY <2>1, <3>2, <3>3, <3>4 DEF RecordInv, Spared
  <2>6. WorkKept'
    BY <2>1, <2>2 DEF RecordInv, WorkKept
  <2>7. PlaintextOnRecord'
    BY <2>1 DEF RecordInv, PlaintextOnRecord, GoneOrStuck
  <2>8. QED BY <2>3, <2>4, <2>5, <2>6, <2>7 DEF RecordInv
<1>3. CASE MakeRoot(e)
  <2>1. /\ \E k \in Parts : Create(e, <<e, k>>) /\ <<e, k>> \in Unmade(e)
        /\ up[Runs[e]] = "up" /\ fresh[e] = None /\ gone[e] = None
        /\ UNCHANGED <<gone, recorded, old, jpc, jTodo, jSafe, jOld, up, lost, stuck>>
    <3>1. CASE At(e, "opened") /\ Create(e, <<e, "root">>)
      BY <1>3, <3>1 DEF MakeRoot, Unmade, Parts
    <3>2. CASE At(e, "decoded") /\ Create(e, <<e, "unpack">>)
      BY <1>0, <1>3, <3>2 DEF MakeRoot, Unmade, Parts, KitOK
    <3>3. QED BY <1>3, <3>1, <3>2 DEF MakeRoot
  <2>2. QED BY <2>1, RecordCreate
<1>4. CASE NeedContainer(e)
  <2>1. <<e, "root">> \in mine[e]
    BY <1>0, <1>4 DEF NeedContainer, KitOK, Kit, Container
  <2>2. QED BY <1>4, <2>1, RecordDrop DEF NeedContainer, Drop
<1>5. CASE MakeContainer(e)
  <2>1. Container(e) \in Unmade(e)
    BY <1>0, <1>5 DEF MakeContainer, KitOK, Unmade, Container
  <2>2. QED BY <1>5, <2>1, RecordCreate DEF MakeContainer
<1>6. CASE MakePart(e)
  <2>1. Part(e) \in Unmade(e)
    BY <1>0, <1>6 DEF MakePart, KitOK, Unmade, Part, Parts
  <2>2. QED BY <1>6, <2>1, RecordCreate DEF MakePart
<1>7. CASE Decode(e)
  <2>1. CASE ~Intact(e)
    BY <1>7, <2>1, RecordKept DEF Decode
  <2>2. CASE Intact(e)
    <3>1. /\ pc[e] = "decoding" /\ up[Runs[e]] = "up" /\ fresh[e] = None /\ gone[e] = None
          /\ gone' = [gone EXCEPT ![e] = Part(e)]
          /\ UNCHANGED <<mine, fresh, recorded, up, jpc, jTodo, jSafe, lost, stuck>>
          /\ \/ temps' = temps \ {Part(e)} /\ UNCHANGED <<old, jOld>>
             \/ /\ ~Is(e, {"single"}) /\ temps' = (temps \ {Part(e)}) \cup {Container(e)}
                /\ old' = old \ {Container(e)} /\ jOld' = [p \in Proc |-> jOld[p] \ {Container(e)}]
      BY <1>7, <2>2 DEF Decode, Touch
    <3>2. /\ Part(e) \in mine[e] /\ Part(e) # Container(e) /\ Part(e) \in Artifact /\ Part(e)[1] = e
          /\ ~Is(e, {"single"}) => Container(e) \in mine[e]
      BY <1>0, <3>1, Own DEF KitOK, Kit, Part, Container
    <3>3. \A z \in Ext : z # e => gone[z] # Container(e) /\ Part(e) \notin mine[z]
      <4>1. Container(e) \in Artifact /\ Container(e)[1] = e
        BY ArtifactFacts DEF Container, Parts
      <4>2. QED BY <3>2, <4>1, Own
    <3>4. gone \in [Ext -> Artifact \cup {None}] /\ old' \subseteq old /\ (\A p \in Proc : jOld'[p] \subseteq jOld[p])
          /\ Part(e) \notin temps' /\ \A b : b # Part(e) /\ b \in temps => b \in temps'
      BY <1>0, <3>1, <3>2 DEF Typed
    <3>5. DeadOnly' /\ Registered' /\ FreshIsYoung'
      BY <3>1, <3>4 DEF RecordInv, DeadOnly, Registered, FreshIsYoung
    <3>6. GoneOrStuck'
      BY <3>1, <3>2, <3>3, <3>4 DEF RecordInv, GoneOrStuck
    <3>7. Spared'
      <4>1. \A z \in Ext : Kit(z)' \subseteq Kit(z)
        <5>1. ASSUME NEW z \in Ext PROVE Kit(z)' \subseteq Kit(z)
          <6>1. CASE z = e
            <7>1. None \notin mine[e]
              BY Own
            <7>2. QED BY <3>1, <6>1, <7>1 DEF Kit
          <6>2. CASE z # e
            BY <3>1, <3>4, <6>2 DEF Kit
          <6>3. QED BY <6>1, <6>2
        <5>2. QED BY <5>1
      <4>2. \A b : b[1] \in Ext /\ Live(b)' => Live(b)
        BY <3>1, <4>1 DEF Live
      <4>3. \A b \in old : b[1] \in Ext
        BY <1>0, ArtifactFacts DEF Typed
      <4>4. \A p \in Proc : \A b \in jOld[p] : b[1] \in Ext
        BY <1>0, ArtifactFacts DEF Typed
      <4>5. QED BY <3>1, <3>4, <4>2, <4>3, <4>4 DEF RecordInv, Spared
    <3>8. WorkKept'
      <4>1. \A b \in mine[e] : gone[e] # b
        BY <3>1, Own
      <4>2. ASSUME NEW z \in Ext, NEW b \in mine[z], up[Runs[z]] = "up", gone'[z] # b PROVE b \in temps' \cup lost
        <5>1. b # Part(e) /\ gone[z] # b
          BY <3>1, <3>3, <3>4, <4>1, <4>2
        <5>2. QED BY <3>4, <4>2, <5>1 DEF RecordInv, WorkKept
      <4>3. QED BY <3>1, <4>2 DEF WorkKept
    <3>9. PlaintextOnRecord'
      <4>1. ~Is(e, {"single"}) => Container(e) \in recorded \cup lost
        <5>1. ~Is(e, {"single"}) => Container(e) # None
          BY <3>2, Own
        <5>2. QED BY <3>1, <3>2, <5>1 DEF RecordInv, Registered
      <4>2. QED BY <3>1, <4>1 DEF RecordInv, PlaintextOnRecord
    <3>10. QED BY <3>5, <3>6, <3>7, <3>8, <3>9 DEF RecordInv
  <2>3. QED BY <2>1, <2>2
<1>8. CASE ExtractEntry(e)
  <2>1. /\ up[Runs[e]] = "up" /\ fresh[e] = None /\ gone[e] = None /\ pc[e] = "extracting"
        /\ temps' = temps \cup {Root(e)} /\ old' \subseteq old /\ (\A p \in Proc : jOld'[p] \subseteq jOld[p])
        /\ UNCHANGED <<mine, fresh, gone, recorded, up, jpc, jTodo, jSafe, lost, stuck>>
    BY <1>0, <1>8 DEF ExtractEntry, Touch, Typed
  <2>2. Root(e) \in mine[e]
    <3>1. Kit(e) = mine[e]
      BY <1>8, Own DEF ExtractEntry, Kit
    <3>2. mine[e] = {<<e, "root">>} \/ (Legacy(e) /\ mine[e] = {Container(e), <<e, "unpack">>})
      BY <1>0, <2>1, <3>1 DEF KitOK, Container
    <3>3. Legacy(e) => Container(e) \in mine[e]
      BY <1>8 DEF ExtractEntry, Legacy
    <3>4. Container(e) # <<e, "root">>
      BY DEF Container
    <3>5. QED BY <3>2, <3>3, <3>4 DEF Root, Legacy
  <2>3. Root(e) \in recorded \cup lost
    <3>1. Root(e) # None
      BY <2>2, Own
    <3>2. QED BY <2>1, <2>2, <3>1 DEF RecordInv, Registered
  <2>4. DeadOnly' /\ Registered' /\ FreshIsYoung' /\ WorkKept' /\ PlaintextOnRecord'
    BY <2>1, <2>3 DEF RecordInv, DeadOnly, Registered, FreshIsYoung, WorkKept, PlaintextOnRecord
  <2>5. GoneOrStuck'
    <3>1. \A z \in Ext : gone[z] # Root(e)
      BY <2>1, <2>2, Own
    <3>2. QED BY <2>1, <3>1 DEF RecordInv, GoneOrStuck
  <2>6. Spared'
    BY <2>1 DEF RecordInv, Spared, Live, Kit
  <2>7. QED BY <2>4, <2>5, <2>6 DEF RecordInv
<1>9. CASE Verify(e) \/ MakeOutput(e) \/ Check(e) \/ Fail(e) \/ EndDelivery(e)
  BY <1>9, RecordKept DEF Verify, MakeOutput, Check, Fail, EndDelivery
<1>10. CASE DropContainer(e)
  <2>1. Container(e) \in mine[e]
    BY <1>0, <1>10 DEF DropContainer, KitOK, Kit, Container
  <2>2. CASE Container(e) \in temps
    BY <1>10, <2>1, <2>2, RecordDrop DEF DropContainer, Drop
  <2>3. CASE Container(e) \notin temps
    BY <1>10, <2>3, RecordForget DEF DropContainer
  <2>4. QED BY <2>2, <2>3
<1>11. CASE Move(e) \/ StartCopy(e) \/ EndCopy(e)
  BY <1>11, RecordKept DEF Move, StartCopy, EndCopy
<1>12. CASE Undo(e)
  BY <1>12, RecordKept DEF Undo
<1>13. CASE ClearPreview(e)
  BY <1>13, RecordKept DEF ClearPreview
<1>14. CASE EndMove(e)
  <2>1. pc[e] \in Moves /\ gone[e] = None /\ Drop(e, Root(e)) /\ ~Delivering(e)
        /\ UNCHANGED <<mine, fresh, recorded, janVars, up, lost>>
    BY <1>14 DEF EndMove, Moves
  <2>2. Root(e) \in mine[e]
    BY <1>0, <2>1 DEF KitOK, Kit, Root, Legacy, Delivering
  <2>3. QED BY <2>1, <2>2, RecordDrop DEF Drop
<1>15. CASE Discard(e)
  <2>1. CASE UNCHANGED <<staged, temps, old, stuck, gone, mine>>
    BY <1>15, <2>1, DiscardStep, RecordKept
  <2>2. CASE \E a \in mine[e] : SecureRemove(a) /\ gone' = [gone EXCEPT ![e] = a] /\ UNCHANGED mine
    <3>1. gone[e] = None /\ UNCHANGED <<fresh, recorded, jpc, jTodo, jSafe, jOld, up, lost>>
      BY <1>15, DiscardStep
    <3>2. QED BY <2>2, <3>1, RecordDrop
  <2>3. CASE \E a \in mine[e] : mine' = [mine EXCEPT ![e] = @ \ {a}] /\ UNCHANGED <<temps, old, stuck, gone>>
    <3>1. gone[e] = None /\ UNCHANGED <<fresh, recorded, jpc, jTodo, jSafe, jOld, up, lost>>
      BY <1>15, DiscardStep
    <3>2. QED BY <2>3, <3>1, RecordForget
  <2>4. QED BY <1>15, <2>1, <2>2, <2>3, DiscardStep
<1>16. QED
  BY <1>1, <1>2, <1>3, <1>4, <1>5, <1>6, <1>7, <1>8, <1>9, <1>10, <1>11, <1>12, <1>13, <1>14, <1>15 DEF Step

LEMMA RecordOther ==
  ASSUME StepInv, RecordInv,
         \/ \E e \in Ext : \E j \in Choices[e] : Begin(e, j)
         \/ \E p \in Proc : Cleanup(p) \/ Crash(p)
         \/ \E a \in Artifact : Age(a) \/ LoseRecord(a)
  PROVE  RecordInv'
<1> USE DEF At, Running, extVars, ownVars, places, janVars, histVars
<1>0. Typed /\ Runs \in [Ext -> Proc]
  BY ExtractAssumption DEF StepInv
<1>a. \A b \in temps \cup old \cup recorded : b \in Artifact /\ b[1] \in Ext
  BY <1>0, ArtifactFacts DEF Typed
<1>b. \A p \in Proc : \A b \in jOld[p] \cup jTodo[p] : b \in Artifact /\ b[1] \in Ext
  BY <1>0, ArtifactFacts DEF Typed
<1>1. ASSUME NEW e \in Ext, NEW j \in Choices[e], Begin(e, j) PROVE RecordInv'
  BY <1>1, RecordKept DEF Begin
<1>2. ASSUME NEW p \in Proc, StartCleanup(p) PROVE RecordInv'
  <2> DEFINE safe == {a \in recorded : up[Runs[a[1]]] = "up"}
  <2>1. /\ up' = [up EXCEPT ![p] = "up"] /\ up[p] \in {"new", "up"} /\ jpc[p] = "off"
        /\ jpc' = [jpc EXCEPT ![p] = "registry"] /\ jSafe' = [jSafe EXCEPT ![p] = safe]
        /\ jTodo' = [jTodo EXCEPT ![p] = recorded \ safe]
        /\ UNCHANGED <<mine, fresh, gone, temps, recorded, old, jOld, lost, stuck>>
    BY <1>2 DEF StartCleanup
  <2>2. /\ \A z \in Ext : up'[Runs[z]] = "up" => up[Runs[z]] = "up" \/ mine[z] = {}
        /\ \A z \in Ext : up[Runs[z]] = "dead" => up'[Runs[z]] = "dead"
        /\ \A z \in Ext : up'[Runs[z]] = "new" => up[Runs[z]] = "new"
    BY <1>0, <2>1, Own DEF Typed
  <2>3. DeadOnly'
    <3>1. \A a \in recorded \ safe : up[Runs[a[1]]] = "dead"
      BY <1>0, <1>a DEF RecordInv, DeadOnly, Typed
    <3>2. \A q \in Proc : \A a \in jTodo'[q] : a[1] \in Ext /\ up[Runs[a[1]]] = "dead"
      BY <1>0, <1>a, <1>b, <2>1, <3>1 DEF RecordInv, DeadOnly, Typed
    <3>3. QED BY <1>a, <2>1, <2>2, <3>2 DEF RecordInv, DeadOnly
  <2>4. Registered' /\ WorkKept'
    BY <2>1, <2>2 DEF RecordInv, Registered, WorkKept
  <2>5. GoneOrStuck' /\ FreshIsYoung' /\ PlaintextOnRecord'
    BY <2>1 DEF RecordInv, GoneOrStuck, FreshIsYoung, PlaintextOnRecord
  <2>6. \A b : b[1] \in Ext /\ Live(b)' => Live(b)
    BY <2>1, <2>2 DEF Live, Kit
  <2>7. Spared'
    <3>1. ASSUME NEW b \in old, Live(b) PROVE b \in safe \cup lost
      <4>1. fresh[b[1]] # b
        BY <3>1 DEF RecordInv, FreshIsYoung
      <4>2. QED BY <1>a, <3>1, <4>1 DEF RecordInv, Registered, Live, Kit
    <3>2. \A q \in Proc : jpc'[q] = "registry" => q = p \/ (jpc[q] = "registry" /\ jSafe'[q] = jSafe[q])
      BY <1>0, <2>1 DEF Typed
    <3>3. jSafe'[p] = safe
      BY <1>0, <2>1 DEF Typed
    <3>4. ASSUME NEW q \in Proc, jpc'[q] = "registry", NEW b \in old, Live(b)' PROVE b \in jSafe'[q] \cup lost
      BY <1>a, <2>6, <3>1, <3>2, <3>3, <3>4 DEF RecordInv, Spared
    <3>5. QED BY <1>b, <2>1, <2>6, <3>4 DEF RecordInv, Spared
  <2>8. QED BY <2>3, <2>4, <2>5, <2>7 DEF RecordInv
<1>3. ASSUME NEW p \in Proc, NEW a \in Artifact, RemoveRecorded(p, a) PROVE RecordInv'
  <2>1. /\ temps' \subseteq temps /\ old' \subseteq old /\ stuck \subseteq stuck' /\ (a \in temps' => a \in stuck')
        /\ \A b : b # a /\ b \in temps => b \in temps'
    BY <1>0, <1>3, RemoveType DEF RemoveRecorded
  <2>2. /\ a \in jTodo[p] /\ jTodo' = [jTodo EXCEPT ![p] = @ \ {a}]
        /\ recorded' \subseteq recorded /\ recorded \ {a} \subseteq recorded'
        /\ UNCHANGED <<mine, fresh, gone, jpc, jSafe, jOld, up, lost>>
    BY <1>3 DEF RemoveRecorded
  <2>3. up[Runs[a[1]]] = "dead" /\ \A z \in Ext : up[Runs[z]] = "up" => a \notin mine[z]
    <3>1. up[Runs[a[1]]] = "dead"
      BY <2>2 DEF RecordInv, DeadOnly
    <3>2. QED BY <3>1, Own
  <2>4. DeadOnly'
    BY <1>0, <2>2 DEF RecordInv, DeadOnly, Typed
  <2>5. Registered' /\ WorkKept'
    BY <2>1, <2>2, <2>3 DEF RecordInv, Registered, WorkKept
  <2>6. GoneOrStuck' /\ FreshIsYoung' /\ Spared'
    BY <2>1, <2>2 DEF RecordInv, GoneOrStuck, FreshIsYoung, Spared, Live, Kit
  <2>7. PlaintextOnRecord'
    BY <2>1, <2>2 DEF RecordInv, PlaintextOnRecord
  <2>8. QED BY <2>4, <2>5, <2>6, <2>7 DEF RecordInv
<1>4. ASSUME NEW p \in Proc, StartSweep(p) PROVE RecordInv'
  <2>1. /\ jpc[p] = "registry" /\ jpc' = [jpc EXCEPT ![p] = "sweep"] /\ jOld' = [jOld EXCEPT ![p] = Sweepable(p)]
        /\ UNCHANGED <<mine, fresh, gone, temps, recorded, old, jTodo, jSafe, up, lost, stuck>>
    BY <1>4 DEF StartSweep
  <2>2. Sweepable(p) \subseteq old \ jSafe[p]
    BY DEF Sweepable
  <2>3. Spared'
    <3>1. \A b \in Sweepable(p) : Live(b) => b \in lost
      BY <2>1, <2>2 DEF RecordInv, Spared
    <3>2. \A q \in Proc : \A b \in jOld'[q] : Live(b) => b \in lost
      BY <1>0, <2>1, <3>1 DEF RecordInv, Spared, Typed
    <3>3. \A q \in Proc : jpc'[q] = "registry" => jpc[q] = "registry"
      BY <1>0, <2>1 DEF Typed
    <3>4. QED BY <2>1, <3>2, <3>3 DEF RecordInv, Spared, Live, Kit
  <2>4. QED
    BY <2>1, <2>3 DEF RecordInv, DeadOnly, Registered, GoneOrStuck, FreshIsYoung, WorkKept, PlaintextOnRecord
<1>5. ASSUME NEW p \in Proc, NEW a \in Artifact, Sweep(p, a) PROVE RecordInv'
  <2>1. /\ a \in jOld[p] /\ (\A q \in Proc : jOld'[q] \subseteq jOld[q])
        /\ UNCHANGED <<mine, fresh, gone, recorded, jpc, jTodo, jSafe, up, lost>>
    BY <1>0, <1>5 DEF Sweep, Typed
  <2>2. /\ temps' \subseteq temps /\ old' \subseteq old /\ stuck \subseteq stuck' /\ (a \in temps' => a \in stuck')
        /\ \A b : b # a /\ b \in temps => b \in temps'
    BY <1>0, <1>5, RemoveType DEF Sweep
  <2>3. Live(a) => a \in lost
    BY <2>1 DEF RecordInv, Spared
  <2>4. DeadOnly' /\ Registered' /\ GoneOrStuck' /\ FreshIsYoung' /\ Spared'
    BY <2>1, <2>2 DEF RecordInv, DeadOnly, Registered, GoneOrStuck, FreshIsYoung, Spared, Live, Kit
  <2>5. WorkKept'
    <3>1. ASSUME NEW z \in Ext, NEW b \in mine[z], up[Runs[z]] = "up", gone[z] # b PROVE b \in temps' \cup lost
      <4>1. CASE b = a
        BY <2>3, <3>1, <4>1, Own DEF Live, Kit
      <4>2. CASE b # a
        BY <2>2, <3>1, <4>2 DEF RecordInv, WorkKept
      <4>3. QED BY <4>1, <4>2
    <3>2. QED BY <2>1, <3>1 DEF WorkKept
  <2>6. PlaintextOnRecord'
    BY <2>1, <2>2 DEF RecordInv, PlaintextOnRecord
  <2>7. QED BY <2>4, <2>5, <2>6 DEF RecordInv
<1>6. ASSUME NEW p \in Proc, EndCleanup(p) PROVE RecordInv'
  <2>1. /\ jpc' = [jpc EXCEPT ![p] = "off"] /\ jSafe' = [jSafe EXCEPT ![p] = {}]
        /\ UNCHANGED <<mine, fresh, gone, temps, recorded, up, jTodo, lost, old, stuck, jOld>>
    BY <1>6 DEF EndCleanup
  <2>2. \A q \in Proc : jpc'[q] = "registry" => jpc[q] = "registry" /\ jSafe'[q] = jSafe[q]
    BY <1>0, <2>1 DEF Typed
  <2>3. QED BY <2>1, <2>2, RecordKept
<1>7. ASSUME NEW p \in Proc, Crash(p) PROVE RecordInv'
  <2>1. /\ up' = [up EXCEPT ![p] = "dead"] /\ jpc' = [jpc EXCEPT ![p] = "off"] /\ up[p] = "up"
        /\ jTodo' = [jTodo EXCEPT ![p] = {}] /\ jSafe' = [jSafe EXCEPT ![p] = {}] /\ jOld' = [jOld EXCEPT ![p] = {}]
        /\ UNCHANGED <<mine, fresh, gone, temps, recorded, old, lost, stuck>>
    BY <1>7 DEF Crash
  <2>2. /\ \A z \in Ext : up'[Runs[z]] = "up" => up[Runs[z]] = "up"
        /\ \A z \in Ext : up[Runs[z]] = "dead" => up'[Runs[z]] = "dead"
        /\ \A z \in Ext : up'[Runs[z]] = "new" => up[Runs[z]] = "new"
        /\ \A q \in Proc : jTodo'[q] \subseteq jTodo[q] /\ jOld'[q] \subseteq jOld[q]
        /\ \A q \in Proc : jpc'[q] = "registry" => jpc[q] = "registry" /\ jSafe'[q] = jSafe[q]
    BY <1>0, <2>1 DEF Typed
  <2>3. DeadOnly'
    BY <1>a, <1>b, <2>1, <2>2 DEF RecordInv, DeadOnly
  <2>4. Registered' /\ WorkKept'
    BY <2>1, <2>2 DEF RecordInv, Registered, WorkKept
  <2>5. GoneOrStuck' /\ FreshIsYoung' /\ PlaintextOnRecord'
    BY <2>1 DEF RecordInv, GoneOrStuck, FreshIsYoung, PlaintextOnRecord
  <2>6. Spared'
    <3>1. \A b : b[1] \in Ext /\ Live(b)' => Live(b)
      BY <2>1, <2>2 DEF Live, Kit
    <3>2. QED BY <1>a, <1>b, <2>1, <2>2, <3>1 DEF RecordInv, Spared
  <2>7. QED BY <2>3, <2>4, <2>5, <2>6 DEF RecordInv
<1>8. ASSUME NEW a \in Artifact, Age(a) PROVE RecordInv'
  <2>1. /\ old' = old \cup {a} /\ fresh[a[1]] # a /\ \A p \in Proc : jpc[p] # "registry"
        /\ UNCHANGED <<mine, fresh, gone, temps, recorded, jpc, jTodo, jSafe, jOld, up, lost, stuck>>
    BY <1>8 DEF Age
  <2>2. QED
    BY <2>1 DEF RecordInv, DeadOnly, Registered, GoneOrStuck, FreshIsYoung, Spared, Live, Kit, WorkKept,
       PlaintextOnRecord
<1>9. ASSUME NEW a \in Artifact, LoseRecord(a) PROVE RecordInv'
  <2>1. /\ recorded' = recorded \ {a} /\ lost' = lost \cup {a}
        /\ UNCHANGED <<mine, fresh, gone, temps, old, jpc, jTodo, jSafe, jOld, up, stuck>>
    BY <1>9 DEF LoseRecord
  <2>2. QED
    BY <2>1 DEF RecordInv, DeadOnly, Registered, GoneOrStuck, FreshIsYoung, Spared, Live, Kit, WorkKept,
       PlaintextOnRecord
<1>10. QED BY <1>1, <1>2, <1>3, <1>4, <1>5, <1>6, <1>7, <1>8, <1>9 DEF Cleanup

LEMMA RecordAlways == Spec => []RecordInv
<1>1. ASSUME StepInv, RecordInv, [Next]_vars PROVE RecordInv'
  <2>1. CASE UNCHANGED vars
    BY <1>1, <2>1, RecordKept DEF vars, ownVars, janVars, histVars
  <2>2. QED BY <1>1, <2>1, RecordStep, RecordOther DEF Next
<1>2. QED BY <1>1, RecordInit, StepInvariant, PTL DEF Spec

\* No clean-up, by registry or by age, in whichever process and however often,
\* takes the temporary artifact of an extraction at work, unless its record was
\* lost (_cleanup_registry, _cleanup_known_temp_roots).
THEOREM WorkIsKept == Spec => []WorkKept
<1>1. RecordInv => WorkKept
  BY DEF RecordInv
<1>2. QED BY <1>1, RecordAlways, PTL

\* However extractions fail, crash and are cleaned up behind: decrypted contents
\* in a temporary place are on record, but for the step between creating and
\* recording them, a lost record and what cannot be unlinked.
THEOREM PlaintextIsOnRecord == Spec => []PlaintextOnRecord
<1>1. RecordInv => PlaintextOnRecord
  BY DEF RecordInv
<1>2. QED BY <1>1, RecordAlways, PTL

\* What an extraction has chosen to fill, or filled, is not the user's.
UserOK(e) ==
  /\ pc[e] \in {"moving", "copying"} => owner[Target(e)] # "user"
  /\ pc[e] \in Moves => \A x \in committed[e] : owner[<<Place(e), x>>] # "user"
  /\ committed[e] # {} => pc[e] \in Moves \cup {"closing", "done"}

UserInv ==
  /\ \A s \in Slot : owner[s] = "user" => s \in Prior
  /\ \A e \in Ext : UserOK(e)
  /\ UserFilesKept

LEMMA UserInit == Init => UserInv
<1> SUFFICES ASSUME Init PROVE UserInv
  OBVIOUS
<1>1. owner = [s \in Slot |-> IF s \in Prior THEN "user" ELSE None] /\ pc = [e \in Ext |-> "idle"]
      /\ committed = [e \in Ext |-> {}]
  BY DEF Init
<1>2. "user" # None /\ \A s \in Prior : s \in Slot
  BY ExtractAssumption DEF Slot
<1>3. QED BY <1>1, <1>2 DEF UserInv, UserOK, UserFilesKept, Moves

\* The single files in place stay in place.
LEMMA ReplacedStays ==
  ASSUME StepInv, [Next]_vars, NEW s, ReplacedUnasked(s)
  PROVE  ReplacedUnasked(s)'
<1>1. PICK z \in Ext : Is(z, {"single"}) /\ pc[z] = "done" /\ <<Out, Current(z)>> = s
  BY DEF ReplacedUnasked
<1>2. job'[z] = job[z] /\ pc'[z] = "done" /\ index'[z] = index[z]
  <2>0. job \in [Ext -> Jobs \cup {None}]
    BY DEF StepInv, Typed
  <2>1. ASSUME NEW e \in Ext, NEW j \in Choices[e], Begin(e, j)
        PROVE  job'[z] = job[z] /\ pc'[z] = "done" /\ index'[z] = index[z]
    BY <1>1, <2>1 DEF Begin, At, Running, Go, StepInv, Typed
  <2>2. ASSUME NEW e \in Ext, Step(e) PROVE job'[z] = job[z] /\ pc'[z] = "done" /\ index'[z] = index[z]
    <3>1. CASE z # e
      BY <1>1, <2>2, <3>1, StepReach
    <3>2. CASE z = e
      <4>1. Record(e) \/ Unrecord(e)
        BY <1>1, <2>2, <3>2, DiscardStep DEF Step, At, Running, MakeRoot, NeedContainer, MakeContainer, MakePart,
           Decode, ExtractEntry, Verify, DropContainer, MakeOutput, Check, Move, StartCopy, EndCopy, Fail, Undo,
           EndMove, EndDelivery, ClearPreview
      <4>2. QED BY <1>1, <3>2, <4>1 DEF Record, Unrecord, extVars
    <3>3. QED BY <3>1, <3>2
  <2>3. ASSUME \/ \E p \in Proc : Cleanup(p) \/ Crash(p)
               \/ \E a \in Artifact : Age(a) \/ LoseRecord(a)
               \/ UNCHANGED vars
        PROVE  job'[z] = job[z] /\ pc'[z] = "done" /\ index'[z] = index[z]
    BY <1>1, <2>3 DEF Cleanup, Crash, Age, LoseRecord, StartCleanup, StartSweep, EndCleanup, RemoveRecorded, Sweep,
       extVars, vars
  <2>4. QED BY <2>1, <2>2, <2>3 DEF Next
<1>3. QED BY <1>1, <1>2 DEF ReplacedUnasked, Is, Current

\* A single file that was put in place is no directory.
LEMMA ReplacedIsFile ==
  ASSUME StepInv, NEW s, ReplacedUnasked(s)
  PROVE  s[2] \notin Dir
<1>1. PICK z \in Ext : Is(z, {"single"}) /\ pc[z] = "done" /\ <<Out, Current(z)>> = s
  BY DEF ReplacedUnasked
<1>2. index[z] = 1 /\ job[z] \in Choices[z] /\ job[z].kind = "single"
  BY <1>1, JobKnown DEF StepInv, StepOK, JobOK
<1>3. QED BY <1>1, <1>2, ExtractAssumption DEF Current

\* What is in a directory of the user's folder was there only with it: a
\* directory that is not the user's holds nothing of the user's.
LEMMA NothingUnder ==
  ASSUME StepInv, UserInv, NEW e \in Ext, NEW x \in Entry, owner[<<Place(e), x>>] # "user", NEW y \in Under(x)
  PROVE  owner[<<Place(e), y>>] # "user"
<1> SUFFICES ASSUME y # x, owner[<<Place(e), y>>] = "user" PROVE FALSE
  OBVIOUS
<1>1. y \in Dir /\ x \in Dir /\ x \in Within[y] /\ y \in Entry
  BY ExtractAssumption DEF Under
<1>2. <<Place(e), y>> \in Slot
  BY <1>1 DEF Slot, Place
<1>3. <<Place(e), y>> \in Prior
  BY <1>2 DEF UserInv
<1>4. Place(e) = Out
  BY <1>3, ExtractAssumption
<1>5. <<Out, x>> \in Prior
  <2>1. {Out} \X Within[y] \subseteq Prior
    BY <1>1, <1>3, ExtractAssumption
  <2>2. QED BY <1>1, <2>1
<1>6. ReplacedUnasked(<<Out, x>>)
  BY <1>4, <1>5 DEF UserInv, UserFilesKept
<1>7. QED BY <1>1, <1>6, ReplacedIsFile

\* A step that makes nothing the user's, takes nothing of the user's but for a
\* single file, and keeps what each extraction has filled.
LEMMA UserFrame ==
  ASSUME StepInv, UserInv, [Next]_vars,
         \A s \in Slot : owner'[s] = "user" => owner[s] = "user",
         \A s \in Prior : owner[s] = "user" => owner'[s] = "user" \/ ReplacedUnasked(s)',
         \A z \in Ext : UserOK(z)'
  PROVE  UserInv'
<1>1. UserFilesKept'
  BY ReplacedStays DEF UserInv, UserFilesKept
<1>2. QED BY <1>1 DEF UserInv

\* ... of the others, and of an extraction that goes on filling the same slots.
LEMMA UserOthers ==
  ASSUME StepInv, NEW z \in Ext, UserOK(z),
         \A s \in Slot : owner'[s] = "user" => owner[s] = "user",
         job'[z] = job[z], index'[z] = index[z], committed'[z] = committed[z],
         pc'[z] = pc[z], pc[z] \in Moves => mine'[z] = mine[z]
  PROVE  UserOK(z)'
<1>1. committed[z] \subseteq Entry
  BY DEF StepInv, Typed
<1>2. pc[z] \in Moves => Place(z)' = Place(z) /\ Place(z) \in Ext \cup {Out}
  BY DEF Place, Delivering, Is, Root
<1>3. pc[z] \in {"moving", "copying"} => Target(z)' = Target(z) /\ Target(z) \in Slot
  BY <1>2, TargetType DEF Target, Current, Moves
<1>4. pc[z] \in Moves => \A x \in committed[z] : <<Place(z), x>> \in Slot
  BY <1>1, <1>2 DEF Slot
<1>5. QED BY <1>2, <1>3, <1>4 DEF UserOK

LEMMA UserStep ==
  ASSUME StepInv, UserInv, NEW e \in Ext, Step(e)
  PROVE  UserInv'
<1> USE DEF At, Running, Go, extVars, ownVars, places, janVars, histVars
<1>0. Typed /\ StepOK(e) /\ UserOK(e)
  BY DEF StepInv, UserInv
<1>1. ASSUME UNCHANGED owner, UserOK(e)' PROVE UserInv'
  <2>1. \A z \in Ext : UserOK(z)'
    <3>1. ASSUME NEW z \in Ext, z # e PROVE UserOK(z)'
      BY <1>1, <3>1, StepReach, UserOthers DEF UserInv
    <3>2. QED BY <1>1, <3>1
  <2>2. QED BY <1>1, <2>1, UserFrame DEF Next
<1>2. ASSUME \A s \in Slot : owner'[s] = "user" => owner[s] = "user",
             \A s \in Prior : owner[s] = "user" => owner'[s] = "user" \/ ReplacedUnasked(s)',
             UserOK(e)'
      PROVE  UserInv'
  <2>1. \A z \in Ext : UserOK(z)'
    <3>1. ASSUME NEW z \in Ext, z # e PROVE UserOK(z)'
      BY <1>2, <3>1, StepReach, UserOthers DEF UserInv
    <3>2. QED BY <1>2, <3>1
  <2>2. QED BY <1>2, <2>1, UserFrame DEF Next
<1>a. \A x \in Entry : <<Place(e), x>> \in Slot /\ <<Out, x>> \in Slot /\ <<e, x>> \in Slot
  BY DEF Slot, Place
<1>b. committed[e] \subseteq Entry /\ committed \in [Ext -> SUBSET Entry] /\ pc \in [Ext -> States]
      /\ index \in [Ext -> Nat] /\ owner \in [Slot -> Ext \cup {"user", None}] /\ e # "user" /\ None # "user"
      /\ mine \in [Ext -> SUBSET Artifact]
  BY <1>0, ExtractAssumption DEF Typed
<1>c. ASSUME mine'[e] = mine[e], job' = job PROVE Place(e)' = Place(e) /\ Delivering(e)' = Delivering(e)
  BY <1>c DEF Place, Delivering, Is, Root
<1>3. CASE pc[e] \notin Moves /\ pc'[e] \notin {"moving", "copying", "undoing"} /\ UNCHANGED <<owner, committed>>
           /\ (pc'[e] = "checking" => pc[e] = "verified") /\ (committed[e] # {} => pc'[e] \in {"closing", "done"})
  <2>1. UserOK(e)'
    BY <1>0, <1>3 DEF UserOK, Moves
  <2>2. QED BY <1>1, <1>3, <2>1
<1>4. CASE Record(e) \/ Unrecord(e)
  <2>1. UNCHANGED <<job, pc, index, committed, owner>>
    BY <1>4 DEF Record, Unrecord
  <2>2. pc[e] \in Moves => mine'[e] = mine[e]
    BY <1>0, <1>4 DEF Record, Unrecord, StepOK
  <2>3. UserOK(e)'
    BY <1>0, <2>1, <2>2, UserOthers
  <2>4. QED BY <1>1, <2>1, <2>3
<1>5. CASE MakeRoot(e) \/ MakeContainer(e) \/ MakePart(e) \/ NeedContainer(e) \/ ExtractEntry(e) \/ Verify(e)
           \/ DropContainer(e) \/ MakeOutput(e)
  BY <1>0, <1>b, <1>3, <1>5 DEF MakeRoot, MakeContainer, MakePart, NeedContainer, ExtractEntry, Verify, DropContainer,
     MakeOutput, Moves, UserOK
<1>6. CASE Discard(e)
  <2>1. /\ pc[e] = "failing" /\ pc'[e] \in {"failing", "dropping", "failed"} /\ UNCHANGED <<owner, committed>>
    BY <1>6, <1>b, DiscardStep
  <2>2. QED BY <1>0, <1>3, <2>1 DEF Moves, UserOK
<1>7. CASE Decode(e)
  <2>1. CASE ~Intact(e) \/ ~Is(e, {"single"})
    BY <1>0, <1>b, <1>3, <1>7, <2>1 DEF Decode, Moves, UserOK
  <2>2. CASE Intact(e) /\ Is(e, {"single"})
    <3>1. /\ pc[e] = "decoding" /\ pc'[e] = "done" /\ owner' = [owner EXCEPT ![Target(e)] = e]
          /\ UNCHANGED <<job, index, committed>>
      BY <1>7, <1>b, <2>2 DEF Decode
    <3>2. PICK t : t = Target(e) /\ t = <<Out, Current(e)>>
      BY <2>2 DEF Target, Place, Is
    <3>3. ReplacedUnasked(t)'
      BY <2>2, <3>1, <3>2 DEF ReplacedUnasked, Is, Current
    <3>4. committed[e] = {}
      BY <1>0, <3>1 DEF UserOK, Moves
    <3>5. UserOK(e)'
      BY <3>1, <3>4 DEF UserOK, Moves
    <3>6. \A s \in Slot : s # t => owner'[s] = owner[s]
      BY <1>b, <3>1, <3>2
    <3>7. \A s \in Slot : owner'[s] = "user" => owner[s] = "user"
      BY <1>b, <3>1
    <3>8. \A s \in Prior : owner[s] = "user" => owner'[s] = "user" \/ ReplacedUnasked(s)'
      <4>1. Prior \subseteq Slot
        BY ExtractAssumption DEF Slot
      <4>2. ASSUME NEW s \in Prior, owner[s] = "user" PROVE owner'[s] = "user" \/ ReplacedUnasked(s)'
        <5>1. CASE s = t
          BY <3>3, <5>1
        <5>2. CASE s # t
          BY <3>6, <4>1, <4>2, <5>2
        <5>3. QED BY <5>1, <5>2
      <4>3. QED BY <4>2
    <3>9. QED BY <1>2, <3>5, <3>7, <3>8
  <2>3. QED BY <2>1, <2>2
<1>8. CASE Check(e)
  <2>1. /\ pc[e] = "checking" /\ UNCHANGED <<job, index, committed, mine, owner>>
        /\ pc'[e] = "undoing" \/ (pc'[e] = "moving" /\ owner[Target(e)] = None)
    BY <1>8, <1>b DEF Check, Refused
  <2>2. Place(e)' = Place(e) /\ Target(e)' = Target(e)
    BY <1>c, <2>1 DEF Target, Current
  <2>3. UserOK(e)'
    BY <1>0, <1>b, <2>1, <2>2 DEF UserOK, Moves
  <2>4. QED BY <1>1, <2>1, <2>3
<1>9. CASE Move(e)
  <2> DEFINE x == Current(e)
             slots == {<<Place(e), y>> : y \in Under(x) \cap staged[e]}
  <2>1. /\ pc[e] = "moving" /\ pc'[e] = "checking" /\ UNCHANGED <<job, mine>>
        /\ committed' = [committed EXCEPT ![e] = @ \cup {x}]
        /\ owner' = owner \/ owner' = [s \in Slot |-> IF s \in slots THEN e ELSE owner[s]]
    BY <1>9, <1>b DEF Move, NextEntry
  <2>2. x \in Entry /\ Target(e) = <<Place(e), x>> /\ owner[Target(e)] # "user"
    BY <1>0, <2>1, TargetType DEF UserOK, Target
  <2>3. \A s \in slots : owner[s] # "user"
    BY <2>2, NothingUnder
  <2> HIDE DEF slots, x
  <2>4. /\ \A s \in Slot : owner'[s] = "user" => owner[s] = "user"
        /\ \A s \in Slot : owner[s] = "user" => owner'[s] = "user"
    BY <1>b, <2>1, <2>3
  <2>5. UserOK(e)'
    <3>1. Place(e)' = Place(e)
      BY <1>c, <2>1
    <3>2. \A y \in committed'[e] : owner'[<<Place(e), y>>] # "user"
      BY <1>0, <1>a, <1>b, <2>1, <2>2, <2>4 DEF UserOK, Moves
    <3>3. QED BY <2>1, <3>1, <3>2 DEF UserOK, Moves
  <2>6. Prior \subseteq Slot
    BY ExtractAssumption DEF Slot
  <2>7. QED BY <1>2, <2>4, <2>5, <2>6
<1>10. CASE StartCopy(e)
  <2>1. /\ pc[e] = "moving" /\ pc'[e] = "copying" /\ UNCHANGED <<job, index, mine, committed>>
        /\ owner' = [owner EXCEPT ![Target(e)] = e]
    BY <1>10, <1>b DEF StartCopy
  <2>2. Target(e) \in Slot /\ owner[Target(e)] # "user"
    BY <1>0, <2>1, TargetType DEF UserOK
  <2>3. /\ \A s \in Slot : owner'[s] = "user" => owner[s] = "user"
        /\ \A s \in Slot : owner[s] = "user" => owner'[s] = "user"
    BY <1>b, <2>1, <2>2
  <2>4. UserOK(e)'
    <3>1. Place(e)' = Place(e) /\ Target(e)' = Target(e)
      BY <1>c, <2>1 DEF Target, Current
    <3>2. \A y \in committed'[e] : owner'[<<Place(e), y>>] # "user"
      BY <1>0, <1>a, <1>b, <2>1, <2>3 DEF UserOK, Moves
    <3>3. QED BY <2>1, <2>2, <2>3, <3>1, <3>2 DEF UserOK, Moves
  <2>5. Prior \subseteq Slot
    BY ExtractAssumption DEF Slot
  <2>6. QED BY <1>2, <2>3, <2>4, <2>5
<1>11. CASE EndCopy(e)
  <2>1. /\ pc[e] = "copying" /\ pc'[e] = "checking" /\ UNCHANGED <<job, mine, owner>>
        /\ committed' = [committed EXCEPT ![e] = @ \cup {Current(e)}]
    BY <1>11, <1>b DEF EndCopy, NextEntry
  <2>2. owner[<<Place(e), Current(e)>>] # "user" /\ Place(e)' = Place(e)
    BY <1>0, <1>c, <2>1 DEF UserOK, Target
  <2>3. UserOK(e)'
    BY <1>0, <1>b, <2>1, <2>2 DEF UserOK, Moves
  <2>4. QED BY <1>1, <2>1, <2>3
<1>12. CASE Fail(e)
  <2>1. UNCHANGED <<job, index, committed, mine, owner>>
    BY <1>12 DEF Fail
  <2>2. CASE pc[e] \in {"moving", "copying"}
    <3>1. pc'[e] = "undoing"
      BY <1>12, <1>b, <2>2 DEF Fail
    <3>2. Place(e)' = Place(e)
      BY <1>c, <2>1
    <3>3. UserOK(e)'
      BY <1>0, <2>1, <2>2, <3>1, <3>2 DEF UserOK, Moves
    <3>4. QED BY <1>1, <2>1, <3>3
  <2>3. CASE pc[e] \notin {"moving", "copying"}
    <3>1. pc[e] \notin Moves \cup {"closing", "done"} /\ pc'[e] \in {"failing", "dropping"}
      BY <1>12, <1>b, <2>3 DEF Fail, Moves
    <3>2. QED BY <1>0, <1>3, <2>1, <3>1 DEF UserOK, Moves
  <2>4. QED BY <2>2, <2>3
<1>13. CASE Undo(e)
  <2>1. PICK x \in committed[e] :
          /\ committed' = [committed EXCEPT ![e] = @ \ {x}]
          /\ \/ owner' = [z \in Slot |-> IF z \in {<<Place(e), y>> : y \in Under(x)} THEN None ELSE owner[z]]
             \/ owner' = owner
    BY <1>13 DEF Undo
  <2>2. pc[e] = "undoing" /\ UNCHANGED <<job, pc, index, mine>>
    BY <1>13 DEF Undo
  <2> DEFINE slots == {<<Place(e), y>> : y \in Under(x)}
  <2>3. \A s \in slots : owner[s] # "user"
    <3>1. x \in Entry /\ owner[<<Place(e), x>>] # "user"
      BY <1>0, <1>b, <2>2 DEF UserOK, Moves
    <3>2. QED BY <3>1, NothingUnder
  <2>4. owner' = owner \/ owner' = [z \in Slot |-> IF z \in slots THEN None ELSE owner[z]]
    BY <2>1
  <2> HIDE DEF slots
  <2>5. /\ \A s \in Slot : owner'[s] = "user" => owner[s] = "user"
        /\ \A s \in Slot : owner[s] = "user" => owner'[s] = "user"
    BY <1>b, <2>3, <2>4
  <2>6. UserOK(e)'
    <3>1. Place(e)' = Place(e)
      BY <1>c, <2>2
    <3>2. \A y \in committed'[e] : owner'[<<Place(e), y>>] # "user"
      BY <1>0, <1>a, <1>b, <2>1, <2>2, <2>5 DEF UserOK, Moves
    <3>3. QED BY <2>2, <3>1, <3>2 DEF UserOK, Moves
  <2>7. Prior \subseteq Slot
    BY ExtractAssumption DEF Slot
  <2>8. QED BY <1>2, <2>5, <2>6, <2>7
<1>14. CASE EndMove(e)
  <2>1. committed'[e] = {} /\ UNCHANGED owner /\ pc'[e] \notin Moves
    BY <1>14, <1>b DEF EndMove, Moves
  <2>2. UserOK(e)'
    BY <2>1 DEF UserOK, Moves
  <2>3. QED BY <1>1, <2>1, <2>2
<1>15. CASE EndDelivery(e)
  <2>1. /\ UNCHANGED <<committed, owner>>
        /\ pc'[e] = "closing" \/ (pc'[e] = "dropping" /\ committed[e] = {})
    BY <1>15, <1>b DEF EndDelivery
  <2>2. UserOK(e)'
    BY <2>1 DEF UserOK, Moves
  <2>3. QED BY <1>1, <2>1, <2>2
<1>16. CASE ClearPreview(e)
  <2>1. /\ UNCHANGED committed
        /\ \/ pc[e] = "closing" /\ pc'[e] = "done"
           \/ pc[e] = "dropping" /\ pc'[e] = "failed"
    <3>1. /\ UNCHANGED committed /\ pc[e] \in {"closing", "dropping"}
          /\ pc' = [pc EXCEPT ![e] = IF pc[e] = "closing" THEN "done" ELSE "failed"]
      BY <1>16 DEF ClearPreview
    <3>2. pc \in [Ext -> States]
      BY <1>b
    <3>3. pc'[e] = IF pc[e] = "closing" THEN "done" ELSE "failed"
      BY <3>1, <3>2
    <3>4. QED BY <3>1, <3>3
  <2>2. \A s \in Slot : owner'[s] = owner[s] \/ (owner'[s] = None /\ s \in {<<e, x>> : x \in Entry})
    BY <1>16 DEF ClearPreview
  <2>3. \A s \in Prior : s \in Slot /\ s \notin {<<e, x>> : x \in Entry}
    BY ExtractAssumption DEF Slot
  <2>4. UserOK(e)'
    BY <1>0, <2>1 DEF UserOK, Moves
  <2>5. \A s \in Slot : owner'[s] = "user" => owner[s] = "user"
    BY <1>b, <2>2
  <2>6. \A s \in Prior : owner'[s] = owner[s]
    BY <2>2, <2>3
  <2>7. QED BY <1>2, <2>4, <2>5, <2>6
<1>17. QED
  BY <1>4, <1>5, <1>6, <1>7, <1>8, <1>9, <1>10, <1>11, <1>12, <1>13, <1>14, <1>15, <1>16 DEF Step

LEMMA UserAlways == Spec => []UserInv
<1>1. ASSUME StepInv, UserInv, [Next]_vars PROVE UserInv'
  <2>1. CASE \E e \in Ext : Step(e)
    BY <1>1, <2>1, UserStep
  <2>2. ASSUME NEW e \in Ext, NEW j \in Choices[e], Begin(e, j) PROVE UserInv'
    <3>1. UNCHANGED <<index, committed, mine, owner>> /\ pc[e] = "idle" /\ pc'[e] \in {"opened", "refused"}
          /\ \A z \in Ext : z # e => job'[z] = job[z] /\ pc'[z] = pc[z]
      BY <1>1, <2>2 DEF Begin, At, Running, Go, StepInv, Typed, ownVars, places
    <3>2. UserOK(e)'
      BY <1>1, <3>1 DEF UserInv, UserOK, Moves
    <3>3. ASSUME NEW z \in Ext, z # e PROVE UserOK(z)'
      BY <1>1, <3>1, <3>3, UserOthers DEF UserInv
    <3>4. QED BY <1>1, <3>1, <3>2, <3>3, UserFrame
  <2>3. CASE \/ \E p \in Proc : Cleanup(p) \/ Crash(p)
             \/ \E a \in Artifact : Age(a) \/ LoseRecord(a)
             \/ UNCHANGED vars
    <3>1. UNCHANGED <<extVars, mine, owner>>
      BY <2>3 DEF Cleanup, Crash, Age, LoseRecord, StartCleanup, StartSweep, EndCleanup, RemoveRecorded, Sweep,
         ownVars, places, vars
    <3>2. \A z \in Ext : UserOK(z)'
      BY <1>1, <3>1, UserOthers DEF UserInv, extVars
    <3>3. QED BY <1>1, <3>1, <3>2, UserFrame
  <2>4. QED BY <1>1, <2>1, <2>2, <2>3 DEF Next
<1>2. QED BY <1>1, UserInit, StepInvariant, PTL DEF Spec

\* No interleaving of extractions, failures and roll-backs replaces or removes
\* what was in the user's folder, but for a single file of the older formats,
\* which stream_payload_to_file renames over its output.
THEOREM UserFilesAreKept == Spec => []UserFilesKept
<1>1. UserInv => UserFilesKept
  BY DEF UserInv
<1>2. QED BY <1>1, UserAlways, PTL

\* No empty directory is inside another.
Flat == \A x \in Dir : Within[x] = {}

Disputed(s) == s \in raced \/ ReplacedUnasked(s)
Whole(e, s) == owner[s] = e /\ s \notin partial
Complete(e) == \A x \in Entries(e) : Whole(e, <<Out, x>>) \/ Disputed(<<Out, x>>)

\* What an extraction has put in place at each of its steps: what it has
\* committed is there, whole; what it is copying is incomplete; the entries
\* before its position are committed; and there is nothing else of its own in
\* the user's folder, but for what could not be undone.
PlaceOK(e) ==
  /\ pc[e] \in Moves =>
       \A x \in committed[e] : Whole(e, <<Place(e), x>>) \/ Disputed(<<Place(e), x>>)
  /\ pc[e] = "moving" => owner[Target(e)] = None \/ Disputed(Target(e))
  /\ pc[e] = "copying" => IF owner[Target(e)] = e THEN Target(e) \in partial ELSE Disputed(Target(e))
  /\ pc[e] \in {"checking", "moving", "copying"} =>
       \A i \in DOMAIN job[e].entries : i < index[e] => job[e].entries[i] \in committed[e]
  /\ pc[e] \in {"closing", "done"} => Complete(e)
  /\ \A x \in Entry : owner[<<Out, x>>] = e =>
       \/ pc[e] \in Moves /\ Place(e) = Out /\ x \in committed[e]
       \/ pc[e] = "copying" /\ Target(e) = <<Out, x>>
       \/ <<Out, x>> \in partial \cup stuck
       \/ pc[e] \in {"closing", "done"}

PlaceInv == (\A s \in partial : s[2] \notin Dir) /\ \A e \in Ext : PlaceOK(e)

LEMMA PlaceInit == Init => PlaceInv
<1> SUFFICES ASSUME Init PROVE PlaceInv
  OBVIOUS
<1>1. pc = [e \in Ext |-> "idle"] /\ partial = {}
      /\ owner = [s \in Slot |-> IF s \in Prior THEN "user" ELSE None]
  BY DEF Init
<1>2. \A e \in Ext : e # "user" /\ e # None
  BY ExtractAssumption
<1>3. \A x \in Entry : <<Out, x>> \in Slot
  BY DEF Slot
<1>4. QED BY <1>1, <1>2, <1>3 DEF PlaceInv, PlaceOK, Moves

\* What the steps of others may do to the slots an extraction fills: what it
\* filled and what it found free stays so, or the slot is disputed.
Respects(z) ==
  /\ raced \subseteq raced' /\ stuck \subseteq stuck'
  /\ \A s \in Slot : s[1] \in {z, Out} =>
       /\ owner'[s] = z => owner[s] = z /\ (s \in partial' <=> s \in partial)
       /\ owner[s] = z /\ owner'[s] # z => Disputed(s)'
       /\ Aiming(z, s) /\ owner[s] = None /\ owner'[s] # None => Disputed(s)'

LEMMA PlaceOthers ==
  ASSUME StepInv, [Next]_vars, NEW z \in Ext, PlaceOK(z), Respects(z),
         job'[z] = job[z], index'[z] = index[z], committed'[z] = committed[z],
         pc'[z] = pc[z], pc[z] \in Moves => mine'[z] = mine[z]
  PROVE  PlaceOK(z)'
<1>1. committed[z] \subseteq Entry
  BY DEF StepInv, Typed
<1>2. pc[z] \in Moves => Place(z)' = Place(z) /\ Place(z) \in {z, Out}
  BY DEF Place, Delivering, Is, Root
<1>3. pc[z] \in {"moving", "copying"} =>
        Target(z)' = Target(z) /\ Target(z) \in Slot /\ Target(z)[1] \in {z, Out} /\ Aiming(z, Target(z))
  BY <1>2, TargetType DEF Target, Current, Moves, Aiming
<1>4. \A s : Disputed(s) => Disputed(s)'
  BY ReplacedStays DEF Disputed, Respects
<1>5. \A x \in Entry : <<z, x>> \in Slot /\ <<Out, x>> \in Slot
  BY DEF Slot
<1>6. \A s \in Slot : s[1] \in {z, Out} /\ Whole(z, s) => Whole(z, s)' \/ Disputed(s)'
  BY DEF Whole, Respects
<1>7. pc[z] \in Moves => \A x \in committed[z] : Whole(z, <<Place(z), x>>)' \/ Disputed(<<Place(z), x>>)'
  <2>1. SUFFICES ASSUME pc[z] \in Moves, NEW x \in committed[z]
                 PROVE  Whole(z, <<Place(z), x>>)' \/ Disputed(<<Place(z), x>>)'
    OBVIOUS
  <2>2. PICK s \in Slot : s = <<Place(z), x>> /\ s[1] \in {z, Out} /\ s = <<Place(z)', x>>
    BY <1>1, <1>2, <1>5, <2>1
  <2>3. Whole(z, s) \/ Disputed(s)
    BY <2>1, <2>2 DEF PlaceOK
  <2>4. Whole(z, s)' \/ Disputed(s)'
    BY <1>4, <1>6, <2>2, <2>3
  <2>5. QED BY <2>2, <2>4 DEF Whole, Disputed, ReplacedUnasked
<1>8. pc[z] \in {"moving", "copying"} =>
        /\ (pc[z] = "moving" => owner[Target(z)] = None \/ Disputed(Target(z)))'
        /\ (pc[z] = "copying" => IF owner[Target(z)] = z THEN Target(z) \in partial ELSE Disputed(Target(z)))'
  <2>1. SUFFICES ASSUME pc[z] \in {"moving", "copying"}
                 PROVE  /\ (pc[z] = "moving" => owner[Target(z)] = None \/ Disputed(Target(z)))'
                        /\ (pc[z] = "copying" => IF owner[Target(z)] = z THEN Target(z) \in partial
                                                ELSE Disputed(Target(z)))'
    OBVIOUS
  <2>2. PICK t \in Slot : t = Target(z) /\ t = Target(z)' /\ t[1] \in {z, Out} /\ Aiming(z, t)
    BY <1>3, <2>1
  <2>3. /\ pc[z] = "moving" => owner[t] = None \/ Disputed(t)
        /\ pc[z] = "copying" => IF owner[t] = z THEN t \in partial ELSE Disputed(t)
    BY <2>2 DEF PlaceOK
  <2>4. /\ owner'[t] = z => owner[t] = z /\ (t \in partial' <=> t \in partial)
        /\ owner[t] = z /\ owner'[t] # z => Disputed(t)'
        /\ owner[t] = None /\ owner'[t] # None => Disputed(t)'
    BY <2>2 DEF Respects
  <2>5. /\ pc[z] = "moving" => owner'[t] = None \/ Disputed(t)'
        /\ pc[z] = "copying" => IF owner'[t] = z THEN t \in partial' ELSE Disputed(t)'
    BY <1>4, <2>3, <2>4
  <2>6. Disputed(t)' => Disputed(Target(z))'
    BY <2>2 DEF Disputed, ReplacedUnasked
  <2>7. QED BY <2>2, <2>5, <2>6
<1>9. pc[z] \in {"closing", "done"} => Complete(z)'
  <2>1. Entries(z)' = Entries(z)
    BY DEF Entries
  <2>2. SUFFICES ASSUME pc[z] \in {"closing", "done"}, NEW x \in Entries(z)
                 PROVE  Whole(z, <<Out, x>>)' \/ Disputed(<<Out, x>>)'
    BY <2>1 DEF Complete
  <2>3. x \in Entry
    <3>1. job[z] \in Jobs
      BY <2>2, JobKnown
    <3>2. job[z].entries \in Seq(Entry)
      BY <3>1 DEF Jobs
    <3>3. QED BY <2>2, <3>2 DEF Entries
  <2>4. Whole(z, <<Out, x>>) \/ Disputed(<<Out, x>>)
    BY <2>2 DEF PlaceOK, Complete
  <2>5. QED BY <1>4, <1>5, <1>6, <2>3, <2>4
<1>10. ASSUME NEW x \in Entry, owner'[<<Out, x>>] = z
       PROVE  (\/ pc[z] \in Moves /\ Place(z) = Out /\ x \in committed[z]
               \/ pc[z] = "copying" /\ Target(z) = <<Out, x>>
               \/ <<Out, x>> \in partial \cup stuck
               \/ pc[z] \in {"closing", "done"})'
  <2>1. owner[<<Out, x>>] = z /\ (<<Out, x>> \in partial' <=> <<Out, x>> \in partial)
    BY <1>5, <1>10 DEF Respects
  <2>2. \/ pc[z] \in Moves /\ Place(z) = Out /\ x \in committed[z]
        \/ pc[z] = "copying" /\ Target(z) = <<Out, x>>
        \/ <<Out, x>> \in partial \cup stuck
        \/ pc[z] \in {"closing", "done"}
    BY <2>1 DEF PlaceOK
  <2>3. QED BY <1>2, <1>3, <2>1, <2>2 DEF Respects
<1>11. QED BY <1>7, <1>8, <1>9, <1>10 DEF PlaceOK, Moves

\* Before its first round and between its rounds an extraction has nothing in
\* the user's folder, but for what could not be undone.
LEMMA PlaceIdle ==
  ASSUME NEW e \in Ext, PlaceOK(e), pc[e] \notin Moves \cup {"closing", "done"},
         pc'[e] \notin {"moving", "copying", "closing", "done"},
         pc'[e] \in Moves => committed'[e] = {} /\ index'[e] = 1,
         job'[e] \in Jobs \cup {None}, pc'[e] = "checking" => job'[e] # None,
         UNCHANGED <<owner, partial>>, stuck \subseteq stuck'
  PROVE  PlaceOK(e)'
<1>1. (\A i \in DOMAIN job[e].entries : i < index[e] => job[e].entries[i] \in committed[e])' \/ pc'[e] # "checking"
  <2>1. SUFFICES ASSUME pc'[e] = "checking"
                 PROVE  (\A i \in DOMAIN job[e].entries : i < index[e] => job[e].entries[i] \in committed[e])'
    OBVIOUS
  <2>2. job'[e].entries \in Seq(Entry) /\ index'[e] = 1
    BY <2>1 DEF Jobs, Moves
  <2>3. \A i \in DOMAIN job'[e].entries : i \in Nat /\ i > 0
    BY <2>2
  <2>4. QED BY <2>2, <2>3
<1>2. QED BY <1>1 DEF PlaceOK, Moves

LEMMA FlatUnder ==
  ASSUME Flat, NEW x
  PROVE  Under(x) = {x}
BY DEF Flat, Under

\* Whatever one extraction does to a slot another one filled or found free is a
\* race, or a single file put in place.
LEMMA PlaceReach ==
  ASSUME Flat, StepInv, PlaceInv, NEW e \in Ext, Step(e), NEW z \in Ext, z # e
  PROVE  Respects(z)
<1> USE DEF At, Running, Go, extVars, ownVars, places, janVars, histVars
<1>0. /\ owner \in [Slot -> Ext \cup {"user", None}] /\ z # None /\ e # None /\ pc \in [Ext -> States]
      /\ committed[e] \subseteq Entry
  BY ExtractAssumption DEF StepInv, Typed
<1>a. raced \subseteq raced' /\ stuck \subseteq stuck'
  <2>1. CASE Discard(e)
    BY <2>1, DiscardStep DEF SecureRemove
  <2>2. CASE NeedContainer(e) \/ DropContainer(e) \/ EndMove(e)
    BY <2>2 DEF NeedContainer, DropContainer, EndMove, Drop, SecureRemove
  <2>3. CASE Decode(e) \/ Move(e) \/ StartCopy(e) \/ EndCopy(e) \/ Undo(e) \/ ClearPreview(e)
    BY <2>3 DEF Decode, Move, StartCopy, EndCopy, Undo, ClearPreview
  <2>4. CASE Record(e) \/ Unrecord(e) \/ MakeRoot(e) \/ MakeContainer(e) \/ MakePart(e) \/ ExtractEntry(e)
             \/ Verify(e) \/ MakeOutput(e) \/ Check(e) \/ Fail(e) \/ EndDelivery(e)
    BY <2>4 DEF Record, Unrecord, MakeRoot, MakeContainer, MakePart, ExtractEntry, Verify, MakeOutput, Check, Fail,
       EndDelivery
  <2>5. QED BY <2>1, <2>2, <2>3, <2>4 DEF Step
<1>1. ASSUME UNCHANGED <<owner, partial>> PROVE Respects(z)
  BY <1>a, <1>1 DEF Respects
<1>2. CASE Record(e) \/ Unrecord(e) \/ MakeRoot(e) \/ MakeContainer(e) \/ MakePart(e) \/ NeedContainer(e)
           \/ ExtractEntry(e) \/ Verify(e) \/ DropContainer(e) \/ MakeOutput(e) \/ Check(e) \/ Fail(e)
           \/ EndMove(e) \/ EndDelivery(e)
  BY <1>1, <1>2 DEF Record, Unrecord, MakeRoot, MakeContainer, MakePart, NeedContainer, ExtractEntry, Verify,
     DropContainer, MakeOutput, Check, Fail, EndMove, EndDelivery
<1>3. CASE Discard(e)
  BY <1>1, <1>3, DiscardStep
<1>4. CASE Decode(e)
  <2>1. CASE ~Intact(e) \/ ~Is(e, {"single"})
    BY <1>1, <1>4, <2>1 DEF Decode
  <2>2. CASE Intact(e) /\ Is(e, {"single"})
    <3>1. PICK t : t = Target(e) /\ t = <<Out, Current(e)>>
      BY <2>2 DEF Target, Place, Is
    <3>2. /\ owner' = [owner EXCEPT ![t] = e] /\ partial' = partial \ {t} /\ pc'[e] = "done"
          /\ UNCHANGED <<job, index>>
      BY <1>0, <1>4, <2>2, <3>1 DEF Decode
    <3>3. Disputed(t)'
      BY <2>2, <3>1, <3>2 DEF Disputed, ReplacedUnasked, Is, Current
    <3>4. \A s \in Slot : s # t => owner'[s] = owner[s] /\ (s \in partial' <=> s \in partial)
      BY <1>0, <3>2
    <3>5. t \in Slot => owner'[t] = e
      BY <1>0, <3>2
    <3>6. ASSUME NEW s \in Slot
          PROVE  /\ owner'[s] = z => owner[s] = z /\ (s \in partial' <=> s \in partial)
                 /\ owner[s] = z /\ owner'[s] # z => Disputed(s)'
                 /\ owner[s] = None /\ owner'[s] # None => Disputed(s)'
      <4>1. CASE s = t
        BY <3>3, <3>5, <4>1
      <4>2. CASE s # t
        BY <3>4, <4>2
      <4>3. QED BY <4>1, <4>2
    <3>7. QED BY <1>a, <3>6 DEF Respects
  <2>3. QED BY <2>1, <2>2
<1>5. CASE Move(e)
  <2> DEFINE x == Current(e)
             slots == {<<Place(e), y>> : y \in Under(x) \cap staged[e]}
  <2>1. /\ owner' = IF x \in Dir /\ owner[Target(e)] # None THEN owner
                    ELSE [s \in Slot |-> IF s \in slots THEN e ELSE owner[s]]
        /\ partial' = partial \ slots
        /\ raced' = raced \cup Races(e, slots) \cup {s \in slots : owner[s] # None}
    BY <1>5 DEF Move
  <2>2. slots \subseteq {Target(e)} /\ (x \in Dir => \A s \in partial : s \notin slots)
    BY FlatUnder DEF Target, PlaceInv
  <2> HIDE DEF x, slots
  <2>3. ASSUME NEW s \in Slot
        PROVE  /\ owner'[s] = z => owner[s] = z /\ (s \in partial' <=> s \in partial)
               /\ owner[s] = z /\ owner'[s] # z => s \in raced'
               /\ Aiming(z, s) /\ owner[s] = None /\ owner'[s] # None => s \in raced'
    <3>1. CASE s \notin slots
      BY <2>1, <3>1
    <3>2. CASE s \in slots
      BY <1>0, <2>1, <2>2, <3>2 DEF Races
    <3>3. QED BY <3>1, <3>2
  <2>4. QED BY <1>a, <2>3 DEF Respects, Disputed
<1>6. CASE StartCopy(e)
  <2>1. PICK t : t = Target(e)
    OBVIOUS
  <2>2. /\ owner' = [owner EXCEPT ![t] = e] /\ partial' = partial \cup {t}
        /\ raced' = raced \cup Races(e, {t}) \cup (IF owner[t] # None THEN {t} ELSE {})
    BY <1>6, <2>1 DEF StartCopy
  <2>3. ASSUME NEW s \in Slot
        PROVE  /\ owner'[s] = z => owner[s] = z /\ (s \in partial' <=> s \in partial)
               /\ owner[s] = z /\ owner'[s] # z => s \in raced'
               /\ Aiming(z, s) /\ owner[s] = None /\ owner'[s] # None => s \in raced'
    <3>1. CASE s = t
      BY <1>0, <2>2, <3>1 DEF Races
    <3>2. CASE s # t
      BY <1>0, <2>2, <3>2
    <3>3. QED BY <3>1, <3>2
  <2>4. QED BY <1>a, <2>3 DEF Respects, Disputed
<1>7. CASE EndCopy(e)
  <2>0. PICK t : t = Target(e)
    OBVIOUS
  <2>1. owner' = owner /\ partial' = IF owner[t] = e THEN partial \ {t} ELSE partial
    BY <1>7, <2>0 DEF EndCopy
  <2>2. \A s \in Slot : owner[s] = z => (s \in partial' <=> s \in partial)
    BY <2>1
  <2>3. QED BY <1>a, <2>1, <2>2 DEF Respects
<1>8. CASE Undo(e)
  <2>1. PICK x \in committed[e] :
          \/ /\ owner' = [s \in Slot |-> IF s \in {<<Place(e), y>> : y \in Under(x)} THEN None ELSE owner[s]]
             /\ partial' = partial \ {<<Place(e), y>> : y \in Under(x)}
          \/ UNCHANGED <<owner, partial>>
    BY <1>8 DEF Undo
  <2>2. pc[e] = "undoing"
    BY <1>8 DEF Undo
  <2>3. PICK t : t = <<Place(e), x>> /\ {<<Place(e), y>> : y \in Under(x)} = {t}
    <3>1. Under(x) = {x}
      BY FlatUnder
    <3>2. {<<Place(e), y>> : y \in Under(x)} = {<<Place(e), x>>}
      BY <3>1
    <3>3. QED BY <3>2
  <2>4. Whole(e, t) \/ Disputed(t)
    BY <2>2, <2>3 DEF PlaceInv, PlaceOK, Moves
  <2>5. Disputed(t) => Disputed(t)'
    BY <1>a, ReplacedStays DEF Disputed, Next
  <2>6. CASE owner' = [s \in Slot |-> IF s \in {t} THEN None ELSE owner[s]] /\ partial' = partial \ {t}
    <3>1. ASSUME NEW s \in Slot
          PROVE  /\ owner'[s] = z => owner[s] = z /\ (s \in partial' <=> s \in partial)
                 /\ owner[s] = z /\ owner'[s] # z => Disputed(s)'
                 /\ owner[s] = None => owner'[s] = None
      <4>1. CASE s = t
        BY <1>0, <2>4, <2>5, <2>6, <4>1 DEF Whole
      <4>2. CASE s # t
        BY <2>6, <4>2
      <4>3. QED BY <4>1, <4>2
    <3>2. QED BY <1>a, <3>1 DEF Respects
  <2>7. QED BY <1>1, <2>1, <2>3, <2>6
<1>9. CASE ClearPreview(e)
  <2>1. \A s \in Slot : s[1] # e => owner'[s] = owner[s] /\ (s \in partial' <=> s \in partial)
    <3> DEFINE slots == {<<e, y>> : y \in Entry}
    <3>1. \E gone_ \in SUBSET slots : /\ owner' = [s \in Slot |-> IF s \in gone_ THEN None ELSE owner[s]]
                                      /\ partial' = partial \ gone_
      <4>1. CASE /\ owner' = [s \in Slot |-> IF s \in slots THEN None ELSE owner[s]]
                 /\ partial' = partial \ slots
        <5>1. slots \in SUBSET slots
          OBVIOUS
        <5>2. QED BY <4>1, <5>1
      <4>2. CASE \E t \in slots : /\ owner' = [s \in Slot |-> IF s \in slots \ {t} THEN None ELSE owner[s]]
                                  /\ partial' = partial \ (slots \ {t})
        <5>1. PICK t \in slots : /\ owner' = [s \in Slot |-> IF s \in slots \ {t} THEN None ELSE owner[s]]
                                 /\ partial' = partial \ (slots \ {t})
          BY <4>2
        <5>2. slots \ {t} \in SUBSET slots
          OBVIOUS
        <5>3. QED BY <5>1, <5>2
      <4>3. QED BY <1>9, <4>1, <4>2 DEF ClearPreview
    <3>2. \A s \in slots : s[1] = e
      OBVIOUS
    <3> HIDE DEF slots
    <3>3. QED BY <3>1, <3>2
  <2>2. Out # e
    BY ExtractAssumption
  <2>3. QED BY <1>a, <2>1, <2>2 DEF Respects
<1>10. QED
  BY <1>2, <1>3, <1>4, <1>5, <1>6, <1>7, <1>8, <1>9 DEF Step

\* An extraction that has been through its list committed every entry of it.
LEMMA AllCommitted ==
  ASSUME StepInv, PlaceInv, NEW e \in Ext, pc[e] = "checking", ~Listed(e)
  PROVE  Entries(e) \subseteq committed[e]
<1>1. job[e].entries \in Seq(Entry) /\ index[e] \in Nat /\ index[e] > 0
  BY JobKnown DEF StepInv, Typed, StepOK, JobOK, Jobs
<1>2. \A i \in DOMAIN job[e].entries : i < index[e]
  BY <1>1 DEF Listed
<1>3. \A i \in DOMAIN job[e].entries : i < index[e] => job[e].entries[i] \in committed[e]
  BY DEF PlaceInv, PlaceOK
<1>4. QED BY <1>2, <1>3 DEF Entries

\* The entries before the next position are those before this one, and this one.
LEMMA CommittedOneMore ==
  ASSUME StepInv, PlaceInv, NEW e \in Ext, pc[e] \in {"moving", "copying"},
         job'[e] = job[e], index'[e] = index[e] + 1, committed'[e] = committed[e] \cup {Current(e)}
  PROVE  \A i \in DOMAIN job'[e].entries : i < index'[e] => job'[e].entries[i] \in committed'[e]
<1>1. job[e].entries \in Seq(Entry) /\ index[e] \in Nat
  BY JobKnown DEF StepInv, Typed, Jobs
<1>2. \A i \in DOMAIN job[e].entries : i < index[e] => job[e].entries[i] \in committed[e]
  BY DEF PlaceInv, PlaceOK
<1>3. \A i \in DOMAIN job[e].entries : i < index[e] + 1 => i < index[e] \/ i = index[e]
  BY <1>1
<1>4. QED BY <1>2, <1>3 DEF Current

LEMMA PlaceOwn ==
  ASSUME Flat, StepInv, UserInv, PlaceInv, NEW e \in Ext, Step(e)
  PROVE  PlaceOK(e)' /\ \A s \in partial' : s[2] \notin Dir
<1> USE DEF At, Running, Go, extVars, ownVars, places, janVars, histVars
<1>0. /\ owner \in [Slot -> Ext \cup {"user", None}] /\ e # None /\ pc \in [Ext -> States]
      /\ committed[e] \subseteq Entry /\ committed \in [Ext -> SUBSET Entry] /\ index \in [Ext -> Nat]
      /\ mine \in [Ext -> SUBSET Artifact] /\ job \in [Ext -> Jobs \cup {None}]
  BY ExtractAssumption DEF StepInv, Typed
<1>a. StepOK(e) /\ PlaceOK(e) /\ (\A s \in partial : s[2] \notin Dir) /\ UNCHANGED job
  BY StepReach DEF StepInv, PlaceInv
<1>b. \A x \in Entry : <<Out, x>> \in Slot /\ <<e, x>> \in Slot /\ <<Place(e), x>> \in Slot
  BY DEF Slot, Place
<1>c. ASSUME mine'[e] = mine[e] PROVE Place(e)' = Place(e) /\ Delivering(e)' = Delivering(e)
  BY <1>a, <1>c DEF Place, Delivering, Is, Root
<1>d. \A s : Disputed(s) /\ raced \subseteq raced' => Disputed(s)'
  BY ReplacedStays DEF Disputed, Next
<1>e. e # Out
  BY ExtractAssumption
<1>f. raced \subseteq raced' /\ stuck \subseteq stuck'
  <2>1. CASE Discard(e)
    BY <2>1, DiscardStep DEF SecureRemove
  <2>2. CASE NeedContainer(e) \/ DropContainer(e) \/ EndMove(e)
    BY <2>2 DEF NeedContainer, DropContainer, EndMove, Drop, SecureRemove
  <2>3. CASE Decode(e) \/ Move(e) \/ StartCopy(e) \/ EndCopy(e) \/ Undo(e) \/ ClearPreview(e)
    BY <2>3 DEF Decode, Move, StartCopy, EndCopy, Undo, ClearPreview
  <2>4. CASE Record(e) \/ Unrecord(e) \/ MakeRoot(e) \/ MakeContainer(e) \/ MakePart(e) \/ ExtractEntry(e)
             \/ Verify(e) \/ MakeOutput(e) \/ Check(e) \/ Fail(e) \/ EndDelivery(e)
    BY <2>4 DEF Record, Unrecord, MakeRoot, MakeContainer, MakePart, ExtractEntry, Verify, MakeOutput, Check, Fail,
       EndDelivery
  <2>5. QED BY <2>1, <2>2, <2>3, <2>4 DEF Step
<1>1. ASSUME UNCHANGED <<owner, partial>>, PlaceOK(e)' PROVE PlaceOK(e)' /\ \A s \in partial' : s[2] \notin Dir
  BY <1>a, <1>1
<1>2. CASE Record(e) \/ Unrecord(e)
  <2>1. UNCHANGED <<pc, index, committed, owner, partial, raced, stuck>>
    BY <1>2 DEF Record, Unrecord
  <2>2. pc[e] \in Moves => mine'[e] = mine[e]
    BY <1>a, <1>2 DEF Record, Unrecord, StepOK
  <2>3. Respects(e)
    BY <2>1 DEF Respects
  <2>4. PlaceOK(e)'
    BY <1>a, <2>1, <2>2, <2>3, PlaceOthers DEF Next
  <2>5. QED BY <1>1, <2>1, <2>4
<1>3. CASE /\ UNCHANGED <<owner, partial>> /\ pc[e] \notin Moves \cup {"closing", "done", "idle"}
           /\ pc'[e] \notin {"moving", "copying", "closing", "done"}
           /\ pc'[e] \in Moves => committed'[e] = {} /\ index'[e] = 1
  <2>1. job'[e] \in Jobs /\ job'[e] # None
    BY <1>a, <1>3, JobKnown
  <2>2. PlaceOK(e)'
    BY <1>a, <1>f, <1>3, <2>1, PlaceIdle
  <2>3. QED BY <1>1, <1>3, <2>2
<1>4. CASE \/ MakeRoot(e) \/ MakeContainer(e) \/ MakePart(e) \/ NeedContainer(e) \/ ExtractEntry(e) \/ Verify(e)
           \/ DropContainer(e)
  BY <1>0, <1>3, <1>4 DEF MakeRoot, MakeContainer, MakePart, NeedContainer, ExtractEntry, Verify, DropContainer, Moves
<1>5. CASE Discard(e)
  <2>1. pc[e] = "failing" /\ pc'[e] \in {"failing", "dropping", "failed"} /\ UNCHANGED <<owner, partial>>
    BY <1>0, <1>5, DiscardStep
  <2>2. QED BY <1>3, <2>1 DEF Moves
<1>6. CASE Decode(e)
  <2>1. CASE ~Intact(e) \/ ~Is(e, {"single"})
    BY <1>0, <1>3, <1>6, <2>1 DEF Decode, Moves
  <2>2. CASE Intact(e) /\ Is(e, {"single"})
    <3>1. PICK t : t = Target(e) /\ t = <<Out, Current(e)>>
      BY <2>2 DEF Target, Place, Is
    <3>2. /\ owner' = [owner EXCEPT ![t] = e] /\ partial' = partial \ {t} /\ pc'[e] = "done"
          /\ pc[e] = "decoding" /\ UNCHANGED <<job, index>>
      BY <1>0, <1>6, <2>2, <3>1 DEF Decode
    <3>3. t \in Slot
      BY <2>2, <3>1, <3>2, TargetType
    <3>4. \A x \in Entries(e) : <<Out, x>> = t
      <4>1. index[e] = 1 /\ Len(job[e].entries) = 1 /\ job[e].entries \in Seq(Entry)
        BY <1>a, <2>2, <3>2, JobKnown, ExtractAssumption DEF StepOK, JobOK, Jobs
      <4>2. \A i \in DOMAIN job[e].entries : i = index[e]
        BY <4>1
      <4>3. QED BY <3>1, <4>2 DEF Entries, Current
    <3>5. Complete(e)'
      <4>1. Whole(e, t)'
        BY <1>0, <3>2, <3>3 DEF Whole
      <4>2. QED BY <1>a, <3>4, <4>1 DEF Complete, Entries
    <3>6. PlaceOK(e)'
      BY <3>2, <3>5 DEF PlaceOK, Moves
    <3>7. QED BY <1>a, <3>2, <3>6
  <2>3. QED BY <2>1, <2>2
<1>7. CASE MakeOutput(e)
  <2>1. pc[e] = "verified" /\ UNCHANGED <<owner, partial, committed>>
        /\ \/ pc'[e] = "checking" /\ index'[e] = 1
           \/ pc'[e] \in {"failed", "dropping"}
    BY <1>0, <1>7 DEF MakeOutput
  <2>2. committed[e] = {}
    BY <2>1 DEF UserInv, UserOK, Moves
  <2>3. QED BY <1>3, <2>1, <2>2 DEF Moves
<1>8. CASE Check(e)
  <2>1. /\ pc[e] = "checking" /\ UNCHANGED <<index, committed, mine, owner, partial, raced, stuck>>
        /\ \/ pc'[e] = "undoing"
           \/ pc'[e] = "moving" /\ owner[Target(e)] = None
    BY <1>0, <1>8 DEF Check, Refused
  <2>2. Place(e)' = Place(e) /\ Target(e)' = Target(e)
    BY <1>a, <1>c, <2>1 DEF Target, Current
  <2>3. \A x : Whole(e, <<Place(e), x>>)' = Whole(e, <<Place(e), x>>)
    BY <2>1, <2>2 DEF Whole
  <2>4. \A x : Disputed(<<Place(e), x>>) => Disputed(<<Place(e), x>>)'
    BY <1>d, <2>1, <2>2 DEF Disputed, ReplacedUnasked
  <2>5. PlaceOK(e)'
    BY <1>a, <2>1, <2>2, <2>3, <2>4 DEF PlaceOK, Moves
  <2>6. QED BY <1>1, <2>1, <2>5
<1>9. CASE Move(e)
  <2> DEFINE x == Current(e)
             slots == {<<Place(e), y>> : y \in Under(x) \cap staged[e]}
  <2>1. /\ pc[e] = "moving" /\ pc'[e] = "checking" /\ mine' = mine /\ stuck' = stuck
        /\ committed'[e] = committed[e] \cup {x} /\ index'[e] = index[e] + 1 /\ x \in staged[e]
        /\ owner' = IF x \in Dir /\ owner[Target(e)] # None THEN owner
                    ELSE [s \in Slot |-> IF s \in slots THEN e ELSE owner[s]]
        /\ partial' = partial \ slots
    BY <1>0, <1>9 DEF Move, NextEntry, Available
  <2>2. PICK t \in Slot : t = Target(e) /\ t = <<Place(e), x>> /\ slots = {t}
    <3>1. Under(x) = {x}
      BY FlatUnder
    <3>2. slots = {<<Place(e), x>>}
      BY <2>1, <3>1
    <3>3. QED BY <2>1, <3>2, TargetType DEF Target
  <2>3. x \in Entry
    BY <2>1, TargetType
  <2> HIDE DEF x, slots
  <2>4. Whole(e, t)' \/ Disputed(t)'
    <3>1. owner[t] = None \/ Disputed(t)
      BY <1>a, <2>1, <2>2 DEF PlaceOK
    <3>2. CASE owner'[t] = e
      BY <2>1, <2>2, <3>2 DEF Whole
    <3>3. CASE owner'[t] # e
      <4>1. owner[t] # None
        BY <2>1, <2>2, <3>3
      <4>2. QED BY <1>d, <1>f, <3>1, <4>1
    <3>4. QED BY <3>2, <3>3
  <2>5. \A s \in Slot : s # t => owner'[s] = owner[s] /\ (s \in partial' <=> s \in partial)
    BY <2>1, <2>2
  <2>6. PICK o \in {e, Out} : o = Place(e) /\ o = Place(e)'
    BY <1>c, <2>1 DEF Place
  <2>7. \A y \in committed'[e] : Whole(e, <<o, y>>)' \/ Disputed(<<o, y>>)'
    <3>1. ASSUME NEW y \in committed[e] PROVE Whole(e, <<o, y>>)' \/ Disputed(<<o, y>>)'
      <4>1. CASE <<o, y>> = t
        BY <2>4, <4>1
      <4>2. CASE <<o, y>> # t
        <5>1. Whole(e, <<o, y>>) \/ Disputed(<<o, y>>)
          BY <1>a, <2>1, <2>6 DEF PlaceOK, Moves
        <5>2. <<o, y>> \in Slot
          BY <1>0, <1>b, <2>6
        <5>3. QED BY <1>d, <1>f, <2>5, <4>2, <5>1, <5>2 DEF Whole
      <4>3. QED BY <4>1, <4>2
    <3>2. <<o, x>> = t
      BY <2>2, <2>6
    <3>3. QED BY <2>1, <2>4, <3>1, <3>2
  <2>8. \A i \in DOMAIN job'[e].entries : i < index'[e] => job'[e].entries[i] \in committed'[e]
    BY <1>a, <2>1, CommittedOneMore DEF x
  <2>9. ASSUME NEW y \in Entry, owner'[<<Out, y>>] = e
        PROVE  (o = Out /\ y \in committed'[e]) \/ <<Out, y>> \in partial' \cup stuck'
    <3>1. CASE <<Out, y>> = t
      BY <2>1, <2>2, <2>6, <3>1
    <3>2. CASE <<Out, y>> # t
      BY <1>a, <1>b, <2>1, <2>2, <2>5, <2>6, <2>9, <3>2 DEF PlaceOK
    <3>3. QED BY <3>1, <3>2
  <2>10. PlaceOK(e)'
    BY <2>1, <2>6, <2>7, <2>8, <2>9 DEF PlaceOK, Moves
  <2>11. QED BY <1>a, <2>1, <2>10
<1>10. CASE StartCopy(e)
  <2>1. PICK t \in Slot : t = Target(e) /\ t = <<Place(e), Current(e)>> /\ Current(e) \in Entry
    BY <1>10, TargetType DEF StartCopy, Target
  <2>2. /\ pc[e] = "moving" /\ pc'[e] = "copying" /\ UNCHANGED <<index, committed, mine, stuck>>
        /\ owner' = [owner EXCEPT ![t] = e] /\ partial' = partial \cup {t} /\ Current(e) \notin Dir
        /\ owner[t] # None => t \in raced'
    BY <1>0, <1>10, <2>1 DEF StartCopy
  <2>3. PICK o \in {e, Out} : o = Place(e) /\ o = Place(e)' /\ t = Target(e)'
    BY <1>a, <1>c, <2>1, <2>2 DEF Place, Target, Current
  <2>4. owner'[t] = e /\ t \in partial'
    BY <1>0, <2>2
  <2>5. \A s \in Slot : s # t => owner'[s] = owner[s] /\ (s \in partial' <=> s \in partial)
    BY <1>0, <2>2
  <2>6. \A y \in committed'[e] : Whole(e, <<o, y>>)' \/ Disputed(<<o, y>>)'
    <3>1. SUFFICES ASSUME NEW y \in committed[e] PROVE Whole(e, <<o, y>>)' \/ Disputed(<<o, y>>)'
      BY <2>2
    <3>2. Whole(e, <<o, y>>) \/ Disputed(<<o, y>>)
      BY <1>a, <2>2, <2>3 DEF PlaceOK, Moves
    <3>3. <<o, y>> \in Slot
      BY <1>0, <1>b, <2>3
    <3>4. CASE <<o, y>> = t
      BY <1>0, <1>d, <1>f, <2>2, <3>2, <3>4 DEF Whole, Disputed
    <3>5. CASE <<o, y>> # t
      BY <1>d, <1>f, <2>5, <3>2, <3>3, <3>5 DEF Whole
    <3>6. QED BY <3>4, <3>5
  <2>7. ASSUME NEW y \in Entry, owner'[<<Out, y>>] = e
        PROVE  \/ o = Out /\ y \in committed'[e]
               \/ t = <<Out, y>>
               \/ <<Out, y>> \in partial' \cup stuck'
    BY <1>a, <1>b, <2>2, <2>3, <2>5, <2>7 DEF PlaceOK
  <2>8. \A i \in DOMAIN job'[e].entries : i < index'[e] => job'[e].entries[i] \in committed'[e]
    BY <1>a, <2>2 DEF PlaceOK
  <2>9. PlaceOK(e)'
    BY <2>2, <2>3, <2>4, <2>6, <2>7, <2>8 DEF PlaceOK, Moves
  <2>10. t[2] \notin Dir
    BY <2>1, <2>2
  <2>11. QED BY <1>a, <2>2, <2>9, <2>10
<1>11. CASE EndCopy(e)
  <2>1. PICK t \in Slot : t = Target(e) /\ t = <<Place(e), Current(e)>> /\ Current(e) \in Entry
    BY <1>11, TargetType DEF EndCopy, Target
  <2>2. /\ pc[e] = "copying" /\ pc'[e] = "checking" /\ UNCHANGED <<mine, stuck, owner>>
        /\ committed'[e] = committed[e] \cup {Current(e)} /\ index'[e] = index[e] + 1
        /\ partial' = IF owner[t] = e THEN partial \ {t} ELSE partial
    BY <1>0, <1>11, <2>1 DEF EndCopy, NextEntry
  <2>3. PICK o \in {e, Out} : o = Place(e) /\ o = Place(e)'
    BY <1>c, <2>2 DEF Place
  <2>4. Whole(e, t)' \/ Disputed(t)'
    BY <1>a, <1>d, <1>f, <2>1, <2>2 DEF PlaceOK, Whole
  <2>5. \A y \in committed'[e] : Whole(e, <<o, y>>)' \/ Disputed(<<o, y>>)'
    <3>1. ASSUME NEW y \in committed[e] PROVE Whole(e, <<o, y>>)' \/ Disputed(<<o, y>>)'
      <4>1. Whole(e, <<o, y>>) \/ Disputed(<<o, y>>)
        BY <1>a, <2>2, <2>3 DEF PlaceOK, Moves
      <4>2. QED BY <1>d, <1>f, <2>2, <4>1 DEF Whole
    <3>2. QED BY <2>1, <2>2, <2>3, <2>4, <3>1
  <2>6. \A i \in DOMAIN job'[e].entries : i < index'[e] => job'[e].entries[i] \in committed'[e]
    BY <1>a, <2>2, CommittedOneMore
  <2>7. ASSUME NEW y \in Entry, owner'[<<Out, y>>] = e
        PROVE  (o = Out /\ y \in committed'[e]) \/ <<Out, y>> \in partial' \cup stuck'
    <3>1. CASE <<Out, y>> = t
      BY <2>1, <2>2, <2>3, <3>1
    <3>2. CASE <<Out, y>> # t
      BY <1>a, <2>1, <2>2, <2>3, <2>7, <3>2 DEF PlaceOK
    <3>3. QED BY <3>1, <3>2
  <2>8. PlaceOK(e)'
    BY <2>2, <2>3, <2>5, <2>6, <2>7 DEF PlaceOK, Moves
  <2>9. QED BY <1>a, <2>2, <2>8
<1>12. CASE Fail(e)
  <2>1. UNCHANGED <<index, committed, mine, owner, partial, raced, stuck>>
    BY <1>12 DEF Fail
  <2>2. CASE pc[e] \in {"moving", "copying"}
    <3>1. pc'[e] = "undoing"
      BY <1>0, <1>12, <2>2 DEF Fail
    <3>2. PICK o : o = Place(e) /\ o = Place(e)'
      BY <1>c, <2>1
    <3>3. \A y : Whole(e, <<o, y>>) \/ Disputed(<<o, y>>) => Whole(e, <<o, y>>)' \/ Disputed(<<o, y>>)'
      BY <1>d, <1>f, <2>1 DEF Whole
    <3>4. PlaceOK(e)'
      BY <1>a, <2>1, <2>2, <3>1, <3>2, <3>3 DEF PlaceOK, Moves
    <3>5. QED BY <1>1, <2>1, <3>4
  <2>3. CASE pc[e] \notin {"moving", "copying"}
    BY <1>0, <1>3, <1>12, <2>1, <2>3 DEF Fail, Moves
  <2>4. QED BY <2>2, <2>3
<1>13. CASE Undo(e)
  <2>1. PICK x \in committed[e] :
          /\ committed' = [committed EXCEPT ![e] = @ \ {x}]
          /\ \/ /\ owner' = [s \in Slot |-> IF s \in {<<Place(e), y>> : y \in Under(x)} THEN None ELSE owner[s]]
                /\ partial' = partial \ {<<Place(e), y>> : y \in Under(x)}
                /\ UNCHANGED stuck
             \/ stuck' = stuck \cup {<<Place(e), x>>} /\ UNCHANGED <<owner, partial>>
    BY <1>13 DEF Undo
  <2>2. pc[e] = "undoing" /\ pc'[e] = "undoing" /\ mine' = mine
    BY <1>13 DEF Undo
  <2>3. PICK o \in {e, Out} : o = Place(e) /\ o = Place(e)'
    BY <1>c, <2>2 DEF Place
  <2>4. PICK t \in Slot : t = <<o, x>> /\ {<<Place(e), y>> : y \in Under(x)} = {t} /\ t = <<Place(e), x>>
    <3>1. Under(x) = {x}
      BY FlatUnder
    <3>2. {<<Place(e), y>> : y \in Under(x)} = {<<o, x>>}
      BY <2>3, <3>1
    <3>3. <<o, x>> \in Slot
      BY <1>0, <1>b, <2>3
    <3>4. QED BY <2>3, <3>2, <3>3
  <2>5. /\ \A s \in Slot : s # t => owner'[s] = owner[s] /\ (s \in partial' <=> s \in partial)
        /\ owner'[t] = None \/ t \in stuck'
        /\ partial' \subseteq partial
    <3>1. CASE owner' = [s \in Slot |-> IF s \in {t} THEN None ELSE owner[s]] /\ partial' = partial \ {t}
      BY <3>1
    <3>2. CASE stuck' = stuck \cup {t} /\ UNCHANGED <<owner, partial>>
      BY <3>2
    <3>3. QED BY <2>1, <2>4, <3>1, <3>2
  <2>6. committed'[e] = committed[e] \ {x}
    BY <1>0, <2>1
  <2>7. \A y \in committed'[e] : Whole(e, <<o, y>>)' \/ Disputed(<<o, y>>)'
    <3>1. SUFFICES ASSUME NEW y \in committed[e], y # x PROVE Whole(e, <<o, y>>)' \/ Disputed(<<o, y>>)'
      BY <2>6
    <3>2. Whole(e, <<o, y>>) \/ Disputed(<<o, y>>)
      BY <1>a, <2>2, <2>3 DEF PlaceOK, Moves
    <3>3. <<o, y>> \in Slot /\ <<o, y>> # t
      <4>1. y \in Entry
        BY <1>0, <3>1
      <4>2. <<o, y>> \in Slot
        BY <1>b, <2>3, <4>1
      <4>3. <<o, y>> # <<o, x>>
        BY <3>1
      <4>4. QED BY <2>4, <4>2, <4>3
    <3>4. QED BY <1>d, <1>f, <2>5, <3>2, <3>3 DEF Whole
  <2>8. ASSUME NEW y \in Entry, owner'[<<Out, y>>] = e
        PROVE  (o = Out /\ y \in committed'[e]) \/ <<Out, y>> \in partial' \cup stuck'
    <3>1. CASE <<Out, y>> = t
      BY <1>0, <2>5, <2>8, <3>1
    <3>2. CASE <<Out, y>> # t
      <4>1. owner[<<Out, y>>] = e
        BY <1>b, <2>5, <2>8, <3>2
      <4>2. (o = Out /\ y \in committed[e]) \/ <<Out, y>> \in partial \cup stuck
        BY <1>a, <2>2, <2>3, <4>1 DEF PlaceOK
      <4>3. o = Out => y # x
        BY <2>4, <3>2
      <4>4. QED BY <1>b, <1>f, <2>5, <2>6, <3>2, <4>2, <4>3
    <3>3. QED BY <3>1, <3>2
  <2>9. PlaceOK(e)'
    BY <2>2, <2>3, <2>7, <2>8 DEF PlaceOK, Moves
  <2>10. QED BY <1>a, <2>5, <2>9
<1>14. CASE EndMove(e)
  <2>1. /\ ~Delivering(e) /\ UNCHANGED <<owner, partial, raced>> /\ committed'[e] = {}
        /\ \/ /\ pc[e] = "checking" /\ ~Listed(e)
              /\ pc'[e] = IF Is(e, {"provider"}) THEN "verified" ELSE "done"
           \/ /\ pc[e] = "undoing" /\ committed[e] = {}
              /\ pc'[e] = IF Is(e, {"provider"}) THEN "dropping" ELSE "failed"
    BY <1>0, <1>14 DEF EndMove
  <2>2. Place(e) = IF Is(e, {"provider"}) THEN e ELSE Out
    BY <2>1 DEF Place
  <2>3. pc'[e] = "done" => Complete(e)'
    <3>1. SUFFICES ASSUME pc'[e] = "done" PROVE Complete(e)'
      OBVIOUS
    <3>2. pc[e] = "checking" /\ ~Listed(e) /\ Place(e) = Out
      BY <2>1, <2>2, <3>1
    <3>3. \A x \in Entries(e) : Whole(e, <<Out, x>>) \/ Disputed(<<Out, x>>)
      BY <1>a, <3>2, AllCommitted DEF PlaceOK, Moves
    <3>4. Entries(e)' = Entries(e)
      BY <1>a DEF Entries
    <3>5. QED BY <1>d, <1>f, <2>1, <3>3, <3>4 DEF Complete, Whole
  <2>4. ASSUME NEW y \in Entry, owner'[<<Out, y>>] = e PROVE <<Out, y>> \in partial' \cup stuck' \/ pc'[e] = "done"
    BY <1>a, <1>e, <1>f, <2>1, <2>2, <2>4 DEF PlaceOK
  <2>5. PlaceOK(e)'
    BY <2>1, <2>3, <2>4 DEF PlaceOK, Moves
  <2>6. QED BY <1>1, <2>1, <2>5
<1>15. CASE EndDelivery(e)
  <2>1. /\ Delivering(e) /\ UNCHANGED <<owner, partial, raced, stuck, committed>>
        /\ \/ pc[e] = "checking" /\ ~Listed(e) /\ pc'[e] = "closing"
           \/ pc[e] = "undoing" /\ committed[e] = {} /\ pc'[e] = "dropping"
    BY <1>0, <1>15 DEF EndDelivery
  <2>2. Place(e) = Out
    BY <2>1 DEF Place
  <2>3. pc'[e] = "closing" => Complete(e)'
    <3>1. SUFFICES ASSUME pc'[e] = "closing" PROVE Complete(e)'
      OBVIOUS
    <3>2. pc[e] = "checking" /\ ~Listed(e)
      BY <2>1, <3>1
    <3>3. \A x \in Entries(e) : Whole(e, <<Out, x>>) \/ Disputed(<<Out, x>>)
      BY <1>a, <2>2, <3>2, AllCommitted DEF PlaceOK, Moves
    <3>4. Entries(e)' = Entries(e)
      BY <1>a DEF Entries
    <3>5. QED BY <1>d, <1>f, <2>1, <3>3, <3>4 DEF Complete, Whole
  <2>4. ASSUME NEW y \in Entry, owner'[<<Out, y>>] = e
        PROVE  <<Out, y>> \in partial' \cup stuck' \/ pc'[e] = "closing"
    BY <1>a, <1>f, <2>1, <2>4 DEF PlaceOK
  <2>5. PlaceOK(e)'
    BY <2>1, <2>3, <2>4 DEF PlaceOK, Moves
  <2>6. QED BY <1>1, <2>1, <2>5
<1>16. CASE ClearPreview(e)
  <2> DEFINE slots == {<<e, y>> : y \in Entry}
  <2>1. /\ raced' = raced
        /\ \/ pc[e] = "closing" /\ pc'[e] = "done"
           \/ pc[e] = "dropping" /\ pc'[e] = "failed"
    <3>1. /\ raced' = raced /\ pc[e] \in {"closing", "dropping"}
          /\ pc' = [pc EXCEPT ![e] = IF pc[e] = "closing" THEN "done" ELSE "failed"]
      BY <1>16 DEF ClearPreview
    <3>2. QED BY <1>0, <3>1
  <2>2. PICK away \in SUBSET slots : /\ owner' = [s \in Slot |-> IF s \in away THEN None ELSE owner[s]]
                                     /\ partial' = partial \ away
    <3>1. CASE /\ owner' = [s \in Slot |-> IF s \in slots THEN None ELSE owner[s]]
               /\ partial' = partial \ slots
      <4>1. slots \in SUBSET slots
        OBVIOUS
      <4>2. QED BY <3>1, <4>1
    <3>2. CASE \E t \in slots : /\ owner' = [s \in Slot |-> IF s \in slots \ {t} THEN None ELSE owner[s]]
                                /\ partial' = partial \ (slots \ {t})
      <4>1. PICK t \in slots : /\ owner' = [s \in Slot |-> IF s \in slots \ {t} THEN None ELSE owner[s]]
                               /\ partial' = partial \ (slots \ {t})
        BY <3>2
      <4>2. slots \ {t} \in SUBSET slots
        OBVIOUS
      <4>3. QED BY <4>1, <4>2
    <3>3. QED BY <1>16, <3>1, <3>2 DEF ClearPreview
  <2>3. \A y : <<Out, y>> \notin away
    BY <1>e
  <2> HIDE DEF slots
  <2>4. \A y \in Entry : owner'[<<Out, y>>] = owner[<<Out, y>>] /\ (<<Out, y>> \in partial' <=> <<Out, y>> \in partial)
    BY <1>b, <2>2, <2>3
  <2>5. Entries(e)' = Entries(e) /\ Entries(e) \subseteq Entry
    <3>1. job[e] \in Jobs
      BY <2>1, JobKnown
    <3>2. job[e].entries \in Seq(Entry)
      BY <3>1 DEF Jobs
    <3>3. QED BY <1>a, <3>2 DEF Entries
  <2>6. pc'[e] = "done" => Complete(e)'
    BY <1>a, <1>d, <2>1, <2>4, <2>5 DEF PlaceOK, Complete, Whole
  <2>7. ASSUME NEW y \in Entry, owner'[<<Out, y>>] = e PROVE <<Out, y>> \in partial' \cup stuck' \/ pc'[e] = "done"
    BY <1>a, <1>f, <2>1, <2>4, <2>7 DEF PlaceOK, Moves
  <2>8. PlaceOK(e)'
    BY <2>1, <2>6, <2>7 DEF PlaceOK, Moves
  <2>9. QED BY <1>a, <2>2, <2>8
<1>17. QED
  BY <1>2, <1>4, <1>5, <1>6, <1>7, <1>8, <1>9, <1>10, <1>11, <1>12, <1>13, <1>14, <1>15, <1>16 DEF Step

LEMMA PlaceStep ==
  ASSUME Flat, StepInv, UserInv, PlaceInv, [Next]_vars
  PROVE  PlaceInv'
<1>1. ASSUME NEW e \in Ext, Step(e) PROVE PlaceInv'
  <2>1. PlaceOK(e)' /\ \A s \in partial' : s[2] \notin Dir
    BY <1>1, PlaceOwn
  <2>2. ASSUME NEW z \in Ext, z # e PROVE PlaceOK(z)'
    <3>1. Respects(z) /\ PlaceOK(z)
      BY <1>1, <2>2, PlaceReach DEF PlaceInv
    <3>2. /\ job'[z] = job[z] /\ index'[z] = index[z] /\ committed'[z] = committed[z]
          /\ pc'[z] = pc[z] /\ mine'[z] = mine[z]
      BY <1>1, <2>2, StepReach
    <3>3. QED BY <3>1, <3>2, PlaceOthers
  <2>3. QED BY <2>1, <2>2 DEF PlaceInv
<1>2. ASSUME NEW e \in Ext, NEW j \in Choices[e], Begin(e, j) PROVE PlaceInv'
  <2>1. /\ UNCHANGED <<index, committed, mine, owner, partial, raced, stuck>>
        /\ pc[e] = "idle" /\ pc'[e] \in {"opened", "refused"} /\ job'[e] = j
        /\ \A z \in Ext : z # e => job'[z] = job[z] /\ pc'[z] = pc[z]
    BY <1>2 DEF Begin, At, Running, Go, StepInv, Typed, ownVars, places, histVars
  <2>2. j \in Jobs
    BY ExtractAssumption
  <2>3. PlaceOK(e)'
    BY <2>1, <2>2, PlaceIdle DEF PlaceInv, Moves
  <2>4. ASSUME NEW z \in Ext, z # e PROVE PlaceOK(z)'
    <3>1. Respects(z)
      BY <2>1 DEF Respects
    <3>2. QED BY <2>1, <2>4, <3>1, PlaceOthers DEF PlaceInv
  <2>5. QED BY <2>1, <2>3, <2>4 DEF PlaceInv
<1>3. CASE \/ \E p \in Proc : Cleanup(p) \/ Crash(p)
           \/ \E a \in Artifact : Age(a) \/ LoseRecord(a)
           \/ UNCHANGED vars
  <2>1. UNCHANGED <<extVars, mine, owner, partial, raced>> /\ stuck \subseteq stuck'
    BY <1>3 DEF Cleanup, Crash, Age, LoseRecord, StartCleanup, StartSweep, EndCleanup, RemoveRecorded, Sweep,
       SecureRemove, ownVars, places, histVars, vars
  <2>2. ASSUME NEW z \in Ext PROVE PlaceOK(z)'
    <3>1. Respects(z)
      BY <2>1 DEF Respects
    <3>2. QED BY <2>1, <3>1, PlaceOthers DEF PlaceInv, extVars
  <2>3. QED BY <2>1, <2>2 DEF PlaceInv
<1>4. QED BY <1>1, <1>2, <1>3 DEF Next

\* If no empty directory is inside another: an extraction that succeeded put
\* every entry in place, whole, and one that failed left none of its own, for
\* any number of extractions into one folder, failing, crashing and rolling back
\* at any point. The exceptions are named: a slot that is disputed, a copy that
\* broke off, a name that cannot be unlinked.
THEOREM AllOrNothingHolds ==
  ASSUME Flat
  PROVE  Spec => []AllOrNothing
<1>1. PlaceInv => AllOrNothing
  BY DEF PlaceInv, PlaceOK, AllOrNothing, Complete, Whole, Disputed, Moves
<1>2. QED BY <1>1, PlaceInit, PlaceStep, StepInvariant, UserAlways, PTL DEF Spec
=============================================================================
