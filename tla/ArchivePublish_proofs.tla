----------------------- MODULE ArchivePublish_proofs -----------------------
(***************************************************************************)
(* For any number of processes, operations, names, crashes and artifacts   *)
(* that cannot be unlinked: what is published opens, a keyfile is beside   *)
(* its archive, no clean-up takes what is in use, every leftover has its   *)
(* account and nothing is replaced unknowingly.                            *)
(*                                                                         *)
(* The invariant has three layers, each preserved given those below it:    *)
(* PublishInv (what is published), RegistryInv (the registries and who has *)
(* them open) and ReplaceInv (what gives way to what).                     *)
(***************************************************************************)
EXTENDS ArchivePublish, TLAPS

Shapes ==
  /\ job \in [Op -> Jobs \cup {None}] /\ pc \in [Op -> States]
  /\ temps \subseteq Artifact
  /\ archive \in [Name -> Object \cup {None}] /\ volumes \in [Name -> Object \cup {None}]
  /\ keyfile \in [Name -> Op \cup {None}]
  /\ up \in [Proc -> {"new", "up", "dead"}]
RecordShapes ==
  /\ registry \in [Proc -> SUBSET Artifact] /\ memory \in [Proc -> SUBSET Artifact]
  /\ jRecs \in [Proc -> SUBSET Artifact] /\ jKept \in [Proc -> SUBSET Artifact]
  /\ jReg \in [Proc -> Proc \cup {None}] /\ jpc \in [Proc -> {"off", "choose", "remove"}]
DataShapes ==
  /\ snapshot \in [Op -> Object \cup {None}]
  /\ seen \in [Object -> Object \cup {None}] /\ body \in [Object -> Object \cup {None}]
  /\ holds \in [Object -> Contents]
  /\ data \in [Object -> Fill] /\ kdata \in [Op -> Fill]

Moved == {"moved", "done"}
Begun(o) == pc[o] \notin {"idle", "refused"}

\* Records are of the process whose registry they are in; a clean-up works with
\* those of a dead one.
Records ==
  /\ \A q \in Proc : \A x \in registry[q] \cup memory[q] : Runs[x[1]] = q /\ up[q] # "new"
  /\ \A p \in Proc : \A x \in jRecs[p] \cup jKept[p] : Runs[x[1]] = jReg[p] /\ up[Runs[x[1]]] = "dead"
  /\ \A p \in Proc : jpc[p] # "remove" => jRecs[p] = {} /\ jKept[p] = {}

\* An operation that was begun was asked to do something.
JobsGiven ==
  \A o \in Op :
    /\ pc[o] # "idle" => job[o] \in Jobs /\ job[o] # None
    /\ pc[o] = "begun" => job[o].kind \in {"rekey", "split"}

\* An operation past its checks has the sources it was started for.
Sources ==
  /\ \A o \in Op : Begun(o) /\ Does(o, {"rekey", "split"}) =>
       /\ archive[job[o].src] \in Object
       /\ pc[o] \in {"inspected", "unlisted", "writing", "copied"} => seen[o] \in Object
  /\ \A o \in Op : Begun(o) /\ Does(o, {"join"}) => seen[o] \in Object /\ body[seen[o]] \in Object

\* Whatever was copied has the bytes of an archive.
HasBody ==
  \A o \in Op : pc[o] \in {"copied", "complete", "keyed", "cleared"} \cup KeyStates \cup Moved => body[o] \in Object

\* What is under a name was moved there, and a set has the bytes of an archive.
Settled(x) == x \in Op => pc[x] \in Moved
Places ==
  /\ \A n \in Name : Settled(archive[n]) /\ Settled(volumes[n])
  /\ \A n \in Name : volumes[n] # None => body[volumes[n]] \in Object

\* An archive that was replaced does not come back: if split finds its source as
\* it was at the start, it was so all the time.
Snapshots ==
  \A o \in Op : Begun(o) /\ Does(o, {"split"}) =>
    /\ snapshot[o] \in Object /\ Settled(snapshot[o])
    /\ archive[job[o].src] = snapshot[o] =>
         /\ pc[o] \in {"inspected", "unlisted", "writing", "copied"} => seen[o] = snapshot[o]
         /\ pc[o] = "copied" => body[o] = snapshot[o]

\* Every archive describes its own payload.
Described == \A x \in Object : holds[x].payload = holds[x].meta

\* A complete archive stays whole: under its temporary name as long as its
\* process lives, and for good under its final one.
Whole ==
  /\ \A x \in Stored : data[x] = "full"
  /\ \A o \in Op : up[Runs[o]] = "up" /\ pc[o] \in {"complete", "keyed", "cleared"} \cup KeyStates => data[o] = "full"
  /\ \A o \in Op : pc[o] \in Moved => data[o] = "full" /\ Main(o) \notin temps

\* Nothing is done before its process starts.
Started == \A o \in Op : up[Runs[o]] = "new" => pc[o] = "idle"

\* The way of a keyfile to its name.
KeysWanted == \A o \in Op : pc[o] \in {"keyed"} \cup KeyStates => Does(o, {"createPqc"})
KeysLinked ==
  \A o \in Op : pc[o] = "keyLinked" =>
    keyfile[job[o].dst] = o /\ (up[Runs[o]] = "up" => kdata[o] = "full")
KeysThere ==
  \A o \in Op : pc[o] \in {"keyUnlinked", "keyed", "cleared"} \cup Moved /\ Does(o, {"createPqc"}) =>
    keyfile[job[o].dst] = o /\ kdata[o] = "full" /\ Key(o) \notin temps

PublishInv ==
  /\ Shapes /\ RecordShapes /\ DataShapes
  /\ Records /\ JobsGiven /\ Sources /\ HasBody /\ Places /\ Snapshots
  /\ Described /\ Whole /\ LiveTempKept
  /\ Started /\ KeysWanted /\ KeysLinked /\ KeysThere

-----------------------------------------------------------------------------
\* The constants' ranges, as the steps need them.
LEMMA Constants ==
  /\ Runs \in [Op -> Proc] /\ Choices \in [Op -> SUBSET Jobs]
  /\ Op \subseteq Object /\ Stored \subseteq Object /\ Stored \subseteq Name /\ StoredSets \subseteq Stored
  /\ Op \cap Stored = {} /\ None \notin Object /\ None \notin Op /\ None \notin Proc
  /\ \A o \in Op : Choices[o] \subseteq Jobs \ {None}
  BY PublishAssumption DEF Object

\* Every step keeps the invariant.
LEMMA PublishStep == ASSUME PublishInv, [Next]_vars PROVE PublishInv'
<1> USE Constants DEF PublishInv, Shapes, opVars, contents, places, regVars, janVars, histVars, At, Go, Artifact
<1>0. \A z \in Op : pc[z] # "idle" =>
       /\ job[z] \in Jobs /\ job[z] # None /\ job[z].src \in Name /\ job[z].dst \in Name
       /\ job[z].kind \in Kinds
  BY DEF JobsGiven, Jobs
<1>1. ASSUME NEW o \in Op, NEW j \in Choices[o], Begin(o, j) PROVE PublishInv'
  <2>0. /\ j \in Jobs /\ j # None /\ j.src \in Name /\ j.dst \in Name /\ j.kind \in Kinds
        /\ pc[o] = "idle" /\ job' = [job EXCEPT ![o] = j]
        /\ pc' = [pc EXCEPT ![o] = IF Refuses(j) THEN "refused"
                                  ELSE IF j.kind \in {"rekey", "split"} THEN "begun" ELSE "inspected"]
        /\ archive' = archive /\ body' = body
        /\ snapshot' = [snapshot EXCEPT ![o] = IF j.kind = "split" THEN archive[j.src] ELSE @]
        /\ seen' = [seen EXCEPT ![o] = IF j.kind = "join" THEN volumes[j.src] ELSE @]
    BY SMTT(30), <1>1 DEF Begin, Jobs
  <2>00. /\ ~Refuses(j) /\ j.kind \in {"rekey", "split"} => archive[j.src] \in Object
         /\ ~Refuses(j) /\ j.kind = "join" => volumes[j.src] \in Object
    BY <2>0 DEF Refuses
  <2>1. Shapes' /\ RecordShapes' /\ Records'
    BY <1>1 DEF Begin, States, Ended, Holding, KeyStates, Object, Main, Key, RecordShapes,
      Records
  <2>2. DataShapes'
    BY <1>1, <2>0 DEF Begin, DataShapes, Fill
  <2>3. JobsGiven'
    BY <1>1 DEF Begin, JobsGiven
  <2>4. Sources'
    <3>1. ASSUME NEW z \in Op, Begun(z)', Does(z, {"rekey", "split"})'
          PROVE  /\ archive'[job'[z].src] \in Object
                 /\ pc'[z] \in {"inspected", "unlisted", "writing", "copied"} => seen'[z] \in Object
      <4>1. CASE z = o
        BY <2>0, <2>00, <3>1, <4>1 DEF Begun, Does
      <4>2. CASE z # o
        BY <2>0, <3>1, <4>2 DEF DataShapes, Begun, Does, Sources
      <4> QED
        BY <4>1, <4>2
    <3>2. ASSUME NEW z \in Op, Begun(z)', Does(z, {"join"})'
          PROVE  seen'[z] \in Object /\ body'[seen'[z]] \in Object
      <4>1. CASE z = o
        BY <2>0, <2>00, <3>2, <4>1 DEF DataShapes, Begun, Does, Places
      <4>2. CASE z # o
        BY <2>0, <3>2, <4>2 DEF DataShapes, Begun, Does, Sources
      <4> QED
        BY <4>1, <4>2
    <3> QED
      BY <3>1, <3>2 DEF Sources
  <2>5. HasBody' /\ Places'
    BY <1>1 DEF Begin, DataShapes, HasBody, KeyStates, Moved, Places, Settled
  <2>6. Snapshots'
    <3> SUFFICES ASSUME NEW z \in Op, Begun(z)', Does(z, {"split"})'
                 PROVE  /\ snapshot'[z] \in Object /\ Settled(snapshot[z])'
                        /\ archive'[job'[z].src] = snapshot'[z] =>
                             /\ pc'[z] \in {"inspected", "unlisted", "writing", "copied"} => seen'[z] = snapshot'[z]
                             /\ pc'[z] = "copied" => body'[z] = snapshot'[z]
      BY DEF Snapshots, Settled
    <3>1. CASE z = o
      <4>1. pc'[z] = "begun" /\ snapshot'[z] = archive[j.src] /\ archive[j.src] \in Object
        BY <2>0, <2>00, <3>1 DEF Begun, Does, DataShapes
      <4> QED
        BY <2>0, <4>1 DEF Places, Settled, Moved
    <3>2. CASE z # o
      BY <2>0, <3>2 DEF Snapshots, DataShapes, Begun, Does, Settled, Moved
    <3> QED
      BY <3>1, <3>2
  <2>7. Described' /\ Whole' /\ LiveTempKept'
    BY <1>1 DEF Begin, DataShapes, Described, Started, Whole, Main, Moved, KeyStates,
      LiveTempKept, Holding
  <2>8. Started' /\ KeysWanted' /\ KeysLinked' /\ KeysThere'
    BY <1>1 DEF Begin, Started, JobsGiven, KeysWanted, Does, KeyStates, DataShapes, KeysLinked,
      Key, KeysThere, Moved
  <2> QED
    BY <2>1, <2>2, <2>3, <2>4, <2>5, <2>6, <2>7, <2>8
<1>2. ASSUME NEW o \in Op, Inspect(o) PROVE PublishInv'
  <2>0. /\ job[o] \in Jobs /\ job[o] # None /\ job[o].src \in Name /\ job[o].dst \in Name
        /\ job[o].kind \in Kinds
    BY <1>0, <1>2 DEF Inspect
  <2>1. Shapes' /\ RecordShapes' /\ Records'
    BY <1>2 DEF Inspect, States, Ended, Holding, KeyStates, Object, Main, Key, RecordShapes,
      Records
  <2>2. DataShapes'
    BY <1>2, <2>0 DEF Inspect, DataShapes, Fill
  <2>3. JobsGiven'
    BY <1>2 DEF Inspect, JobsGiven
  <2>4. Sources'
    <3>1. /\ seen' = [seen EXCEPT ![o] = archive[job[o].src]] /\ UNCHANGED <<job, body, archive>>
          /\ pc' \in {[pc EXCEPT ![o] = "failed"], [pc EXCEPT ![o] = "inspected"]}
          /\ pc[o] = "begun" /\ job[o].kind \in {"rekey", "split"}
      BY <1>2 DEF Inspect, JobsGiven
    <3>2. archive[job[o].src] \in Object
      BY <3>1, <2>0 DEF Sources, Begun, Does
    <3> QED
      BY <2>0, <3>1, <3>2 DEF DataShapes, Sources, Begun, Does
  <2>5. HasBody' /\ Places'
    BY <1>2 DEF Inspect, DataShapes, HasBody, KeyStates, Moved, Places, Settled
  <2>6. Snapshots'
    BY <1>2 DEF Inspect, DataShapes, JobsGiven, Sources, Places, Snapshots, Settled, Begun,
      Does, Moved
  <2>7. Described' /\ Whole' /\ LiveTempKept'
    BY <1>2 DEF Inspect, DataShapes, Described, Started, Whole, Main, Moved, KeyStates,
      LiveTempKept, Holding
  <2>8. Started' /\ KeysWanted' /\ KeysLinked' /\ KeysThere'
    BY <1>2 DEF Inspect, Started, JobsGiven, KeysWanted, Does, KeyStates, DataShapes,
      KeysLinked, Key, KeysThere, Moved
  <2> QED
    BY <2>1, <2>2, <2>3, <2>4, <2>5, <2>6, <2>7, <2>8
<1>3. ASSUME NEW o \in Op, MakeTemp(o) PROVE PublishInv'
  <2>1. Shapes' /\ RecordShapes' /\ Records'
    BY <1>3 DEF MakeTemp, States, Ended, Holding, KeyStates, Object, Main, Key, RecordShapes,
      Records
  <2>2. DataShapes' /\ JobsGiven'
    BY <1>3 DEF MakeTemp, DataShapes, Fill, JobsGiven
  <2>3. Sources' /\ HasBody' /\ Places'
    BY <1>3 DEF MakeTemp, DataShapes, JobsGiven, Sources, Begun, Does, HasBody, KeyStates,
      Moved, Places, Settled
  <2>4. Snapshots'
    BY <1>3 DEF MakeTemp, DataShapes, JobsGiven, Sources, Places, Snapshots, Settled, Begun,
      Does, Moved
  <2>5. Described' /\ Whole' /\ LiveTempKept'
    BY <1>3 DEF MakeTemp, DataShapes, Described, Started, Whole, Main, Moved, KeyStates,
      LiveTempKept, Holding
  <2>6. Started' /\ KeysWanted' /\ KeysLinked' /\ KeysThere'
    BY <1>3 DEF MakeTemp, Started, JobsGiven, KeysWanted, Does, KeyStates, DataShapes,
      KeysLinked, Key, KeysThere, Moved, Main
  <2> QED
    BY <2>1, <2>2, <2>3, <2>4, <2>5, <2>6
<1>4. ASSUME NEW o \in Op, Abort(o) PROVE PublishInv'
  <2>1. Shapes' /\ RecordShapes' /\ Records'
    BY <1>4 DEF Abort, States, Ended, Holding, KeyStates, Object, Main, Key, RecordShapes,
      Records
  <2>2. DataShapes' /\ JobsGiven'
    BY <1>4 DEF Abort, DataShapes, Fill, JobsGiven
  <2>3. Sources' /\ HasBody' /\ Places'
    BY <1>4 DEF Abort, DataShapes, JobsGiven, Sources, Begun, Does, HasBody, KeyStates, Moved,
      Places, Settled
  <2>4. Snapshots'
    BY <1>4 DEF Abort, DataShapes, JobsGiven, Sources, Places, Snapshots, Settled, Begun, Does,
      Moved
  <2>5. Described' /\ Whole' /\ LiveTempKept'
    BY <1>4 DEF Abort, DataShapes, Described, Started, Whole, Main, Moved, KeyStates,
      LiveTempKept, Holding
  <2>6. Started' /\ KeysWanted' /\ KeysLinked' /\ KeysThere'
    BY <1>4 DEF Abort, Started, JobsGiven, KeysWanted, Does, KeyStates, DataShapes, KeysLinked,
      Key, KeysThere, Moved
  <2> QED
    BY <2>1, <2>2, <2>3, <2>4, <2>5, <2>6
<1>5. ASSUME NEW o \in Op, OpenRegistry(o) PROVE PublishInv'
  <2>1. Shapes'
    BY <1>5 DEF OpenRegistry, States, Ended, Holding, KeyStates, Object, Main, Key
  <2>2. RecordShapes'
    BY <1>5 DEF OpenRegistry, RecordShapes
  <2>3. Records'
    BY <1>5 DEF OpenRegistry, RecordShapes, Records
  <2>4. DataShapes' /\ JobsGiven'
    BY <1>5 DEF OpenRegistry, DataShapes, Fill, JobsGiven
  <2>5. Sources' /\ HasBody' /\ Places'
    BY <1>5 DEF OpenRegistry, DataShapes, JobsGiven, Sources, Begun, Does, HasBody, KeyStates,
      Moved, Places, Settled
  <2>6. Snapshots'
    BY <1>5 DEF OpenRegistry, DataShapes, JobsGiven, Sources, Places, Snapshots, Settled, Begun,
      Does, Moved
  <2>7. Described' /\ Whole' /\ LiveTempKept'
    BY <1>5 DEF OpenRegistry, DataShapes, Described, Started, Whole, Main, Moved, KeyStates,
      LiveTempKept, Holding
  <2>8. Started' /\ KeysWanted' /\ KeysLinked' /\ KeysThere'
    BY <1>5 DEF OpenRegistry, Started, JobsGiven, KeysWanted, Does, KeyStates, DataShapes,
      KeysLinked, Key, KeysThere, Moved
  <2> QED
    BY <2>1, <2>2, <2>3, <2>4, <2>5, <2>6, <2>7, <2>8
<1>6. ASSUME NEW o \in Op, Append(o) PROVE PublishInv'
  <2>0. /\ registry' = [registry EXCEPT ![Runs[o]] = @ \cup {Recorded(o)}] \/ registry' = registry
        /\ UNCHANGED <<memory, jRecs, jKept, jReg, jpc, up>> /\ up[Runs[o]] = "up" /\ Runs[o] \in Proc
    BY <1>6 DEF Append
  <2>00. Recorded(o) \in Artifact /\ Recorded(o)[1] = o
    BY DEF Recorded, Main, Key
  <2>1. RecordShapes'
    BY <2>0, <2>00 DEF RecordShapes
  <2>2. Records'
    BY <2>0, <2>00 DEF RecordShapes, Records
  <2>3. Shapes'
    BY <1>6 DEF Append, States, Ended, Holding, KeyStates, Object, Main, Key, Recorded
  <2>4. DataShapes' /\ JobsGiven'
    BY <1>6 DEF Append, DataShapes, Fill, Recorded, KeyStates, Main, Key, JobsGiven
  <2>5. Sources' /\ HasBody' /\ Places'
    BY <1>6 DEF Append, DataShapes, JobsGiven, Sources, Begun, Does, Recorded, KeyStates, Main,
      Key, HasBody, Moved, Places, Settled
  <2>6. Snapshots'
    BY <1>6 DEF Append, DataShapes, JobsGiven, Sources, Places, Snapshots, Settled, Begun, Does,
      Moved, Recorded, KeyStates, Main, Key
  <2>7. Described' /\ Whole' /\ LiveTempKept'
    BY <1>6 DEF Append, DataShapes, Described, Recorded, KeyStates, Main, Key, Started, Whole,
      Moved, LiveTempKept, Holding
  <2>8. Started' /\ KeysWanted' /\ KeysLinked' /\ KeysThere'
    BY <1>6 DEF Append, Started, Recorded, KeyStates, Main, Key, JobsGiven, KeysWanted, Does,
      DataShapes, KeysLinked, KeysThere, Moved
  <2> QED
    BY <2>1, <2>2, <2>3, <2>4, <2>5, <2>6, <2>7, <2>8
<1>7. ASSUME NEW o \in Op, StartUnregister(o) PROVE PublishInv'
  <2>1. Shapes'
    BY <1>7 DEF StartUnregister, States, Ended, Holding, KeyStates, Object, Main, Key, Recorded,
      AfterUnregister, Unregistering
  <2>2. RecordShapes'
    BY <1>7 DEF StartUnregister, RecordShapes, Recorded, AfterUnregister, Unregistering,
      KeyStates
  <2>3. Records'
    BY <1>7 DEF StartUnregister, RecordShapes, Records, Recorded, AfterUnregister,
      Unregistering, KeyStates
  <2>4. DataShapes' /\ JobsGiven'
    BY <1>7 DEF StartUnregister, DataShapes, Fill, Recorded, AfterUnregister, Unregistering,
      KeyStates, JobsGiven
  <2>5. Sources' /\ HasBody' /\ Places'
    BY <1>7 DEF StartUnregister, DataShapes, JobsGiven, Sources, Begun, Does, Recorded,
      AfterUnregister, Unregistering, KeyStates, HasBody, Moved, Places, Settled
  <2>6. Snapshots'
    BY <1>7 DEF StartUnregister, DataShapes, JobsGiven, Sources, Places, Snapshots, Settled,
      Begun, Does, Moved, Recorded, AfterUnregister, Unregistering, KeyStates
  <2>7. Described' /\ Whole' /\ LiveTempKept'
    BY <1>7 DEF StartUnregister, DataShapes, Described, Recorded, AfterUnregister,
      Unregistering, KeyStates, Started, Whole, Main, Moved, LiveTempKept, Holding
  <2>8. Started' /\ KeysWanted' /\ KeysLinked' /\ KeysThere'
    BY <1>7 DEF StartUnregister, Started, Recorded, AfterUnregister, Unregistering, KeyStates,
      JobsGiven, KeysWanted, Does, DataShapes, KeysLinked, Key, KeysThere, Moved
  <2> QED
    BY <2>1, <2>2, <2>3, <2>4, <2>5, <2>6, <2>7, <2>8
<1>8. ASSUME NEW o \in Op, EndUnregister(o) PROVE PublishInv'
  <2>1. RecordShapes'
    <3>1. registry' = [registry EXCEPT ![Runs[o]] = memory[Runs[o]]] \/ registry' = registry
      BY <1>8 DEF EndUnregister
    <3>2. memory' = [memory EXCEPT ![Runs[o]] = {}] /\ UNCHANGED <<jRecs, jKept, jReg, jpc>>
      BY <1>8 DEF EndUnregister
    <3> QED
      BY <3>1, <3>2 DEF RecordShapes
  <2>2. Shapes' /\ Records'
    BY <1>8 DEF EndUnregister, States, Ended, Holding, KeyStates, Object, Main, Key, Recorded,
      AfterUnregister, Unregistering, RecordShapes, Records
  <2>3. DataShapes' /\ JobsGiven'
    BY <1>8 DEF EndUnregister, DataShapes, Fill, Recorded, AfterUnregister, Unregistering,
      KeyStates, JobsGiven
  <2>4. Sources' /\ HasBody' /\ Places'
    BY <1>8 DEF EndUnregister, DataShapes, JobsGiven, Sources, Begun, Does, Recorded,
      AfterUnregister, Unregistering, KeyStates, HasBody, Moved, Places, Settled
  <2>5. Snapshots'
    BY <1>8 DEF EndUnregister, DataShapes, JobsGiven, Sources, Places, Snapshots, Settled,
      Begun, Does, Moved, Recorded, AfterUnregister, Unregistering, KeyStates
  <2>6. Described' /\ Whole' /\ LiveTempKept'
    BY <1>8 DEF EndUnregister, DataShapes, Described, Recorded, AfterUnregister, Unregistering,
      KeyStates, Started, Whole, Main, Moved, LiveTempKept, Holding
  <2>7. Started'
    BY <1>8 DEF EndUnregister, Started, Recorded, AfterUnregister, Unregistering, KeyStates
  <2>8. KeysWanted'
    BY <1>8 DEF EndUnregister, JobsGiven, KeysWanted, Does, KeyStates, Recorded,
      AfterUnregister, Unregistering
  <2>9. KeysLinked'
    BY <1>8 DEF EndUnregister, DataShapes, JobsGiven, Started, KeysWanted, KeysLinked, Does,
      KeyStates, Key, Recorded, AfterUnregister, Unregistering
  <2>10. KeysThere'
    BY <1>8 DEF EndUnregister, DataShapes, JobsGiven, KeysWanted, KeysLinked, KeysThere, Does,
      Moved, KeyStates, Key, Recorded, AfterUnregister, Unregistering
  <2> QED
    BY <2>1, <2>2, <2>3, <2>4, <2>5, <2>6, <2>7, <2>8, <2>9, <2>10
<1>9. ASSUME NEW o \in Op, Copy(o) PROVE PublishInv'
  <2>0. /\ job[o] \in Jobs /\ job[o] # None /\ job[o].src \in Name /\ job[o].dst \in Name
        /\ job[o].kind \in Kinds
    BY <1>0, <1>9 DEF Copy
  <2>1. Shapes' /\ RecordShapes' /\ Records'
    BY <1>9 DEF Copy, States, Ended, Holding, KeyStates, Object, Main, Key, RecordShapes,
      Records
  <2>2. DataShapes'
    <3>1. /\ pc[o] = "writing" /\ UNCHANGED <<snapshot, seen, holds, data, kdata>>
          /\ body' = [body EXCEPT ![o] = IF Creates(o) THEN o
                                         ELSE IF job[o].kind = "join" THEN body[seen[o]]
                                         ELSE archive[job[o].src]]
      BY Zenon, <1>9 DEF Copy
    <3>2. job[o].kind = "join" => seen[o] \in Object
      BY <2>0, <3>1 DEF Sources, Begun, Does
    <3> QED
      BY <2>0, <3>1, <3>2 DEF DataShapes
  <2>3. JobsGiven'
    BY <1>9 DEF Copy, JobsGiven
  <2>4. Sources'
    BY <1>9, <2>0 DEF Copy, DataShapes, JobsGiven, Sources, Begun, Does, Creates, Kinds
  <2>5. HasBody'
    <3>1. /\ pc[o] = "writing"
          /\ body' = [body EXCEPT ![o] = IF Creates(o) THEN o
                                         ELSE IF job[o].kind = "join" THEN body[seen[o]]
                                         ELSE archive[job[o].src]]
      BY Zenon, <1>9 DEF Copy
    <3>0. pc' \in {[pc EXCEPT ![o] = "failing"], [pc EXCEPT ![o] = "copied"]}
      BY Zenon, <1>9 DEF Copy
    <3>2. /\ job[o].kind = "join" => body[seen[o]] \in Object
          /\ job[o].kind \in {"rekey", "split"} => archive[job[o].src] \in Object
      BY <2>0, <3>1 DEF Sources, Begun, Does
    <3>3. body'[o] \in Object
      BY <2>0, <3>1, <3>2 DEF DataShapes, Creates, Does, Kinds
    <3> QED
      BY <3>0, <3>1, <3>3 DEF HasBody, DataShapes
  <2>6. Places'
    BY <1>9 DEF Copy, DataShapes, HasBody, Places, Settled, Moved
  <2>7. Snapshots'
    BY <1>9, <2>0 DEF Copy, DataShapes, JobsGiven, Sources, Places, Snapshots, Settled, Begun, Does, Moved, Creates, Kinds
  <2>8. Described' /\ Whole' /\ LiveTempKept'
    BY <1>9 DEF Copy, DataShapes, Described, Started, Whole, Main, Moved, KeyStates,
      LiveTempKept, Holding
  <2>9. Started' /\ KeysWanted' /\ KeysLinked' /\ KeysThere'
    BY <1>9 DEF Copy, Started, JobsGiven, KeysWanted, Does, KeyStates, DataShapes, KeysLinked,
      Key, KeysThere, Moved
  <2> QED
    BY <2>1, <2>2, <2>3, <2>4, <2>5, <2>6, <2>7, <2>8, <2>9
<1>10. ASSUME NEW o \in Op, Complete(o) PROVE PublishInv'
  <2>0. /\ job[o] \in Jobs /\ job[o] # None /\ job[o].src \in Name /\ job[o].dst \in Name
        /\ job[o].kind \in Kinds
    BY <1>0, <1>10 DEF Complete
  <2>00. /\ body[o] \in Object
         /\ job[o].kind \in {"rekey", "split"} => seen[o] \in Object
         /\ Sound(o) /\ job[o].kind = "split" => seen[o] = body[o]
    BY <1>10, <2>0 DEF Complete, Sources, HasBody, Snapshots, Sound, Begun, Does
  <2>01. Built(o) \in Contents /\ (Sound(o) => Built(o).payload = Built(o).meta)
    <3>1. \A x \in Object : holds[x] \in Contents /\ holds[x].payload \in Object /\ holds[x].payload = holds[x].meta
      BY DEF DataShapes, Contents, Described
    <3>2. CASE job[o].kind = "rekey"
      BY <2>00, <3>1, <3>2 DEF Built, Sound, Contents
    <3>3. CASE job[o].kind = "split"
      BY <2>00, <3>1, <3>3 DEF Built, Contents
    <3>4. CASE job[o].kind = "join"
      BY <2>00, <3>1, <3>4 DEF Built
    <3>5. CASE job[o].kind \notin {"rekey", "split", "join"}
      BY <2>0, <3>5 DEF Built, Contents
    <3> QED
      BY <3>2, <3>3, <3>4, <3>5
  <2>1. Shapes' /\ RecordShapes' /\ Records'
    BY <1>10 DEF Complete, States, Ended, Holding, KeyStates, Object, Main, Key, RecordShapes,
      Records
  <2>2. DataShapes'
    BY <1>10, <2>01 DEF Complete, DataShapes, Fill
  <2>3. JobsGiven'
    BY <1>10 DEF Complete, JobsGiven
  <2>4. Sources' /\ HasBody' /\ Places'
    BY <1>10 DEF Complete, DataShapes, JobsGiven, Sources, Begun, Does, HasBody, KeyStates,
      Moved, Places, Settled
  <2>5. Snapshots'
    BY <1>10 DEF Complete, DataShapes, JobsGiven, Sources, Places, Snapshots, Settled, Begun,
      Does, Moved
  <2>6. Described'
    BY <1>10, <2>01 DEF Complete, DataShapes, Described
  <2>7. Whole' /\ LiveTempKept'
    BY <1>10 DEF Complete, DataShapes, Started, Whole, Main, Moved, KeyStates, LiveTempKept,
      Holding
  <2>8. Started' /\ KeysWanted' /\ KeysLinked' /\ KeysThere'
    BY <1>10 DEF Complete, Started, JobsGiven, KeysWanted, Does, KeyStates, DataShapes,
      KeysLinked, Key, KeysThere, Moved
  <2> QED
    BY <2>1, <2>2, <2>3, <2>4, <2>5, <2>6, <2>7, <2>8
<1>11. ASSUME NEW o \in Op, Fail(o) PROVE PublishInv'
  <2>1. Shapes' /\ RecordShapes' /\ Records'
    BY <1>11 DEF Fail, States, Ended, Holding, KeyStates, Object, Main, Key, RecordShapes,
      Records
  <2>2. DataShapes' /\ JobsGiven'
    BY <1>11 DEF Fail, DataShapes, Fill, JobsGiven
  <2>3. Sources' /\ HasBody' /\ Places'
    BY <1>11 DEF Fail, DataShapes, JobsGiven, Sources, Begun, Does, HasBody, KeyStates, Moved,
      Places, Settled
  <2>4. Snapshots'
    BY <1>11 DEF Fail, DataShapes, JobsGiven, Sources, Places, Snapshots, Settled, Begun, Does,
      Moved
  <2>5. Described' /\ Whole' /\ LiveTempKept'
    BY <1>11 DEF Fail, DataShapes, Described, Started, Whole, Main, Moved, KeyStates,
      LiveTempKept, Holding
  <2>6. Started' /\ KeysWanted' /\ KeysLinked' /\ KeysThere'
    BY <1>11 DEF Fail, Started, JobsGiven, KeysWanted, Does, KeyStates, DataShapes, KeysLinked,
      Key, KeysThere, Moved
  <2> QED
    BY <2>1, <2>2, <2>3, <2>4, <2>5, <2>6
<1>12. ASSUME NEW o \in Op, MakeKeyTemp(o) PROVE PublishInv'
  <2>1. Shapes' /\ RecordShapes' /\ Records'
    BY <1>12 DEF MakeKeyTemp, States, Ended, Holding, KeyStates, Object, Main, Key,
      RecordShapes, Records
  <2>2. DataShapes' /\ JobsGiven'
    BY <1>12 DEF MakeKeyTemp, DataShapes, Fill, JobsGiven
  <2>3. Sources' /\ HasBody' /\ Places'
    BY <1>12 DEF MakeKeyTemp, DataShapes, JobsGiven, Sources, Begun, Does, HasBody, KeyStates,
      Moved, Places, Settled
  <2>4. Snapshots'
    BY <1>12 DEF MakeKeyTemp, DataShapes, JobsGiven, Sources, Places, Snapshots, Settled, Begun,
      Does, Moved
  <2>5. Described' /\ Whole' /\ LiveTempKept'
    BY <1>12 DEF MakeKeyTemp, DataShapes, Described, Started, Whole, Main, Moved, KeyStates,
      Key, LiveTempKept, Holding
  <2>6. Started' /\ KeysWanted' /\ KeysLinked' /\ KeysThere'
    BY <1>12 DEF MakeKeyTemp, Started, JobsGiven, KeysWanted, Does, KeyStates, DataShapes,
      KeysLinked, Key, KeysThere, Moved
  <2> QED
    BY <2>1, <2>2, <2>3, <2>4, <2>5, <2>6
<1>13. ASSUME NEW o \in Op, LinkKeyfile(o) PROVE PublishInv'
  <2>0. /\ job[o] \in Jobs /\ job[o] # None /\ job[o].src \in Name /\ job[o].dst \in Name
        /\ job[o].kind \in Kinds
    BY <1>0, <1>13 DEF LinkKeyfile
  <2>00. /\ pc[o] = "keyWriting" /\ up[Runs[o]] = "up" /\ kdata' = [kdata EXCEPT ![o] = "full"]
         /\ UNCHANGED <<job, temps, up>>
         /\ \/ pc' = [pc EXCEPT ![o] = "keyFailing"] /\ keyfile' = keyfile
            \/ /\ pc' = [pc EXCEPT ![o] = "keyLinked"]
               /\ keyfile[job[o].dst] = None /\ keyfile' = [keyfile EXCEPT ![job[o].dst] = o]
    BY <1>13 DEF LinkKeyfile
  <2>1. Shapes' /\ RecordShapes' /\ Records'
    BY <1>13 DEF LinkKeyfile, States, Ended, Holding, KeyStates, Object, Main, Key,
      RecordShapes, Records
  <2>2. DataShapes' /\ JobsGiven'
    BY <1>13 DEF LinkKeyfile, DataShapes, Fill, JobsGiven
  <2>3. Sources' /\ HasBody' /\ Places'
    BY <1>13 DEF LinkKeyfile, DataShapes, JobsGiven, Sources, Begun, Does, HasBody, KeyStates,
      Moved, Places, Settled
  <2>4. Snapshots'
    BY <1>13 DEF LinkKeyfile, DataShapes, JobsGiven, Sources, Places, Snapshots, Settled, Begun,
      Does, Moved
  <2>5. Described' /\ Whole' /\ LiveTempKept'
    BY <1>13 DEF LinkKeyfile, DataShapes, Described, Started, Whole, Main, Moved, KeyStates,
      LiveTempKept, Holding
  <2>6. KeysLinked'
    BY <1>0, <2>0, <2>00 DEF KeysLinked, DataShapes, Does, KeyStates, Moved, Key
  <2>7. KeysThere'
    BY <1>0, <2>0, <2>00 DEF KeysThere, DataShapes, Does, KeyStates, Moved, Key
  <2>8. Started' /\ KeysWanted'
    BY <1>13 DEF LinkKeyfile, Started, JobsGiven, KeysWanted, Does, KeyStates
  <2> QED
    BY <2>1, <2>2, <2>3, <2>4, <2>5, <2>6, <2>7, <2>8
<1>14. ASSUME NEW o \in Op, UnlinkKeyTemp(o) PROVE PublishInv'
  <2>1. Shapes' /\ RecordShapes' /\ Records'
    BY <1>14 DEF UnlinkKeyTemp, States, Ended, Holding, KeyStates, Object, Main, Key,
      RecordShapes, Records
  <2>2. DataShapes' /\ JobsGiven'
    BY <1>14 DEF UnlinkKeyTemp, DataShapes, Fill, JobsGiven
  <2>3. Sources' /\ HasBody' /\ Places'
    BY <1>14 DEF UnlinkKeyTemp, DataShapes, JobsGiven, Sources, Begun, Does, HasBody, KeyStates,
      Moved, Places, Settled
  <2>4. Snapshots'
    BY <1>14 DEF UnlinkKeyTemp, DataShapes, JobsGiven, Sources, Places, Snapshots, Settled,
      Begun, Does, Moved
  <2>5. Described' /\ Whole' /\ LiveTempKept'
    BY <1>14 DEF UnlinkKeyTemp, DataShapes, Described, Started, Whole, Main, Moved, KeyStates,
      LiveTempKept, Holding, Key
  <2>6. Started' /\ KeysWanted' /\ KeysLinked' /\ KeysThere'
    BY <1>14 DEF UnlinkKeyTemp, Started, JobsGiven, KeysWanted, Does, KeyStates, DataShapes,
      KeysLinked, Key, KeysThere, Moved
  <2> QED
    BY <2>1, <2>2, <2>3, <2>4, <2>5, <2>6
<1>15. ASSUME NEW o \in Op, Discard(o) PROVE PublishInv'
  <2>1. Shapes' /\ RecordShapes' /\ Records'
    BY <1>15 DEF Discard, States, Ended, Holding, KeyStates, Object, Main, Key, SecureRemove,
      Wipe, RecordShapes, Records
  <2>2. DataShapes' /\ JobsGiven'
    BY <1>15 DEF Discard, DataShapes, Fill, SecureRemove, Wipe, Main, Key, JobsGiven
  <2>3. Sources' /\ HasBody' /\ Places'
    BY <1>15 DEF Discard, DataShapes, JobsGiven, Sources, Begun, Does, SecureRemove, Wipe, Main,
      Key, HasBody, KeyStates, Moved, Places, Settled
  <2>4. Snapshots'
    BY <1>15 DEF Discard, DataShapes, JobsGiven, Sources, Places, Snapshots, Settled, Begun,
      Does, Moved, SecureRemove, Wipe, Main, Key
  <2>5. Described'
    BY <1>15 DEF Discard, DataShapes, Described, SecureRemove, Wipe, Main, Key
  <2>6. Whole'
    BY <1>15 DEF Discard, DataShapes, Started, Whole, Main, Moved, KeyStates, SecureRemove,
      Wipe, Key
  <2>7. LiveTempKept'
    BY <1>15 DEF Discard, DataShapes, Started, LiveTempKept, Holding, KeyStates, Main,
      SecureRemove, Wipe, Key
  <2>8. Started' /\ KeysWanted' /\ KeysLinked' /\ KeysThere'
    BY <1>15 DEF Discard, Started, SecureRemove, Wipe, Main, Key, JobsGiven, KeysWanted, Does,
      KeyStates, DataShapes, KeysLinked, KeysThere, Moved
  <2> QED
    BY <2>1, <2>2, <2>3, <2>4, <2>5, <2>6, <2>7, <2>8
<1>16. ASSUME NEW o \in Op, Recheck(o) PROVE PublishInv'
  <2>1. Shapes' /\ RecordShapes' /\ Records'
    BY <1>16 DEF Recheck, States, Ended, Holding, KeyStates, Object, Main, Key, RecordShapes,
      Records
  <2>2. DataShapes' /\ JobsGiven'
    BY <1>16 DEF Recheck, DataShapes, Fill, JobsGiven
  <2>3. Sources' /\ HasBody' /\ Places'
    BY <1>16 DEF Recheck, DataShapes, JobsGiven, Sources, Begun, Does, HasBody, KeyStates,
      Moved, Places, Settled
  <2>4. Snapshots'
    BY <1>16 DEF Recheck, DataShapes, JobsGiven, Sources, Places, Snapshots, Settled, Begun,
      Does, Moved
  <2>5. Described' /\ Whole' /\ LiveTempKept'
    BY <1>16 DEF Recheck, DataShapes, Described, Started, Whole, Main, Moved, KeyStates,
      LiveTempKept, Holding
  <2>6. Started' /\ KeysWanted' /\ KeysLinked' /\ KeysThere'
    BY <1>16 DEF Recheck, Started, JobsGiven, KeysWanted, Does, KeyStates, DataShapes,
      KeysLinked, Key, KeysThere, Moved
  <2> QED
    BY <2>1, <2>2, <2>3, <2>4, <2>5, <2>6
<1>17. ASSUME NEW o \in Op, Publish(o) PROVE PublishInv'
  <2>0. /\ job[o] \in Jobs /\ job[o] # None /\ job[o].src \in Name /\ job[o].dst \in Name
        /\ job[o].kind \in Kinds
    BY <1>0, <1>17 DEF Publish
  <2>00. /\ UNCHANGED <<job, seen, body, snapshot>>
         /\ pc[o] \in {"complete", "cleared"}
         /\ pc[o] = "complete" <=> job[o].kind \in {"rekey", "split"}
         /\ \/ pc' = [pc EXCEPT ![o] = "failing"] /\ UNCHANGED <<archive, volumes>>
            \/ /\ pc' = [pc EXCEPT ![o] = "moved"] /\ archive' = archive
               /\ volumes' = [volumes EXCEPT ![job[o].dst] = o]
            \/ /\ pc' = [pc EXCEPT ![o] = "moved"] /\ volumes' = volumes
               /\ archive' = [archive EXCEPT ![job[o].dst] = o]
    BY <1>17, <2>0 DEF Publish, Does
  <2>1. Shapes'
    BY <1>17 DEF Publish, States, Ended, Holding, KeyStates, Object, Main, Key
  <2>2. RecordShapes'
    BY <1>17 DEF Publish, RecordShapes
  <2>3. Records'
    BY <1>17 DEF Publish, RecordShapes, Records
  <2>4. DataShapes' /\ JobsGiven'
    BY <1>17 DEF Publish, DataShapes, Fill, JobsGiven
  <2>5. Sources'
    BY <1>0, <2>0, <2>00 DEF DataShapes, Sources, Begun, Does
  <2>6. Places'
    <3>1. body[o] \in Object
      BY <2>00 DEF HasBody
    <3> QED
      BY <2>0, <2>00, <3>1 DEF DataShapes, Places, Settled, Moved
  <2>7. HasBody'
    BY <1>17 DEF Publish, DataShapes, HasBody, KeyStates, Moved
  <2>8. Snapshots'
    <3> SUFFICES ASSUME NEW z \in Op, Begun(z)', Does(z, {"split"})'
                 PROVE  /\ snapshot'[z] \in Object /\ Settled(snapshot[z])'
                        /\ archive'[job'[z].src] = snapshot'[z] =>
                             /\ pc'[z] \in {"inspected", "unlisted", "writing", "copied"} => seen'[z] = snapshot'[z]
                             /\ pc'[z] = "copied" => body'[z] = snapshot'[z]
      BY DEF Snapshots, Settled
    <3>1. Begun(z) /\ Does(z, {"split"}) /\ snapshot[z] # o
      BY <2>00 DEF Begun, Does, Snapshots, Settled, Moved
    <3> QED
      BY <1>0, <2>0, <2>00, <3>1 DEF Snapshots, Begun, Does, Settled, Moved
  <2>9. Described' /\ Whole' /\ LiveTempKept'
    BY <1>17 DEF Publish, DataShapes, Described, Started, Whole, Main, Moved, KeyStates,
      LiveTempKept, Holding
  <2>10. Started' /\ KeysWanted' /\ KeysLinked' /\ KeysThere'
    BY <1>17 DEF Publish, Started, JobsGiven, KeysWanted, Does, KeyStates, DataShapes,
      KeysLinked, Key, KeysThere, Moved
  <2> QED
    BY <2>1, <2>2, <2>3, <2>4, <2>5, <2>6, <2>7, <2>8, <2>9, <2>10
<1>18. ASSUME NEW p \in Proc, StartCleanup(p) PROVE PublishInv'
  <2>1. Shapes' /\ RecordShapes' /\ Records'
    BY <1>18 DEF StartCleanup, States, Ended, Holding, KeyStates, Object, Main, Key,
      RecordShapes, Records
  <2>2. DataShapes' /\ JobsGiven'
    BY <1>18 DEF StartCleanup, DataShapes, Fill, JobsGiven
  <2>3. Sources' /\ HasBody' /\ Places'
    BY <1>18 DEF StartCleanup, DataShapes, JobsGiven, Sources, Begun, Does, HasBody, KeyStates,
      Moved, Places, Settled
  <2>4. Snapshots'
    BY <1>18 DEF StartCleanup, DataShapes, JobsGiven, Sources, Places, Snapshots, Settled,
      Begun, Does, Moved
  <2>5. Described' /\ Whole' /\ LiveTempKept'
    BY <1>18 DEF StartCleanup, DataShapes, Described, Started, Whole, Main, Moved, KeyStates,
      LiveTempKept, Holding
  <2>6. Started' /\ KeysWanted' /\ KeysLinked' /\ KeysThere'
    BY <1>18 DEF StartCleanup, Started, JobsGiven, KeysWanted, Does, KeyStates, DataShapes,
      KeysLinked, Key, KeysThere, Moved
  <2> QED
    BY <2>1, <2>2, <2>3, <2>4, <2>5, <2>6
<1>19. ASSUME NEW p \in Proc, FinishRegistry(p) PROVE PublishInv'
  <2>1. Shapes'
    BY <1>19 DEF FinishRegistry, States, Ended, Holding, KeyStates, Object, Main, Key
  <2>2. RecordShapes'
    BY <1>19 DEF FinishRegistry, RecordShapes
  <2>3. Records'
    BY <1>19 DEF FinishRegistry, RecordShapes, Records
  <2>4. DataShapes' /\ JobsGiven'
    BY <1>19 DEF FinishRegistry, DataShapes, Fill, JobsGiven
  <2>5. Sources' /\ HasBody' /\ Places'
    BY <1>19 DEF FinishRegistry, DataShapes, JobsGiven, Sources, Begun, Does, HasBody,
      KeyStates, Moved, Places, Settled
  <2>6. Snapshots'
    BY <1>19 DEF FinishRegistry, DataShapes, JobsGiven, Sources, Places, Snapshots, Settled,
      Begun, Does, Moved
  <2>7. Described' /\ Whole' /\ LiveTempKept'
    BY <1>19 DEF FinishRegistry, DataShapes, Described, Started, Whole, Main, Moved, KeyStates,
      LiveTempKept, Holding
  <2>8. Started' /\ KeysWanted' /\ KeysLinked' /\ KeysThere'
    BY <1>19 DEF FinishRegistry, Started, JobsGiven, KeysWanted, Does, KeyStates, DataShapes,
      KeysLinked, Key, KeysThere, Moved
  <2> QED
    BY <2>1, <2>2, <2>3, <2>4, <2>5, <2>6, <2>7, <2>8
<1>20. ASSUME NEW p \in Proc, EndCleanup(p) PROVE PublishInv'
  <2>1. Shapes' /\ RecordShapes' /\ Records'
    BY <1>20 DEF EndCleanup, States, Ended, Holding, KeyStates, Object, Main, Key, RecordShapes,
      Records
  <2>2. DataShapes' /\ JobsGiven'
    BY <1>20 DEF EndCleanup, DataShapes, Fill, JobsGiven
  <2>3. Sources' /\ HasBody' /\ Places'
    BY <1>20 DEF EndCleanup, DataShapes, JobsGiven, Sources, Begun, Does, HasBody, KeyStates,
      Moved, Places, Settled
  <2>4. Snapshots'
    BY <1>20 DEF EndCleanup, DataShapes, JobsGiven, Sources, Places, Snapshots, Settled, Begun,
      Does, Moved
  <2>5. Described' /\ Whole' /\ LiveTempKept'
    BY <1>20 DEF EndCleanup, DataShapes, Described, Started, Whole, Main, Moved, KeyStates,
      LiveTempKept, Holding
  <2>6. Started' /\ KeysWanted' /\ KeysLinked' /\ KeysThere'
    BY <1>20 DEF EndCleanup, Started, JobsGiven, KeysWanted, Does, KeyStates, DataShapes,
      KeysLinked, Key, KeysThere, Moved
  <2> QED
    BY <2>1, <2>2, <2>3, <2>4, <2>5, <2>6
<1>21. ASSUME NEW p \in Proc, NEW q \in Proc, ReadRegistry(p, q) PROVE PublishInv'
  <2>1. RecordShapes'
    <3>1. UNCHANGED <<registry, memory, jKept>>
      BY <1>21 DEF ReadRegistry
    <3>2. \/ UNCHANGED <<jpc, jReg, jRecs>>
          \/ /\ jpc' = [jpc EXCEPT ![p] = "remove"]
             /\ jReg' = [jReg EXCEPT ![p] = q]
             /\ jRecs' = [jRecs EXCEPT ![p] = registry[q]]
      BY Zenon, <1>21 DEF ReadRegistry
    <3> QED
      BY <3>1, <3>2 DEF RecordShapes
  <2>2. Shapes' /\ Records'
    BY <1>21 DEF ReadRegistry, States, Ended, Holding, KeyStates, Object, Main, Key,
      RecordShapes, Records, Spared
  <2>3. DataShapes' /\ JobsGiven'
    BY <1>21 DEF ReadRegistry, DataShapes, Fill, JobsGiven
  <2>4. Sources' /\ HasBody' /\ Places'
    BY <1>21 DEF ReadRegistry, DataShapes, JobsGiven, Sources, Begun, Does, HasBody, KeyStates,
      Moved, Places, Settled
  <2>5. Snapshots'
    BY <1>21 DEF ReadRegistry, DataShapes, JobsGiven, Sources, Places, Snapshots, Settled,
      Begun, Does, Moved
  <2>6. Described' /\ Whole' /\ LiveTempKept'
    BY <1>21 DEF ReadRegistry, DataShapes, Described, Started, Whole, Main, Moved, KeyStates,
      LiveTempKept, Holding
  <2>7. Started' /\ KeysWanted' /\ KeysLinked' /\ KeysThere'
    BY <1>21 DEF ReadRegistry, Started, JobsGiven, KeysWanted, Does, KeyStates, DataShapes,
      KeysLinked, Key, KeysThere, Moved
  <2> QED
    BY <2>1, <2>2, <2>3, <2>4, <2>5, <2>6, <2>7
<1>22. ASSUME NEW p \in Proc, NEW a \in Artifact, RemoveRecorded(p, a) PROVE PublishInv'
  <2>0. /\ a = <<a[1], a[2]>> /\ a[1] \in Op /\ a[2] \in {"main", "key"}
        /\ up[Runs[a[1]]] = "dead" /\ a \in jRecs[p]
        /\ UNCHANGED <<opVars, up, places>> /\ holds' = holds
    BY <1>22 DEF RemoveRecorded, Records, SecureRemove, Wipe
  <2>01. /\ temps' \subseteq temps
         /\ a \notin temps => UNCHANGED <<data, kdata>>
         /\ a = Main(a[1]) => data' \in {data, [data EXCEPT ![a[1]] = "wiped"]} /\ kdata' = kdata
         /\ a = Key(a[1]) => kdata' \in {kdata, [kdata EXCEPT ![a[1]] = "wiped"]} /\ data' = data
         /\ temps \ temps' \subseteq {a}
    BY <1>22, <2>0 DEF RemoveRecorded, SecureRemove, Wipe, Main, Key
  <2>02. a = Main(a[1]) \/ a = Key(a[1])
    BY <2>0 DEF Main, Key
  <2>1. Shapes' /\ RecordShapes' /\ Records'
    BY <1>22 DEF RemoveRecorded, States, Ended, Holding, KeyStates, Object, Main, Key,
      SecureRemove, Wipe, RecordShapes, Records
  <2>2. DataShapes' /\ JobsGiven'
    BY <1>22 DEF RemoveRecorded, DataShapes, Fill, SecureRemove, Wipe, Main, Key, JobsGiven
  <2>3. Sources' /\ HasBody' /\ Places'
    BY <1>22 DEF RemoveRecorded, DataShapes, JobsGiven, Sources, Begun, Does, SecureRemove,
      Wipe, Main, Key, HasBody, KeyStates, Moved, Places, Settled
  <2>4. Snapshots'
    BY <1>22 DEF RemoveRecorded, DataShapes, JobsGiven, Sources, Places, Snapshots, Settled,
      Begun, Does, Moved, SecureRemove, Wipe, Main, Key
  <2>5. Whole'
    BY <2>0, <2>01, <2>02 DEF DataShapes, Started, Whole, Main, Moved, KeyStates, Key, Main
  <2>6. LiveTempKept'
    BY <2>0, <2>01, <2>02 DEF DataShapes, Started, LiveTempKept, Holding, KeyStates, Main, Key, Main
  <2>7. Described'
    BY <1>22 DEF RemoveRecorded, DataShapes, Described, SecureRemove, Wipe, Main, Key
  <2>8. KeysLinked'
    BY <2>0, <2>01, <2>02 DEF DataShapes, JobsGiven, Started, KeysWanted, KeysLinked, Does, KeyStates, Key, Key, Main
  <2>9. Started' /\ KeysWanted' /\ KeysThere'
    BY <1>22 DEF RemoveRecorded, Started, SecureRemove, Wipe, Main, Key, JobsGiven, KeysWanted,
      Does, KeyStates, DataShapes, KeysLinked, KeysThere, Moved
  <2> QED
    BY <2>1, <2>2, <2>3, <2>4, <2>5, <2>6, <2>7, <2>8, <2>9
<1>23. ASSUME NEW p \in Proc, Crash(p) PROVE PublishInv'
  <2>1. Shapes' /\ RecordShapes' /\ Records'
    BY <1>23 DEF Crash, States, Ended, Holding, KeyStates, Object, Main, Key, RecordShapes,
      Records
  <2>2. DataShapes' /\ JobsGiven'
    BY <1>23 DEF Crash, DataShapes, Fill, JobsGiven
  <2>3. Sources' /\ HasBody' /\ Places'
    BY <1>23 DEF Crash, DataShapes, JobsGiven, Sources, Begun, Does, HasBody, KeyStates, Moved,
      Places, Settled
  <2>4. Snapshots'
    BY <1>23 DEF Crash, DataShapes, JobsGiven, Sources, Places, Snapshots, Settled, Begun, Does,
      Moved
  <2>5. Described' /\ Whole' /\ LiveTempKept'
    BY <1>23 DEF Crash, DataShapes, Described, Started, Whole, Main, Moved, KeyStates,
      LiveTempKept, Holding
  <2>6. Started' /\ KeysWanted' /\ KeysLinked' /\ KeysThere'
    BY <1>23 DEF Crash, Started, JobsGiven, KeysWanted, Does, KeyStates, DataShapes, KeysLinked,
      Key, KeysThere, Moved
  <2> QED
    BY <2>1, <2>2, <2>3, <2>4, <2>5, <2>6
<1>24. ASSUME NEW n \in Name, Damage(n) PROVE PublishInv'
  <2>1. Shapes' /\ RecordShapes' /\ Records'
    BY <1>24 DEF Damage, States, Ended, Holding, KeyStates, Object, Main, Key, RecordShapes,
      Records
  <2>2. DataShapes' /\ JobsGiven'
    BY <1>24 DEF Damage, DataShapes, Fill, JobsGiven
  <2>3. Sources' /\ HasBody' /\ Places'
    BY <1>24 DEF Damage, DataShapes, JobsGiven, Sources, Begun, Does, HasBody, KeyStates, Moved,
      Places, Settled
  <2>4. Snapshots'
    BY <1>24 DEF Damage, DataShapes, JobsGiven, Sources, Places, Snapshots, Settled, Begun,
      Does, Moved
  <2>5. Described' /\ Whole' /\ LiveTempKept'
    BY <1>24 DEF Damage, DataShapes, Described, Started, Whole, Main, Moved, KeyStates,
      LiveTempKept, Holding
  <2>6. Started' /\ KeysWanted' /\ KeysLinked' /\ KeysThere'
    BY <1>24 DEF Damage, Started, JobsGiven, KeysWanted, Does, KeyStates, DataShapes,
      KeysLinked, Key, KeysThere, Moved
  <2> QED
    BY <2>1, <2>2, <2>3, <2>4, <2>5, <2>6
<1>25. ASSUME UNCHANGED vars PROVE PublishInv'
  <2>1. Shapes' /\ RecordShapes' /\ Records'
    BY <1>25 DEF vars, States, Ended, Holding, KeyStates, Object, Main, Key, RecordShapes,
      Records
  <2>2. DataShapes' /\ JobsGiven'
    BY <1>25 DEF vars, DataShapes, Fill, JobsGiven
  <2>3. Sources' /\ HasBody' /\ Places'
    BY <1>25 DEF vars, DataShapes, JobsGiven, Sources, Begun, Does, HasBody, KeyStates, Moved,
      Places, Settled
  <2>4. Snapshots'
    BY <1>25 DEF vars, DataShapes, JobsGiven, Sources, Places, Snapshots, Settled, Begun, Does,
      Moved
  <2>5. Described' /\ Whole' /\ LiveTempKept'
    BY <1>25 DEF vars, DataShapes, Described, Started, Whole, Main, Moved, KeyStates,
      LiveTempKept, Holding
  <2>6. Started' /\ KeysWanted' /\ KeysLinked' /\ KeysThere'
    BY <1>25 DEF vars, Started, JobsGiven, KeysWanted, Does, KeyStates, DataShapes, KeysLinked,
      Key, KeysThere, Moved
  <2> QED
    BY <2>1, <2>2, <2>3, <2>4, <2>5, <2>6
<1> HIDE DEF PublishInv
<1> QED
  BY <1>1, <1>2, <1>3, <1>4, <1>5, <1>6, <1>7, <1>8, <1>9, <1>10, <1>11, <1>12, <1>13, <1>14, <1>15, <1>16, <1>17, <1>18, <1>19, <1>20, <1>21, <1>22, <1>23, <1>24, <1>25 DEF Next, Step, Cleanup

-----------------------------------------------------------------------------
\* The rest of the types.
LockShapes ==
  /\ listed \subseteq Proc
  /\ holder \in [Proc -> Op \cup {"janitor", None}] /\ handle \in [Proc -> {"none", "open", "orphan"}]
  /\ lost \subseteq Artifact /\ stuck \subseteq Artifact
HistShapes ==
  /\ \A o \in Op : job[o] \in Choices[o] \cup {None}
  /\ jTodo \in [Proc -> SUBSET Proc] /\ damaged \subseteq Object /\ crashes \in 0..MaxCrashes
  /\ rivals \in [Op -> SUBSET Op] /\ successor \in [Object -> Op \cup {None}]
PassShapes ==
  /\ passes \in [Proc -> 0..2]
  /\ \A p \in Proc : jpc[p] # "off" => passes[p] < Passes[p]
  /\ \A p \in Proc : jpc[p] = "remove" => jReg[p] \in Proc

\* Who holds the registry lock of a process, and what it holds it for.
LockUse ==
  /\ \A p \in Proc : holder[p] \in Op =>
       pc[holder[p]] \in Unregistering \cup {"unlisted", "keyUnlisted"} /\ Runs[holder[p]] = p /\ up[p] = "up"
  /\ \A p \in Proc : jpc[p] # "off" => holder[p] = "janitor"

\* While lines are in memory alone, the file is empty.
LinesOnce ==
  \A p \in Proc :
    /\ memory[p] # {} => holder[p] \in Op /\ pc[holder[p]] \in Unregistering /\ up[p] = "up"
    /\ holder[p] \in Op /\ pc[holder[p]] \in Unregistering => registry[p] = {}

\* A registry without a file has no lines.
FileThere == \A p \in Proc : (handle[p] = "open" => p \in listed) /\ (p \notin listed => registry[p] = {})

\* An operation that is past an artifact has unlinked it, or could not.
TempsOwned ==
  \A o \in Op :
    /\ Main(o) \in temps => pc[o] \in Holding \cup {"failing"} \/ Main(o) \in stuck
    /\ Key(o) \in temps => pc[o] \in {"keyUnlisted", "keyWriting", "keyLinked", "keyFailing"} \/ Key(o) \in stuck

\* Every artifact has a line, in the file or in memory, or there is an account of it.
LinesAccounted ==
  \A x \in temps :
    \/ x \in registry[Runs[x[1]]] \cup memory[Runs[x[1]]] \cup lost \cup stuck
    \/ pc[x[1]] = IF x = Key(x[1]) THEN "keyUnlisted" ELSE "unlisted"

RegistryInv ==
  /\ LockShapes /\ HistShapes /\ PassShapes
  /\ LockUse /\ LinesOnce /\ FileThere /\ TempsOwned /\ LinesAccounted

\* What the registries need besides.
LEMMA RegistryConstants ==
  "janitor" \notin Op /\ None # "janitor" /\ Passes \in [Proc -> {1, 2}] /\ MaxCrashes \in Nat
  BY PublishAssumption

\* Every step keeps the registries accounted for.
LEMMA RegistryStep == ASSUME PublishInv, RegistryInv, [Next]_vars PROVE RegistryInv'
<1> USE Constants, RegistryConstants DEF PublishInv, RegistryInv, Shapes, opVars, contents, places, regVars, janVars, histVars, At, Go, Artifact
<1>1. ASSUME NEW o \in Op, NEW j \in Choices[o], Begin(o, j) PROVE RegistryInv'
  <2>1. LockShapes' /\ FileThere'
    BY <1>1 DEF Begin, RecordShapes, LockShapes, Main, Key, Records, FileThere, PassShapes
  <2>2. HistShapes' /\ PassShapes'
    BY <1>1 DEF Begin, HistShapes, DataShapes, Object, LockShapes, RecordShapes, PassShapes
  <2>3. LockUse' /\ LinesOnce'
    BY <1>1 DEF Begin, RecordShapes, LockShapes, LockUse, Unregistering, Records, LinesOnce
  <2>4. TempsOwned'
    BY <1>1 DEF Begin, LockShapes, TempsOwned, Holding, KeyStates, Main, Key
  <2>5. LinesAccounted'
    BY <1>1 DEF Begin, RecordShapes, Records, LockShapes, LockUse, LinesOnce, TempsOwned,
      LinesAccounted, Unregistering, Main, Key
  <2> QED
    BY <2>1, <2>2, <2>3, <2>4, <2>5
<1>2. ASSUME NEW o \in Op, Inspect(o) PROVE RegistryInv'
  <2>1. LockShapes' /\ FileThere'
    BY <1>2 DEF Inspect, RecordShapes, LockShapes, Main, Key, Records, FileThere, PassShapes
  <2>2. HistShapes' /\ PassShapes'
    BY <1>2 DEF Inspect, HistShapes, DataShapes, Object, LockShapes, RecordShapes, PassShapes
  <2>3. LockUse' /\ LinesOnce'
    BY <1>2 DEF Inspect, RecordShapes, LockShapes, LockUse, Unregistering, Records, LinesOnce
  <2>4. TempsOwned'
    BY <1>2 DEF Inspect, LockShapes, TempsOwned, Holding, KeyStates, Main, Key
  <2>5. LinesAccounted'
    BY <1>2 DEF Inspect, RecordShapes, Records, LockShapes, LockUse, LinesOnce, TempsOwned,
      LinesAccounted, Unregistering, Main, Key
  <2> QED
    BY <2>1, <2>2, <2>3, <2>4, <2>5
<1>3. ASSUME NEW o \in Op, MakeTemp(o) PROVE RegistryInv'
  <2>1. LockShapes' /\ FileThere'
    BY <1>3 DEF MakeTemp, RecordShapes, LockShapes, Main, Key, Records, FileThere, PassShapes
  <2>2. HistShapes' /\ PassShapes'
    BY <1>3 DEF MakeTemp, HistShapes, DataShapes, Object, LockShapes, RecordShapes, PassShapes
  <2>3. LockUse' /\ LinesOnce'
    BY <1>3 DEF MakeTemp, RecordShapes, LockShapes, LockUse, Unregistering, Records, LinesOnce
  <2>4. TempsOwned'
    BY <1>3 DEF MakeTemp, LockShapes, TempsOwned, Holding, KeyStates, Main, Key
  <2>5. LinesAccounted'
    BY <1>3 DEF MakeTemp, RecordShapes, Records, LockShapes, LockUse, LinesOnce, TempsOwned,
      LinesAccounted, Unregistering, Main, Key
  <2> QED
    BY <2>1, <2>2, <2>3, <2>4, <2>5
<1>4. ASSUME NEW o \in Op, Abort(o) PROVE RegistryInv'
  <2>1. LockShapes' /\ FileThere'
    BY <1>4 DEF Abort, RecordShapes, LockShapes, Main, Key, Records, FileThere, PassShapes
  <2>2. HistShapes' /\ PassShapes'
    BY <1>4 DEF Abort, HistShapes, DataShapes, Object, LockShapes, RecordShapes, PassShapes
  <2>3. LockUse' /\ LinesOnce'
    BY <1>4 DEF Abort, RecordShapes, LockShapes, LockUse, Unregistering, Records, LinesOnce
  <2>4. TempsOwned'
    BY <1>4 DEF Abort, LockShapes, TempsOwned, Holding, KeyStates, Main, Key
  <2>5. LinesAccounted'
    BY <1>4 DEF Abort, RecordShapes, Records, LockShapes, LockUse, LinesOnce, TempsOwned,
      LinesAccounted, Unregistering, Main, Key
  <2> QED
    BY <2>1, <2>2, <2>3, <2>4, <2>5
<1>5. ASSUME NEW o \in Op, OpenRegistry(o) PROVE RegistryInv'
  <2>1. LockShapes' /\ FileThere'
    BY <1>5 DEF OpenRegistry, RecordShapes, LockShapes, Main, Key, Records, FileThere,
      PassShapes
  <2>2. HistShapes' /\ PassShapes'
    BY <1>5 DEF OpenRegistry, HistShapes, DataShapes, Object, LockShapes, RecordShapes,
      PassShapes
  <2>3. LockUse' /\ LinesOnce'
    BY <1>5 DEF OpenRegistry, RecordShapes, LockShapes, LockUse, Unregistering, Records,
      LinesOnce
  <2>4. TempsOwned'
    BY <1>5 DEF OpenRegistry, LockShapes, TempsOwned, Holding, KeyStates, Main, Key
  <2>5. LinesAccounted'
    BY <1>5 DEF OpenRegistry, RecordShapes, Records, LockShapes, LockUse, LinesOnce, TempsOwned,
      LinesAccounted, Unregistering, Main, Key
  <2> QED
    BY <2>1, <2>2, <2>3, <2>4, <2>5
<1>6. ASSUME NEW o \in Op, Append(o) PROVE RegistryInv'
  <2>0. /\ pc[o] \in {"unlisted", "keyUnlisted"} /\ holder[Runs[o]] = o /\ Runs[o] \in Proc
        /\ UNCHANGED <<temps, stuck, memory>>
        /\ \/ registry' = [registry EXCEPT ![Runs[o]] = @ \cup {Recorded(o)}] /\ lost' = lost
           \/ lost' = lost \cup {Recorded(o)} /\ registry' = registry
        /\ pc' = [pc EXCEPT ![o] = IF pc[o] = "unlisted" THEN "writing" ELSE "keyWriting"]
        /\ Recorded(o) = IF pc[o] = "unlisted" THEN Main(o) ELSE Key(o)
    BY <1>6 DEF Append, Recorded, KeyStates
  <2>1. LockShapes' /\ FileThere'
    BY <1>6 DEF Append, RecordShapes, LockShapes, Main, Key, Recorded, KeyStates, Records,
      FileThere, PassShapes
  <2>2. HistShapes' /\ PassShapes'
    BY <1>6 DEF Append, HistShapes, DataShapes, Object, LockShapes, Recorded, KeyStates, Main,
      Key, RecordShapes, PassShapes
  <2>3. LockUse' /\ LinesOnce'
    BY <1>6 DEF Append, RecordShapes, LockShapes, LockUse, Unregistering, Recorded, KeyStates,
      Main, Key, Records, LinesOnce
  <2>4. TempsOwned'
    BY <1>6 DEF Append, LockShapes, TempsOwned, Holding, KeyStates, Main, Key, Recorded
  <2>5. LinesAccounted'
    <3> SUFFICES ASSUME NEW x \in temps, x \notin lost, x \notin stuck
                 PROVE  \/ x \in registry'[Runs[x[1]]] \cup memory[Runs[x[1]]] \cup lost'
                        \/ pc'[x[1]] = IF x = Key(x[1]) THEN "keyUnlisted" ELSE "unlisted"
      BY <2>0 DEF LinesAccounted
    <3>1. x[1] \in Op /\ (x = Main(x[1]) \/ x = Key(x[1])) /\ Runs[x[1]] \in Proc
      BY DEF Main, Key
    <3>2. CASE x = Recorded(o)
      BY <2>0, <3>1, <3>2 DEF Main, Key, RecordShapes
    <3>3. CASE x # Recorded(o)
      BY <2>0, <3>1, <3>3 DEF Main, Key, RecordShapes, LinesAccounted
    <3> QED
      BY <3>2, <3>3
  <2> QED
    BY <2>1, <2>2, <2>3, <2>4, <2>5
<1>7. ASSUME NEW o \in Op, StartUnregister(o) PROVE RegistryInv'
  <2>0. /\ pc[o] \in Unregistering /\ up[Runs[o]] = "up" /\ holder[Runs[o]] = None /\ Runs[o] \in Proc
        /\ memory[Runs[o]] = {} /\ UNCHANGED <<temps, lost, stuck, up, jpc, listed>>
        /\ \/ /\ Runs[o] \in listed /\ pc' = pc
              /\ memory' = [memory EXCEPT ![Runs[o]] = registry[Runs[o]] \ {Recorded(o)}]
              /\ registry' = [registry EXCEPT ![Runs[o]] = {}]
              /\ holder' = [holder EXCEPT ![Runs[o]] = o]
              /\ handle' = [handle EXCEPT ![Runs[o]] = "open"]
           \/ /\ pc' = [pc EXCEPT ![o] = AfterUnregister(o)]
              /\ UNCHANGED <<memory, registry, holder, handle>>
    BY <1>7 DEF StartUnregister, LinesOnce
  <2>00. /\ Recorded(o) \in temps => Recorded(o) \in stuck
         /\ AfterUnregister(o) \in {"done", "failed", "keyed", "failing"}
         /\ AfterUnregister(o) = "done" <=> pc[o] = "moved"
         /\ AfterUnregister(o) = "failed" <=> pc[o] = "discarded"
         /\ pc[o] \in {"keyUnlinked", "keyDiscarded"} <=> AfterUnregister(o) \in {"keyed", "failing"}
    BY <2>0 DEF TempsOwned, Recorded, AfterUnregister, Unregistering, Holding, KeyStates
  <2>1. FileThere'
    BY <2>0 DEF RecordShapes, LockShapes, FileThere
  <2>2. LockShapes'
    BY <1>7 DEF StartUnregister, RecordShapes, LockShapes, Main, Key, Recorded, AfterUnregister,
      Unregistering, KeyStates
  <2>3. HistShapes' /\ PassShapes'
    BY <1>7 DEF StartUnregister, HistShapes, DataShapes, Object, LockShapes, Recorded,
      AfterUnregister, Unregistering, KeyStates, RecordShapes, PassShapes
  <2>4. LockUse'
    <3>1. CASE pc' = pc /\ holder' = [holder EXCEPT ![Runs[o]] = o]
      BY <2>0, <3>1 DEF LockShapes, LockUse
    <3>2. CASE pc' = [pc EXCEPT ![o] = AfterUnregister(o)] /\ holder' = holder
      <4>1. \A p \in Proc : holder[p] \in Op => holder[p] # o
        BY <2>0 DEF LockUse
      <4> QED
        BY <2>0, <3>2, <4>1 DEF LockUse
    <3> QED
      BY <2>0, <3>1, <3>2
  <2>5. LinesOnce'
    BY <2>0, <2>00 DEF RecordShapes, Records, LockShapes, LockUse, LinesOnce, Unregistering
  <2>6. TempsOwned'
    <3>1. \A z \in Op : z # o => pc'[z] = pc[z]
      BY <2>0
    <3>2. pc'[o] = pc[o] \/ pc'[o] = AfterUnregister(o)
      BY <2>0
    <3>3. pc[o] \in {"moved", "discarded"} => Recorded(o) = Main(o)
      BY DEF Recorded, KeyStates
    <3>4. pc[o] \in {"keyUnlinked", "keyDiscarded"} => Recorded(o) = Key(o)
      BY DEF Recorded, KeyStates
    <3> QED
      BY <2>0, <2>00, <3>1, <3>2, <3>3, <3>4 DEF TempsOwned, Holding, KeyStates, Unregistering
  <2>7. LinesAccounted'
    BY <2>0, <2>00 DEF RecordShapes, Records, LockShapes, LockUse, LinesOnce, TempsOwned,
      LinesAccounted, Unregistering, Main, Key
  <2> QED
    BY <2>1, <2>2, <2>3, <2>4, <2>5, <2>6, <2>7
<1>8. ASSUME NEW o \in Op, EndUnregister(o) PROVE RegistryInv'
  <2>0. /\ pc[o] \in Unregistering /\ holder[Runs[o]] = o /\ registry[Runs[o]] = {} /\ Runs[o] \in Proc
        /\ UNCHANGED <<temps, stuck, up, jpc, listed>>
        /\ \/ registry' = [registry EXCEPT ![Runs[o]] = memory[Runs[o]]] /\ lost' = lost
           \/ lost' = lost \cup (memory[Runs[o]] \cap temps) /\ registry' = registry
        /\ memory' = [memory EXCEPT ![Runs[o]] = {}]
        /\ holder' = [holder EXCEPT ![Runs[o]] = None]
        /\ pc' = [pc EXCEPT ![o] = AfterUnregister(o)]
    BY <1>8 DEF EndUnregister, LinesOnce
  <2>00. AfterUnregister(o) \in {"done", "failed", "keyed", "failing"}
    BY <2>0 DEF AfterUnregister, Unregistering
  <2>1. LockShapes' /\ FileThere'
    BY <1>8 DEF EndUnregister, RecordShapes, LockShapes, Main, Key, Recorded, AfterUnregister,
      Unregistering, KeyStates, Records, FileThere, PassShapes
  <2>2. HistShapes' /\ PassShapes'
    BY <1>8 DEF EndUnregister, HistShapes, DataShapes, Object, LockShapes, Recorded,
      AfterUnregister, Unregistering, KeyStates, RecordShapes, PassShapes
  <2>3. LockUse'
    BY <2>0, <2>00 DEF RecordShapes, LockShapes, LockUse, Unregistering
  <2>4. LinesOnce'
    BY <2>0, <2>00 DEF RecordShapes, Records, LockShapes, LockUse, LinesOnce, Unregistering
  <2>5. TempsOwned'
    BY <1>8 DEF EndUnregister, LockShapes, TempsOwned, Holding, KeyStates, Main, Key, Recorded,
      AfterUnregister, Unregistering
  <2>6. LinesAccounted'
    BY <2>0, <2>00 DEF RecordShapes, Records, LockShapes, LockUse, LinesOnce, TempsOwned,
      LinesAccounted, Unregistering, Main, Key
  <2> QED
    BY <2>1, <2>2, <2>3, <2>4, <2>5, <2>6
<1>9. ASSUME NEW o \in Op, Copy(o) PROVE RegistryInv'
  <2>1. LockShapes' /\ FileThere'
    BY <1>9 DEF Copy, RecordShapes, LockShapes, Main, Key, Records, FileThere, PassShapes
  <2>2. HistShapes' /\ PassShapes'
    BY <1>9 DEF Copy, HistShapes, DataShapes, Object, LockShapes, RecordShapes, PassShapes
  <2>3. LockUse'
    BY <1>9 DEF Copy, RecordShapes, LockShapes, LockUse, Unregistering
  <2>4. LinesOnce'
    BY <1>9 DEF Copy, RecordShapes, Records, LockShapes, LockUse, LinesOnce, Unregistering
  <2>5. TempsOwned'
    <3>1. /\ UNCHANGED <<temps, stuck>>
          /\ pc[o] = "writing" /\ pc'[o] \in {"failing", "copied"}
          /\ \A z \in Op : z # o => pc'[z] = pc[z]
      BY <1>9 DEF Copy
    <3> QED
      BY <3>1 DEF TempsOwned, Holding, KeyStates, Main, Key
  <2>6. LinesAccounted'
    BY <1>9 DEF Copy, RecordShapes, Records, LockShapes, LockUse, LinesOnce, TempsOwned,
      LinesAccounted, Unregistering, Main, Key
  <2> QED
    BY <2>1, <2>2, <2>3, <2>4, <2>5, <2>6
<1>10. ASSUME NEW o \in Op, Complete(o) PROVE RegistryInv'
  <2>1. LockShapes' /\ FileThere'
    BY <1>10 DEF Complete, RecordShapes, LockShapes, Main, Key, Records, FileThere, PassShapes
  <2>2. HistShapes' /\ PassShapes'
    BY <1>10 DEF Complete, HistShapes, DataShapes, Object, LockShapes, RecordShapes, PassShapes
  <2>3. LockUse'
    BY <1>10 DEF Complete, RecordShapes, LockShapes, LockUse, Unregistering
  <2>4. LinesOnce'
    BY <1>10 DEF Complete, RecordShapes, Records, LockShapes, LockUse, LinesOnce, Unregistering
  <2>5. TempsOwned'
    <3>1. /\ UNCHANGED <<temps, stuck>>
          /\ pc[o] = "copied" /\ pc'[o] \in {"failing", "complete"}
          /\ \A z \in Op : z # o => pc'[z] = pc[z]
      BY <1>10 DEF Complete
    <3> QED
      BY <3>1 DEF TempsOwned, Holding, KeyStates, Main, Key
  <2>6. LinesAccounted'
    BY <1>10 DEF Complete, RecordShapes, Records, LockShapes, LockUse, LinesOnce, TempsOwned,
      LinesAccounted, Unregistering, Main, Key
  <2> QED
    BY <2>1, <2>2, <2>3, <2>4, <2>5, <2>6
<1>11. ASSUME NEW o \in Op, Fail(o) PROVE RegistryInv'
  <2>1. LockShapes' /\ FileThere'
    BY <1>11 DEF Fail, RecordShapes, LockShapes, Main, Key, Records, FileThere, PassShapes
  <2>2. HistShapes' /\ PassShapes'
    BY <1>11 DEF Fail, HistShapes, DataShapes, Object, LockShapes, RecordShapes, PassShapes
  <2>3. LockUse'
    BY <1>11 DEF Fail, RecordShapes, LockShapes, LockUse, Unregistering
  <2>4. LinesOnce'
    BY <1>11 DEF Fail, RecordShapes, Records, LockShapes, LockUse, LinesOnce, Unregistering
  <2>5. TempsOwned'
    <3>1. /\ UNCHANGED <<temps, stuck>>
          /\ \/ pc[o] = "keyWriting" /\ pc'[o] = "keyFailing"
             \/ pc[o] \in {"writing", "copied", "complete", "keyed", "cleared"} /\ pc'[o] = "failing"
          /\ \A z \in Op : z # o => pc'[z] = pc[z]
      BY <1>11 DEF Fail
    <3> QED
      BY <3>1 DEF TempsOwned, Holding, KeyStates, Main, Key
  <2>6. LinesAccounted'
    BY <1>11 DEF Fail, RecordShapes, Records, LockShapes, LockUse, LinesOnce, TempsOwned,
      LinesAccounted, Unregistering, Main, Key
  <2> QED
    BY <2>1, <2>2, <2>3, <2>4, <2>5, <2>6
<1>12. ASSUME NEW o \in Op, MakeKeyTemp(o) PROVE RegistryInv'
  <2>0. /\ pc[o] = "complete" /\ UNCHANGED <<stuck, lost, registry, memory>>
        /\ \/ pc' = [pc EXCEPT ![o] = "failing"] /\ temps' = temps
           \/ pc' = [pc EXCEPT ![o] = "keyUnlisted"] /\ temps' = temps \cup {Key(o)}
    BY <1>12 DEF MakeKeyTemp
  <2>1. LockShapes' /\ FileThere'
    BY <1>12 DEF MakeKeyTemp, RecordShapes, LockShapes, Main, Key, Records, FileThere,
      PassShapes
  <2>2. HistShapes' /\ PassShapes'
    BY <1>12 DEF MakeKeyTemp, HistShapes, DataShapes, Object, LockShapes, RecordShapes,
      PassShapes
  <2>3. LockUse'
    BY <1>12 DEF MakeKeyTemp, RecordShapes, LockShapes, LockUse, Unregistering
  <2>4. LinesOnce'
    BY <1>12 DEF MakeKeyTemp, RecordShapes, Records, LockShapes, LockUse, LinesOnce,
      Unregistering
  <2>5. TempsOwned'
    <3>1. \A z \in Op : Main(z) # Key(o) /\ (Key(z) = Key(o) => z = o)
      BY DEF Main, Key
    <3> QED
      BY <2>0, <3>1 DEF TempsOwned, Holding, KeyStates
  <2>6. LinesAccounted'
    BY <1>12 DEF MakeKeyTemp, RecordShapes, Records, LockShapes, LockUse, LinesOnce, TempsOwned,
      LinesAccounted, Unregistering, Main, Key
  <2> QED
    BY <2>1, <2>2, <2>3, <2>4, <2>5, <2>6
<1>13. ASSUME NEW o \in Op, LinkKeyfile(o) PROVE RegistryInv'
  <2>0. /\ pc[o] = "keyWriting" /\ UNCHANGED <<regVars, janVars, up>>
        /\ pc' \in {[pc EXCEPT ![o] = "keyFailing"], [pc EXCEPT ![o] = "keyLinked"]}
    BY <1>13 DEF LinkKeyfile
  <2>1. LockShapes' /\ FileThere'
    BY <1>13 DEF LinkKeyfile, RecordShapes, LockShapes, Main, Key, Records, FileThere,
      PassShapes
  <2>2. HistShapes' /\ PassShapes'
    BY <1>13 DEF LinkKeyfile, HistShapes, DataShapes, Object, LockShapes, RecordShapes,
      PassShapes
  <2>3. LockUse'
    BY <2>0 DEF RecordShapes, LockShapes, LockUse, Unregistering
  <2>4. LinesOnce'
    BY <2>0 DEF RecordShapes, Records, LockShapes, LockUse, LinesOnce, Unregistering
  <2>5. TempsOwned'
    <3>1. /\ UNCHANGED <<temps, stuck>>
          /\ pc[o] = "keyWriting" /\ pc'[o] \in {"keyFailing", "keyLinked"}
          /\ \A z \in Op : z # o => pc'[z] = pc[z]
      BY <1>13 DEF LinkKeyfile
    <3> QED
      BY <3>1 DEF TempsOwned, Holding, KeyStates, Main, Key
  <2>6. LinesAccounted'
    BY <1>13 DEF LinkKeyfile, RecordShapes, Records, LockShapes, LockUse, LinesOnce, TempsOwned,
      LinesAccounted, Unregistering, Main, Key
  <2> QED
    BY <2>1, <2>2, <2>3, <2>4, <2>5, <2>6
<1>14. ASSUME NEW o \in Op, UnlinkKeyTemp(o) PROVE RegistryInv'
  <2>1. LockShapes' /\ FileThere'
    BY <1>14 DEF UnlinkKeyTemp, RecordShapes, LockShapes, Main, Key, Records, FileThere,
      PassShapes
  <2>2. HistShapes' /\ PassShapes'
    BY <1>14 DEF UnlinkKeyTemp, HistShapes, DataShapes, Object, LockShapes, RecordShapes,
      PassShapes
  <2>3. LockUse' /\ LinesOnce'
    BY <1>14 DEF UnlinkKeyTemp, RecordShapes, LockShapes, LockUse, Unregistering, Records,
      LinesOnce
  <2>4. TempsOwned'
    <3>1. /\ pc[o] = "keyLinked" /\ UNCHANGED stuck
          /\ \/ temps' = temps \ {Key(o)} /\ pc'[o] = "keyUnlinked"
             \/ temps' = temps /\ pc'[o] = "keyFailing"
          /\ \A z \in Op : z # o => pc'[z] = pc[z]
      BY <1>14 DEF UnlinkKeyTemp
    <3> QED
      BY <3>1 DEF TempsOwned, Holding, KeyStates, Main, Key
  <2>5. LinesAccounted'
    BY <1>14 DEF UnlinkKeyTemp, RecordShapes, Records, LockShapes, LockUse, LinesOnce,
      TempsOwned, LinesAccounted, Unregistering, Main, Key
  <2> QED
    BY <2>1, <2>2, <2>3, <2>4, <2>5
<1>15. ASSUME NEW o \in Op, Discard(o) PROVE RegistryInv'
  <2>0. /\ pc[o] \in {"failing", "keyFailing"} /\ UNCHANGED <<regVars, janVars, up>>
        /\ pc' \in {[pc EXCEPT ![o] = "discarded"], [pc EXCEPT ![o] = "keyDiscarded"]}
    BY <1>15 DEF Discard
  <2>1. LockShapes' /\ FileThere'
    BY <1>15 DEF Discard, RecordShapes, LockShapes, Main, Key, SecureRemove, Wipe, CanStick,
      Records, FileThere, PassShapes
  <2>2. HistShapes' /\ PassShapes'
    BY <1>15 DEF Discard, HistShapes, DataShapes, Object, LockShapes, SecureRemove, Wipe,
      CanStick, Main, Key, RecordShapes, PassShapes
  <2>3. LockUse'
    BY <2>0 DEF RecordShapes, LockShapes, LockUse, Unregistering
  <2>4. LinesOnce'
    BY <2>0 DEF RecordShapes, Records, LockShapes, LockUse, LinesOnce, Unregistering
  <2>5. TempsOwned'
    <3>1. /\ temps' \subseteq temps /\ stuck \subseteq stuck'
          /\ \/ pc[o] = "failing" /\ pc'[o] = "discarded" /\ (Main(o) \in temps' => Main(o) \in stuck')
             \/ pc[o] = "keyFailing" /\ pc'[o] = "keyDiscarded" /\ (Key(o) \in temps' => Key(o) \in stuck')
          /\ \A z \in Op : z # o => pc'[z] = pc[z]
      BY <1>15 DEF Discard, SecureRemove
    <3> QED
      BY <3>1 DEF TempsOwned, Holding, KeyStates, Main, Key
  <2>6. LinesAccounted'
    BY <1>15 DEF Discard, RecordShapes, Records, LockShapes, LockUse, LinesOnce, TempsOwned,
      LinesAccounted, Unregistering, Main, Key, SecureRemove, Wipe, CanStick
  <2> QED
    BY <2>1, <2>2, <2>3, <2>4, <2>5, <2>6
<1>16. ASSUME NEW o \in Op, Recheck(o) PROVE RegistryInv'
  <2>1. LockShapes' /\ FileThere'
    BY <1>16 DEF Recheck, RecordShapes, LockShapes, Main, Key, Records, FileThere, PassShapes
  <2>2. HistShapes' /\ PassShapes'
    BY <1>16 DEF Recheck, HistShapes, DataShapes, Object, LockShapes, RecordShapes, PassShapes
  <2>3. LockUse' /\ LinesOnce'
    BY <1>16 DEF Recheck, RecordShapes, LockShapes, LockUse, Unregistering, Records, LinesOnce
  <2>4. TempsOwned'
    BY <1>16 DEF Recheck, LockShapes, TempsOwned, Holding, KeyStates, Main, Key
  <2>5. LinesAccounted'
    BY <1>16 DEF Recheck, RecordShapes, Records, LockShapes, LockUse, LinesOnce, TempsOwned,
      LinesAccounted, Unregistering, Main, Key
  <2> QED
    BY <2>1, <2>2, <2>3, <2>4, <2>5
<1>17. ASSUME NEW o \in Op, Publish(o) PROVE RegistryInv'
  <2>0. /\ pc[o] \in {"complete", "cleared"}
        /\ UNCHANGED <<regVars, janVars, up, job, damaged, crashes, stuck, lost>>
        /\ \/ pc' = [pc EXCEPT ![o] = "failing"] /\ UNCHANGED <<temps, rivals, successor>>
           \/ pc' = [pc EXCEPT ![o] = "moved"] /\ temps' = temps \ {Main(o)}
    BY <1>17 DEF Publish
  <2>00. rivals' \in [Op -> SUBSET Op] /\ successor' \in [Object -> Op \cup {None}]
    <3>1. /\ successor' = successor \/ \E x : successor' = [successor EXCEPT ![x] = o]
          /\ rivals' = rivals
             \/ \E W : rivals' = [z \in Op |-> IF z \in W THEN rivals[z] \cup {o} ELSE rivals[z]]
      BY <1>17 DEF Publish
    <3> QED
      BY <3>1 DEF HistShapes
  <2>1. LockShapes' /\ FileThere'
    BY <1>17 DEF Publish, RecordShapes, LockShapes, Main, Key, Records, FileThere, PassShapes
  <2>2. HistShapes'
    BY <2>0, <2>00 DEF HistShapes, DataShapes, Object, LockShapes
  <2>3. PassShapes'
    BY <2>0 DEF RecordShapes, PassShapes
  <2>4. LockUse'
    BY <2>0 DEF RecordShapes, LockShapes, LockUse, Unregistering
  <2>5. LinesOnce'
    BY <2>0 DEF RecordShapes, Records, LockShapes, LockUse, LinesOnce, Unregistering
  <2>6. TempsOwned'
    BY <2>0 DEF LockShapes, TempsOwned, Holding, KeyStates, Main, Key
  <2>7. LinesAccounted'
    BY <2>0 DEF RecordShapes, Records, LockShapes, LockUse, LinesOnce, TempsOwned,
      LinesAccounted, Unregistering, Main, Key
  <2> QED
    BY <2>1, <2>2, <2>3, <2>4, <2>5, <2>6, <2>7
<1>18. ASSUME NEW p \in Proc, StartCleanup(p) PROVE RegistryInv'
  <2>1. LockShapes' /\ FileThere'
    BY <1>18 DEF StartCleanup, RecordShapes, LockShapes, Main, Key, Records, FileThere,
      PassShapes
  <2>2. HistShapes'
    BY <1>18 DEF StartCleanup, HistShapes, DataShapes, Object, LockShapes
  <2>3. PassShapes'
    BY <1>18 DEF StartCleanup, RecordShapes, PassShapes
  <2>4. LockUse'
    BY <1>18 DEF StartCleanup, RecordShapes, LockShapes, LockUse, Unregistering
  <2>5. LinesOnce'
    BY <1>18 DEF StartCleanup, RecordShapes, Records, LockShapes, LockUse, LinesOnce,
      Unregistering
  <2>6. TempsOwned'
    BY <1>18 DEF StartCleanup, LockShapes, TempsOwned, Holding, KeyStates, Main, Key
  <2>7. LinesAccounted'
    BY <1>18 DEF StartCleanup, RecordShapes, Records, LockShapes, LockUse, LinesOnce,
      TempsOwned, LinesAccounted, Unregistering, Main, Key
  <2> QED
    BY <2>1, <2>2, <2>3, <2>4, <2>5, <2>6, <2>7
<1>19. ASSUME NEW p \in Proc, FinishRegistry(p) PROVE RegistryInv'
  <2>0. /\ jpc[p] = "remove" /\ jReg[p] \in Proc /\ jKept[p] \subseteq Artifact
        /\ registry' = [registry EXCEPT ![jReg[p]] = jKept[p]] /\ stuck' = stuck /\ holder' = holder
        /\ listed' = IF jKept[p] = {} THEN listed \ {jReg[p]} ELSE listed \cup {jReg[p]}
        /\ lost' = lost \cup ((registry[jReg[p]] \ jKept[p]) \cap temps)
        /\ handle' = IF jKept[p] = {} /\ handle[jReg[p]] = "open"
                     THEN [handle EXCEPT ![jReg[p]] = "orphan"] ELSE handle
    BY <1>19 DEF FinishRegistry, PassShapes, RecordShapes
  <2>1. LockShapes'
    BY <2>0 DEF RecordShapes, LockShapes, Main, Key
  <2>2. FileThere'
    BY <2>0 DEF RecordShapes, LockShapes, FileThere
  <2>3. HistShapes' /\ PassShapes'
    BY <1>19 DEF FinishRegistry, HistShapes, DataShapes, Object, LockShapes, RecordShapes,
      PassShapes
  <2>4. LockUse'
    BY <1>19 DEF FinishRegistry, RecordShapes, LockShapes, LockUse, Unregistering
  <2>5. LinesOnce'
    BY <1>19 DEF FinishRegistry, RecordShapes, Records, LockShapes, LockUse, LinesOnce,
      Unregistering
  <2>6. TempsOwned'
    BY <1>19 DEF FinishRegistry, LockShapes, TempsOwned, Holding, KeyStates, Main, Key
  <2>7. LinesAccounted'
    BY <1>19 DEF FinishRegistry, RecordShapes, Records, LockShapes, LockUse, LinesOnce,
      TempsOwned, LinesAccounted, Unregistering, Main, Key
  <2> QED
    BY <2>1, <2>2, <2>3, <2>4, <2>5, <2>6, <2>7
<1>20. ASSUME NEW p \in Proc, EndCleanup(p) PROVE RegistryInv'
  <2>0. /\ jpc[p] # "off" /\ jpc' = [jpc EXCEPT ![p] = "off"] /\ passes' = [passes EXCEPT ![p] = @ + 1]
        /\ jReg' = [jReg EXCEPT ![p] = None] /\ passes[p] + 1 \in 0..2
    BY <1>20 DEF EndCleanup, PassShapes
  <2>1. LockShapes' /\ FileThere'
    BY <1>20 DEF EndCleanup, RecordShapes, LockShapes, Main, Key, Records, FileThere, PassShapes
  <2>2. PassShapes'
    BY <2>0 DEF RecordShapes, PassShapes
  <2>3. HistShapes'
    BY <1>20 DEF EndCleanup, HistShapes, DataShapes, Object, LockShapes
  <2>4. LockUse'
    BY <1>20 DEF EndCleanup, RecordShapes, LockShapes, LockUse, Unregistering
  <2>5. LinesOnce'
    BY <1>20 DEF EndCleanup, RecordShapes, Records, LockShapes, LockUse, LinesOnce,
      Unregistering
  <2>6. TempsOwned'
    BY <1>20 DEF EndCleanup, LockShapes, TempsOwned, Holding, KeyStates, Main, Key
  <2>7. LinesAccounted'
    BY <1>20 DEF EndCleanup, RecordShapes, Records, LockShapes, LockUse, LinesOnce, TempsOwned,
      LinesAccounted, Unregistering, Main, Key
  <2> QED
    BY <2>1, <2>2, <2>3, <2>4, <2>5, <2>6, <2>7
<1>21. ASSUME NEW p \in Proc, NEW q \in Proc, ReadRegistry(p, q) PROVE RegistryInv'
  <2>1. LockShapes' /\ FileThere'
    BY <1>21 DEF ReadRegistry, RecordShapes, LockShapes, Main, Key, Records, FileThere,
      PassShapes
  <2>2. HistShapes' /\ PassShapes'
    BY <1>21 DEF ReadRegistry, HistShapes, DataShapes, Object, LockShapes, RecordShapes,
      PassShapes
  <2>3. LockUse' /\ LinesOnce'
    BY <1>21 DEF ReadRegistry, RecordShapes, LockShapes, LockUse, Unregistering, Records,
      LinesOnce
  <2>4. TempsOwned'
    BY <1>21 DEF ReadRegistry, LockShapes, TempsOwned, Holding, KeyStates, Main, Key
  <2>5. LinesAccounted'
    BY <1>21 DEF ReadRegistry, RecordShapes, Records, LockShapes, LockUse, LinesOnce,
      TempsOwned, LinesAccounted, Unregistering, Main, Key
  <2> QED
    BY <2>1, <2>2, <2>3, <2>4, <2>5
<1>22. ASSUME NEW p \in Proc, NEW a \in Artifact, RemoveRecorded(p, a) PROVE RegistryInv'
  <2>1. LockShapes' /\ FileThere'
    BY <1>22 DEF RemoveRecorded, RecordShapes, LockShapes, Main, Key, SecureRemove, Wipe,
      CanStick, Records, FileThere, PassShapes
  <2>2. HistShapes' /\ PassShapes'
    BY <1>22 DEF RemoveRecorded, HistShapes, DataShapes, Object, LockShapes, SecureRemove, Wipe,
      CanStick, Main, Key, RecordShapes, PassShapes
  <2>3. LockUse' /\ LinesOnce'
    BY <1>22 DEF RemoveRecorded, RecordShapes, LockShapes, LockUse, Unregistering, SecureRemove,
      Wipe, CanStick, Main, Key, Records, LinesOnce
  <2>4. TempsOwned'
    BY <1>22 DEF RemoveRecorded, LockShapes, TempsOwned, Holding, KeyStates, Main, Key,
      SecureRemove, Wipe, CanStick
  <2>5. LinesAccounted'
    BY <1>22 DEF RemoveRecorded, RecordShapes, Records, LockShapes, LockUse, LinesOnce,
      TempsOwned, LinesAccounted, Unregistering, Main, Key, SecureRemove, Wipe, CanStick
  <2> QED
    BY <2>1, <2>2, <2>3, <2>4, <2>5
<1>23. ASSUME NEW p \in Proc, Crash(p) PROVE RegistryInv'
  <2>1. LockShapes' /\ FileThere'
    BY <1>23 DEF Crash, RecordShapes, LockShapes, Main, Key, Records, FileThere, PassShapes
  <2>2. HistShapes' /\ PassShapes'
    BY <1>23 DEF Crash, HistShapes, DataShapes, Object, LockShapes, RecordShapes, PassShapes
  <2>3. LockUse' /\ LinesOnce'
    BY <1>23 DEF Crash, RecordShapes, LockShapes, LockUse, Unregistering, Records, LinesOnce
  <2>4. TempsOwned'
    BY <1>23 DEF Crash, LockShapes, TempsOwned, Holding, KeyStates, Main, Key
  <2>5. LinesAccounted'
    BY <1>23 DEF Crash, RecordShapes, Records, LockShapes, LockUse, LinesOnce, TempsOwned,
      LinesAccounted, Unregistering, Main, Key
  <2> QED
    BY <2>1, <2>2, <2>3, <2>4, <2>5
<1>24. ASSUME NEW n \in Name, Damage(n) PROVE RegistryInv'
  <2>1. LockShapes' /\ FileThere'
    BY <1>24 DEF Damage, RecordShapes, LockShapes, Main, Key, Records, FileThere, PassShapes
  <2>2. HistShapes' /\ PassShapes'
    BY <1>24 DEF Damage, HistShapes, DataShapes, Object, LockShapes, RecordShapes, PassShapes
  <2>3. LockUse' /\ LinesOnce'
    BY <1>24 DEF Damage, RecordShapes, LockShapes, LockUse, Unregistering, Records, LinesOnce
  <2>4. TempsOwned'
    BY <1>24 DEF Damage, LockShapes, TempsOwned, Holding, KeyStates, Main, Key
  <2>5. LinesAccounted'
    BY <1>24 DEF Damage, RecordShapes, Records, LockShapes, LockUse, LinesOnce, TempsOwned,
      LinesAccounted, Unregistering, Main, Key
  <2> QED
    BY <2>1, <2>2, <2>3, <2>4, <2>5
<1>25. ASSUME UNCHANGED vars PROVE RegistryInv'
  <2>1. LockShapes' /\ FileThere'
    BY <1>25 DEF vars, RecordShapes, LockShapes, Main, Key, Records, FileThere, PassShapes
  <2>2. HistShapes' /\ PassShapes'
    BY <1>25 DEF vars, HistShapes, DataShapes, Object, LockShapes, RecordShapes, PassShapes
  <2>3. LockUse' /\ LinesOnce'
    BY <1>25 DEF vars, RecordShapes, LockShapes, LockUse, Unregistering, Records, LinesOnce
  <2>4. TempsOwned'
    BY <1>25 DEF vars, LockShapes, TempsOwned, Holding, KeyStates, Main, Key
  <2>5. LinesAccounted'
    BY <1>25 DEF vars, RecordShapes, Records, LockShapes, LockUse, LinesOnce, TempsOwned,
      LinesAccounted, Unregistering, Main, Key
  <2> QED
    BY <2>1, <2>2, <2>3, <2>4, <2>5
<1> HIDE DEF PublishInv, RegistryInv
<1> QED
  BY <1>1, <1>2, <1>3, <1>4, <1>5, <1>6, <1>7, <1>8, <1>9, <1>10, <1>11, <1>12, <1>13, <1>14, <1>15, <1>16, <1>17, <1>18, <1>19, <1>20, <1>21, <1>22, <1>23, <1>24, <1>25 DEF Next, Step, Cleanup

-----------------------------------------------------------------------------
\* Who has decided to use a name, and has not, knows what is there - or it came
\* later.
Unaware(z) ==
  /\ job[z] # None /\ pc[z] \notin Ended \cup {"moved"}
  /\ archive[job[z].dst] # None /\ archive[job[z].dst] \notin rivals[z]
Aware ==
  \A z \in Op : Unaware(z) =>
    /\ Does(z, {"create", "createPqc", "join"}) => pc[z] # "cleared"
    /\ InPlace(z) /\ pc[z] # "begun" => archive[job[z].dst] = seen[z]
    /\ Does(z, {"rekey"}) /\ ~InPlace(z) => job[z].force

SuccessorMoved == \A x \in Object : successor[x] # None => pc[successor[x]] \in Moved

ReplaceInv == Aware /\ SuccessorMoved /\ ReplacedKnowingly

\* Every step of every process is taken knowingly.
LEMMA ReplaceStep == ASSUME PublishInv, RegistryInv, ReplaceInv, [Next]_vars PROVE ReplaceInv'
<1> USE Constants DEF PublishInv, RegistryInv, ReplaceInv, Shapes, opVars, contents, places, regVars, janVars, histVars, At, Go, Artifact
<1>1. ASSUME NEW o \in Op, NEW j \in Choices[o], Begin(o, j) PROVE ReplaceInv'
  <2>0. /\ pc[o] = "idle" /\ j \in Jobs /\ j # None /\ j.src \in Name /\ j.dst \in Name /\ o \in Object
        /\ job' = [job EXCEPT ![o] = j] /\ UNCHANGED <<archive, rivals, successor>>
        /\ \A z \in Op : z # o => job'[z] = job[z] /\ pc'[z] = pc[z] /\ seen'[z] = seen[z]
        /\ job'[o] = j /\ pc'[o] \in {"refused", "begun", "inspected"}
        /\ j.kind = "rekey" => pc'[o] \in {"refused", "begun"}
        /\ pc'[o] # "refused" => ~Refuses(j)
    BY <1>1 DEF Begin, DataShapes, Jobs
  <2>00. j.kind = "rekey" /\ j.src # j.dst /\ pc'[o] # "refused" => archive[j.dst] = None \/ j.force
    BY <2>0 DEF Refuses
  <2>1. Aware'
    <3> SUFFICES ASSUME NEW z \in Op, Unaware(z)'
                 PROVE  (/\ Does(z, {"create", "createPqc", "join"}) => pc[z] # "cleared"
                         /\ InPlace(z) /\ pc[z] # "begun" => archive[job[z].dst] = seen[z]
                         /\ Does(z, {"rekey"}) /\ ~InPlace(z) => job[z].force)'
      BY DEF Aware
    <3>1. CASE z # o
      BY <2>0, <3>1 DEF Aware, Unaware, InPlace, Does
    <3>2. CASE z = o
      BY <2>0, <2>00, <3>2 DEF Unaware, InPlace, Does, Ended
    <3> QED
      BY <3>1, <3>2
  <2>2. SuccessorMoved'
    BY <1>1 DEF Begin, HistShapes, SuccessorMoved, Moved
  <2>3. ReplacedKnowingly'
    BY <1>1 DEF Begin, DataShapes, HistShapes, SuccessorMoved, ReplacedKnowingly, InPlace, Does,
      Moved
  <2> QED
    BY <2>1, <2>2, <2>3
<1>2. ASSUME NEW o \in Op, Inspect(o) PROVE ReplaceInv'
  <2>1. Aware'
    BY <1>2 DEF Inspect, JobsGiven, DataShapes, HistShapes, Aware, Unaware, InPlace, Does, Ended
  <2>2. SuccessorMoved'
    BY <1>2 DEF Inspect, HistShapes, SuccessorMoved, Moved
  <2>3. ReplacedKnowingly'
    BY <1>2 DEF Inspect, DataShapes, HistShapes, SuccessorMoved, ReplacedKnowingly, InPlace,
      Does, Moved
  <2> QED
    BY <2>1, <2>2, <2>3
<1>3. ASSUME NEW o \in Op, MakeTemp(o) PROVE ReplaceInv'
  <2>1. Aware'
    BY <1>3 DEF MakeTemp, JobsGiven, DataShapes, HistShapes, Aware, Unaware, InPlace, Does,
      Ended
  <2>2. SuccessorMoved'
    BY <1>3 DEF MakeTemp, HistShapes, SuccessorMoved, Moved
  <2>3. ReplacedKnowingly'
    BY <1>3 DEF MakeTemp, DataShapes, HistShapes, SuccessorMoved, ReplacedKnowingly, InPlace,
      Does, Moved
  <2> QED
    BY <2>1, <2>2, <2>3
<1>4. ASSUME NEW o \in Op, Abort(o) PROVE ReplaceInv'
  <2>1. Aware'
    BY <1>4 DEF Abort, JobsGiven, DataShapes, HistShapes, Aware, Unaware, InPlace, Does, Ended
  <2>2. SuccessorMoved'
    BY <1>4 DEF Abort, HistShapes, SuccessorMoved, Moved
  <2>3. ReplacedKnowingly'
    BY <1>4 DEF Abort, DataShapes, HistShapes, SuccessorMoved, ReplacedKnowingly, InPlace, Does,
      Moved
  <2> QED
    BY <2>1, <2>2, <2>3
<1>5. ASSUME NEW o \in Op, OpenRegistry(o) PROVE ReplaceInv'
  <2>1. Aware'
    BY <1>5 DEF OpenRegistry, JobsGiven, DataShapes, HistShapes, Aware, Unaware, InPlace, Does,
      Ended
  <2>2. SuccessorMoved'
    BY <1>5 DEF OpenRegistry, HistShapes, SuccessorMoved, Moved
  <2>3. ReplacedKnowingly'
    BY <1>5 DEF OpenRegistry, DataShapes, HistShapes, SuccessorMoved, ReplacedKnowingly,
      InPlace, Does, Moved
  <2> QED
    BY <2>1, <2>2, <2>3
<1>6. ASSUME NEW o \in Op, Append(o) PROVE ReplaceInv'
  <2>1. Aware'
    BY <1>6 DEF Append, JobsGiven, DataShapes, HistShapes, Aware, Unaware, InPlace, Does, Ended
  <2>2. SuccessorMoved'
    BY <1>6 DEF Append, HistShapes, SuccessorMoved, Moved
  <2>3. ReplacedKnowingly'
    BY <1>6 DEF Append, DataShapes, HistShapes, SuccessorMoved, ReplacedKnowingly, InPlace,
      Does, Moved
  <2> QED
    BY <2>1, <2>2, <2>3
<1>7. ASSUME NEW o \in Op, StartUnregister(o) PROVE ReplaceInv'
  <2>1. Aware'
    BY <1>7 DEF StartUnregister, JobsGiven, DataShapes, HistShapes, Aware, Unaware, InPlace,
      Does, Ended, AfterUnregister, Unregistering
  <2>2. SuccessorMoved'
    BY <1>7 DEF StartUnregister, HistShapes, SuccessorMoved, Moved, AfterUnregister,
      Unregistering
  <2>3. ReplacedKnowingly'
    BY <1>7 DEF StartUnregister, DataShapes, HistShapes, SuccessorMoved, ReplacedKnowingly,
      InPlace, Does, Moved, AfterUnregister, Unregistering
  <2> QED
    BY <2>1, <2>2, <2>3
<1>8. ASSUME NEW o \in Op, EndUnregister(o) PROVE ReplaceInv'
  <2>1. Aware'
    BY <1>8 DEF EndUnregister, JobsGiven, DataShapes, HistShapes, Aware, Unaware, InPlace, Does,
      Ended, AfterUnregister, Unregistering
  <2>2. SuccessorMoved'
    BY <1>8 DEF EndUnregister, HistShapes, SuccessorMoved, Moved, AfterUnregister, Unregistering
  <2>3. ReplacedKnowingly'
    BY <1>8 DEF EndUnregister, DataShapes, HistShapes, SuccessorMoved, ReplacedKnowingly,
      InPlace, Does, Moved, AfterUnregister, Unregistering
  <2> QED
    BY <2>1, <2>2, <2>3
<1>9. ASSUME NEW o \in Op, Copy(o) PROVE ReplaceInv'
  <2>1. Aware'
    BY SMTT(30), <1>9 DEF Copy, JobsGiven, DataShapes, HistShapes, Aware, Unaware, InPlace,
      Does, Ended
  <2>2. SuccessorMoved'
    BY <1>9 DEF Copy, HistShapes, SuccessorMoved, Moved
  <2>3. ReplacedKnowingly'
    BY <1>9 DEF Copy, DataShapes, HistShapes, SuccessorMoved, ReplacedKnowingly, InPlace, Does,
      Moved
  <2> QED
    BY <2>1, <2>2, <2>3
<1>10. ASSUME NEW o \in Op, Complete(o) PROVE ReplaceInv'
  <2>1. Aware'
    BY SMTT(30), <1>10 DEF Complete, JobsGiven, DataShapes, HistShapes, Aware, Unaware, InPlace,
      Does, Ended
  <2>2. SuccessorMoved'
    BY <1>10 DEF Complete, HistShapes, SuccessorMoved, Moved
  <2>3. ReplacedKnowingly'
    BY <1>10 DEF Complete, DataShapes, HistShapes, SuccessorMoved, ReplacedKnowingly, InPlace,
      Does, Moved
  <2> QED
    BY <2>1, <2>2, <2>3
<1>11. ASSUME NEW o \in Op, Fail(o) PROVE ReplaceInv'
  <2>1. Aware'
    BY <1>11 DEF Fail, JobsGiven, DataShapes, HistShapes, Aware, Unaware, InPlace, Does, Ended
  <2>2. SuccessorMoved'
    BY <1>11 DEF Fail, HistShapes, SuccessorMoved, Moved
  <2>3. ReplacedKnowingly'
    BY <1>11 DEF Fail, DataShapes, HistShapes, SuccessorMoved, ReplacedKnowingly, InPlace, Does,
      Moved
  <2> QED
    BY <2>1, <2>2, <2>3
<1>12. ASSUME NEW o \in Op, MakeKeyTemp(o) PROVE ReplaceInv'
  <2>1. Aware'
    BY <1>12 DEF MakeKeyTemp, JobsGiven, DataShapes, HistShapes, Aware, Unaware, InPlace, Does,
      Ended
  <2>2. SuccessorMoved'
    BY <1>12 DEF MakeKeyTemp, HistShapes, SuccessorMoved, Moved
  <2>3. ReplacedKnowingly'
    BY <1>12 DEF MakeKeyTemp, DataShapes, HistShapes, SuccessorMoved, ReplacedKnowingly,
      InPlace, Does, Moved
  <2> QED
    BY <2>1, <2>2, <2>3
<1>13. ASSUME NEW o \in Op, LinkKeyfile(o) PROVE ReplaceInv'
  <2>1. Aware'
    BY <1>13 DEF LinkKeyfile, JobsGiven, DataShapes, HistShapes, Aware, Unaware, InPlace, Does,
      Ended
  <2>2. SuccessorMoved'
    BY <1>13 DEF LinkKeyfile, HistShapes, SuccessorMoved, Moved
  <2>3. ReplacedKnowingly'
    BY <1>13 DEF LinkKeyfile, DataShapes, HistShapes, SuccessorMoved, ReplacedKnowingly,
      InPlace, Does, Moved
  <2> QED
    BY <2>1, <2>2, <2>3
<1>14. ASSUME NEW o \in Op, UnlinkKeyTemp(o) PROVE ReplaceInv'
  <2>1. Aware'
    BY <1>14 DEF UnlinkKeyTemp, JobsGiven, DataShapes, HistShapes, Aware, Unaware, InPlace,
      Does, Ended
  <2>2. SuccessorMoved'
    BY <1>14 DEF UnlinkKeyTemp, HistShapes, SuccessorMoved, Moved
  <2>3. ReplacedKnowingly'
    BY <1>14 DEF UnlinkKeyTemp, DataShapes, HistShapes, SuccessorMoved, ReplacedKnowingly,
      InPlace, Does, Moved
  <2> QED
    BY <2>1, <2>2, <2>3
<1>15. ASSUME NEW o \in Op, Discard(o) PROVE ReplaceInv'
  <2>1. Aware'
    BY <1>15 DEF Discard, JobsGiven, DataShapes, HistShapes, Aware, Unaware, InPlace, Does,
      Ended
  <2>2. SuccessorMoved'
    BY <1>15 DEF Discard, HistShapes, SuccessorMoved, Moved
  <2>3. ReplacedKnowingly'
    BY <1>15 DEF Discard, DataShapes, HistShapes, SuccessorMoved, ReplacedKnowingly, InPlace,
      Does, Moved
  <2> QED
    BY <2>1, <2>2, <2>3
<1>16. ASSUME NEW o \in Op, Recheck(o) PROVE ReplaceInv'
  <2>1. Aware'
    BY <1>16 DEF Recheck, JobsGiven, DataShapes, HistShapes, Aware, Unaware, InPlace, Does,
      Ended
  <2>2. SuccessorMoved'
    BY <1>16 DEF Recheck, HistShapes, SuccessorMoved, Moved
  <2>3. ReplacedKnowingly'
    BY <1>16 DEF Recheck, DataShapes, HistShapes, SuccessorMoved, ReplacedKnowingly, InPlace,
      Does, Moved
  <2> QED
    BY <2>1, <2>2, <2>3
<1>17. ASSUME NEW o \in Op, Publish(o) PROVE ReplaceInv'
  <2> DEFINE n == job[o].dst
  <2>0. /\ pc[o] = IF Does(o, {"rekey", "split"}) THEN "complete" ELSE "cleared"
        /\ job[o] \in Jobs /\ job[o] # None /\ n \in Name /\ job[o].kind \in Kinds /\ o \in Object
        /\ UNCHANGED <<job, seen>>
        /\ \A z \in Op : z # o => pc'[z] = pc[z]
        /\ pc'[o] \in {"moved", "failing"}
        /\ \/ Does(o, {"split"}) /\ UNCHANGED <<archive, rivals, successor>>
           \/ /\ ~Does(o, {"split"}) /\ pc'[o] = "moved"
              /\ archive' = [archive EXCEPT ![n] = o]
              /\ successor' = IF archive[n] = None THEN successor ELSE [successor EXCEPT ![archive[n]] = o]
              /\ rivals' = [z \in Op |-> IF z \in Waiting(n) \ {o} THEN rivals[z] \cup {o} ELSE rivals[z]]
    BY <1>17 DEF Publish, JobsGiven, Jobs
  <2>00. \A z \in Op : pc[z] # "idle" => job[z] \in Jobs /\ job[z].dst \in Name /\ job[z].kind \in Kinds
    BY DEF JobsGiven, Jobs
  <2>1. Aware'
    <3> SUFFICES ASSUME NEW z \in Op, Unaware(z)'
                 PROVE  (/\ Does(z, {"create", "createPqc", "join"}) => pc[z] # "cleared"
                         /\ InPlace(z) /\ pc[z] # "begun" => archive[job[z].dst] = seen[z]
                         /\ Does(z, {"rekey"}) /\ ~InPlace(z) => job[z].force)'
      BY DEF Aware
    <3>1. CASE Does(o, {"split"})
      BY <2>0, <3>1 DEF Aware, Unaware, InPlace, Does, Ended
    <3>2. CASE ~Does(o, {"split"})
      <4>1. z # o /\ pc[z] \notin Ended \cup {"moved"} /\ job[z] # None
        BY <2>0, <3>2 DEF Unaware, Does
      <4>2. CASE job[z].dst # n
        <5>1. z \notin Waiting(n)
          BY <4>2 DEF Waiting
        <5>2. /\ rivals'[z] = rivals[z] /\ archive'[job[z].dst] = archive[job[z].dst] /\ pc'[z] = pc[z]
              /\ job' = job /\ seen' = seen
          BY <2>0, <2>00, <3>2, <4>1, <4>2, <5>1 DEF Ended
        <5> QED
          BY <4>1, <5>2 DEF Aware, Unaware, InPlace, Does
      <4>3. CASE job[z].dst = n
        <5>1. z \notin Waiting(n)
          <6>1. o \notin rivals'[z]
            BY <2>0, <3>2, <4>3 DEF Unaware
          <6> QED
            BY <2>0, <3>2, <4>1, <6>1
        <5>2. pc'[z] = pc[z] /\ job' = job
          BY <2>0, <4>1
        <5> QED
          BY <4>1, <4>3, <5>1, <5>2 DEF Waiting, InPlace, Does
      <4> QED
        BY <4>2, <4>3
    <3> QED
      BY <3>1, <3>2
  <2>2. SuccessorMoved'
    BY <1>17 DEF Publish, HistShapes, SuccessorMoved, Moved
  <2>3. ReplacedKnowingly'
    <3>1. CASE Does(o, {"split"})
      BY <2>0, <3>1 DEF ReplacedKnowingly, InPlace, Does
    <3>2. CASE ~Does(o, {"split"})
      <4> SUFFICES ASSUME NEW x \in Object, successor'[x] # None
                   PROVE  \/ InPlace(successor[x])' /\ seen'[successor'[x]] = x
                          \/ Does(successor[x], {"rekey"})' /\ job'[successor'[x]].force
                          \/ x \in rivals'[successor'[x]]
        BY DEF ReplacedKnowingly
      <4>0. job' = job /\ seen' = seen /\ \A z \in Op : rivals[z] \subseteq rivals'[z]
        BY <2>0, <3>2 DEF HistShapes
      <4>1. CASE archive[n] # None /\ x = archive[n]
        <5>1. successor'[x] = o
          BY <2>0, <3>2, <4>1 DEF HistShapes
        <5>2. x \notin rivals[o] => Unaware(o)
          BY <2>0, <3>2, <4>1 DEF Unaware, Does, Ended
        <5>3. Unaware(o) => Does(o, {"rekey"})
          BY <2>0, <3>2 DEF Aware, Does, Kinds
        <5>4. Unaware(o) => (InPlace(o) /\ seen[o] = x) \/ job[o].force
          BY <2>0, <3>2, <4>1, <5>3 DEF Aware, Does
        <5> QED
          BY <4>0, <5>1, <5>2, <5>3, <5>4 DEF InPlace, Does
      <4>2. CASE ~(archive[n] # None /\ x = archive[n])
        <5>1. successor'[x] = successor[x] /\ successor[x] \in Op
          BY <2>0, <3>2, <4>2 DEF HistShapes
        <5> QED
          BY <4>0, <5>1 DEF ReplacedKnowingly, InPlace, Does
      <4> QED
        BY <4>1, <4>2
    <3> QED
      BY <3>1, <3>2
  <2> QED
    BY <2>1, <2>2, <2>3
<1>18. ASSUME NEW p \in Proc, StartCleanup(p) PROVE ReplaceInv'
  <2>1. Aware'
    BY <1>18 DEF StartCleanup, JobsGiven, DataShapes, HistShapes, Aware, Unaware, InPlace, Does,
      Ended
  <2>2. SuccessorMoved'
    BY <1>18 DEF StartCleanup, HistShapes, SuccessorMoved, Moved
  <2>3. ReplacedKnowingly'
    BY <1>18 DEF StartCleanup, DataShapes, HistShapes, SuccessorMoved, ReplacedKnowingly,
      InPlace, Does, Moved
  <2> QED
    BY <2>1, <2>2, <2>3
<1>19. ASSUME NEW p \in Proc, FinishRegistry(p) PROVE ReplaceInv'
  <2>1. Aware'
    BY <1>19 DEF FinishRegistry, JobsGiven, DataShapes, HistShapes, Aware, Unaware, InPlace,
      Does, Ended
  <2>2. SuccessorMoved'
    BY <1>19 DEF FinishRegistry, HistShapes, SuccessorMoved, Moved
  <2>3. ReplacedKnowingly'
    BY <1>19 DEF FinishRegistry, DataShapes, HistShapes, SuccessorMoved, ReplacedKnowingly,
      InPlace, Does, Moved
  <2> QED
    BY <2>1, <2>2, <2>3
<1>20. ASSUME NEW p \in Proc, EndCleanup(p) PROVE ReplaceInv'
  <2>1. Aware'
    BY <1>20 DEF EndCleanup, JobsGiven, DataShapes, HistShapes, Aware, Unaware, InPlace, Does,
      Ended
  <2>2. SuccessorMoved'
    BY <1>20 DEF EndCleanup, HistShapes, SuccessorMoved, Moved
  <2>3. ReplacedKnowingly'
    BY <1>20 DEF EndCleanup, DataShapes, HistShapes, SuccessorMoved, ReplacedKnowingly, InPlace,
      Does, Moved
  <2> QED
    BY <2>1, <2>2, <2>3
<1>21. ASSUME NEW p \in Proc, NEW q \in Proc, ReadRegistry(p, q) PROVE ReplaceInv'
  <2>1. Aware'
    BY <1>21 DEF ReadRegistry, JobsGiven, DataShapes, HistShapes, Aware, Unaware, InPlace, Does,
      Ended
  <2>2. SuccessorMoved'
    BY <1>21 DEF ReadRegistry, HistShapes, SuccessorMoved, Moved
  <2>3. ReplacedKnowingly'
    BY <1>21 DEF ReadRegistry, DataShapes, HistShapes, SuccessorMoved, ReplacedKnowingly,
      InPlace, Does, Moved
  <2> QED
    BY <2>1, <2>2, <2>3
<1>22. ASSUME NEW p \in Proc, NEW a \in Artifact, RemoveRecorded(p, a) PROVE ReplaceInv'
  <2>1. Aware'
    BY <1>22 DEF RemoveRecorded, JobsGiven, DataShapes, HistShapes, Aware, Unaware, InPlace,
      Does, Ended
  <2>2. SuccessorMoved'
    BY <1>22 DEF RemoveRecorded, HistShapes, SuccessorMoved, Moved
  <2>3. ReplacedKnowingly'
    BY <1>22 DEF RemoveRecorded, DataShapes, HistShapes, SuccessorMoved, ReplacedKnowingly,
      InPlace, Does, Moved
  <2> QED
    BY <2>1, <2>2, <2>3
<1>23. ASSUME NEW p \in Proc, Crash(p) PROVE ReplaceInv'
  <2>1. Aware'
    BY <1>23 DEF Crash, JobsGiven, DataShapes, HistShapes, Aware, Unaware, InPlace, Does, Ended
  <2>2. SuccessorMoved'
    BY <1>23 DEF Crash, HistShapes, SuccessorMoved, Moved
  <2>3. ReplacedKnowingly'
    BY <1>23 DEF Crash, DataShapes, HistShapes, SuccessorMoved, ReplacedKnowingly, InPlace,
      Does, Moved
  <2> QED
    BY <2>1, <2>2, <2>3
<1>24. ASSUME NEW n \in Name, Damage(n) PROVE ReplaceInv'
  <2>1. Aware'
    BY <1>24 DEF Damage, JobsGiven, DataShapes, HistShapes, Aware, Unaware, InPlace, Does, Ended
  <2>2. SuccessorMoved'
    BY <1>24 DEF Damage, HistShapes, SuccessorMoved, Moved
  <2>3. ReplacedKnowingly'
    BY <1>24 DEF Damage, DataShapes, HistShapes, SuccessorMoved, ReplacedKnowingly, InPlace,
      Does, Moved
  <2> QED
    BY <2>1, <2>2, <2>3
<1>25. ASSUME UNCHANGED vars PROVE ReplaceInv'
  <2>1. Aware'
    BY <1>25 DEF vars, JobsGiven, DataShapes, HistShapes, Aware, Unaware, InPlace, Does, Ended
  <2>2. SuccessorMoved'
    BY <1>25 DEF vars, HistShapes, SuccessorMoved, Moved
  <2>3. ReplacedKnowingly'
    BY <1>25 DEF vars, DataShapes, HistShapes, SuccessorMoved, ReplacedKnowingly, InPlace, Does,
      Moved
  <2> QED
    BY <2>1, <2>2, <2>3
<1> HIDE DEF PublishInv, RegistryInv, ReplaceInv
<1> QED
  BY <1>1, <1>2, <1>3, <1>4, <1>5, <1>6, <1>7, <1>8, <1>9, <1>10, <1>11, <1>12, <1>13, <1>14, <1>15, <1>16, <1>17, <1>18, <1>19, <1>20, <1>21, <1>22, <1>23, <1>24, <1>25 DEF Next, Step, Cleanup

-----------------------------------------------------------------------------
\* The first state.
LEMMA PublishInit == Init => PublishInv
<1> SUFFICES ASSUME Init PROVE PublishInv
  OBVIOUS
<1> USE Constants DEF Init
<1>1. Shapes /\ RecordShapes
  BY DEF Shapes, RecordShapes, States, Ended, Object
<1>2. DataShapes
  BY DEF DataShapes, Contents, Fill
<1>3. Records /\ JobsGiven /\ Sources /\ HasBody /\ Snapshots /\ Started
  BY DEF Records, JobsGiven, Sources, Begun, HasBody, KeyStates, Moved, Snapshots, Started
<1>4. Places /\ Described
  BY DEF Places, Settled, Described
<1>5. Whole /\ LiveTempKept /\ KeysWanted /\ KeysLinked /\ KeysThere
  BY DEF Whole, LiveTempKept, KeysWanted, KeysLinked, KeysThere, Holding, KeyStates, Moved
<1> QED
  BY <1>1, <1>2, <1>3, <1>4, <1>5 DEF PublishInv

\* The registries of the first state.
LEMMA RegistryInit == Init => RegistryInv
<1> SUFFICES ASSUME Init PROVE RegistryInv
  OBVIOUS
<1> USE Constants, RegistryConstants DEF Init
<1>1. LockShapes /\ HistShapes /\ PassShapes
  BY DEF LockShapes, HistShapes, PassShapes
<1>2. LockUse /\ LinesOnce /\ FileThere
  BY DEF LockUse, LinesOnce, FileThere
<1>3. TempsOwned /\ LinesAccounted
  BY DEF TempsOwned, LinesAccounted
<1> QED
  BY <1>1, <1>2, <1>3 DEF RegistryInv

\* Nothing was replaced yet.
LEMMA ReplaceInit == Init => ReplaceInv
BY Constants DEF Init, ReplaceInv, Aware, Unaware, SuccessorMoved, ReplacedKnowingly

\* The three layers together hold in every state.
LEMMA PublishAlways == Spec => [](PublishInv /\ RegistryInv /\ ReplaceInv)
BY PublishInit, RegistryInit, ReplaceInit, PublishStep, RegistryStep, ReplaceStep, PTL DEF Spec

\* Every state is well typed, for any processes, operations and faults.
THEOREM TypesKept == Spec => []TypeOK
<1>1. PublishInv /\ RegistryInv => TypeOK
  BY DEF PublishInv, RegistryInv, Shapes, RecordShapes, DataShapes, LockShapes, HistShapes, PassShapes,
         FileThere, TypeOK
<1> QED
  BY <1>1, PublishAlways, PTL

\* Whatever crashes, fails or races: a file under an archive's name is a whole
\* archive that describes its own payload, and a volume set holds the bytes of
\* the archive its manifest is bound to (multi_file_encoder, rekey, multipart).
THEOREM PublishedAlwaysOpens == Spec => []PublishedOpens
<1>1. PublishInv => PublishedOpens
  BY Constants DEF PublishInv, Shapes, Places, Settled, Whole, Described, PublishedOpens, Sane, Object
<1> QED
  BY <1>1, PublishAlways, PTL

\* An archive that needs an external keyfile is in place only with it beside it.
THEOREM KeyfileFirst == Spec => []KeyfileBesideArchive
<1>1. PublishInv /\ RegistryInv => KeyfileBesideArchive
  <2> SUFFICES ASSUME PublishInv, RegistryInv, NEW o \in Op, Does(o, {"createPqc"}), archive[job[o].dst] = o
               PROVE  keyfile[job[o].dst] = o /\ kdata[o] = "full"
    BY DEF KeyfileBesideArchive
  <2>1. job[o].dst \in Name
    BY Constants DEF RegistryInv, HistShapes, Does, Jobs
  <2>2. pc[o] \in Moved
    BY <2>1 DEF PublishInv, Places, Settled
  <2> QED
    BY <2>2 DEF PublishInv, KeysThere
<1> QED
  BY <1>1, PublishAlways, PTL

\* No clean-up of a starting process takes what another one is at work on.
THEOREM LiveTempsKept == Spec => []LiveTempKept
<1>1. PublishInv => LiveTempKept
  BY DEF PublishInv
<1> QED
  BY <1>1, PublishAlways, PTL

\* Every temporary artifact that nobody works on is in a registry, or there is an
\* account of why it is not.
THEOREM LeftoversAlwaysAccounted == Spec => []LeftoversAccounted
<1>1. PublishInv /\ RegistryInv => LeftoversAccounted
  <2> SUFFICES ASSUME PublishInv, RegistryInv, NEW x \in temps
               PROVE  LET o == x[1]  p == Runs[o] IN
                      \/ up[p] = "up" /\ pc[o] \notin Ended
                      \/ x \in registry[p]
                      \/ x \in lost \cup stuck
                      \/ pc[o] = IF x = Key(o) THEN "keyUnlisted" ELSE "unlisted"
    BY DEF LeftoversAccounted
  <2>1. x[1] \in Op /\ (x = Main(x[1]) \/ x = Key(x[1])) /\ Runs[x[1]] \in Proc
    BY Constants DEF PublishInv, Shapes, Artifact, Main, Key
  <2>2. x \in memory[Runs[x[1]]] => up[Runs[x[1]]] = "up"
    BY <2>1 DEF RegistryInv, LinesOnce
  <2>3. x \notin stuck => pc[x[1]] \notin Ended
    BY <2>1 DEF RegistryInv, TempsOwned, Holding, KeyStates, Ended
  <2> QED
    BY <2>2, <2>3 DEF RegistryInv, LinesAccounted
<1> QED
  BY <1>1, PublishAlways, PTL

\* An archive gives way only to an operation that read it in place, was told to
\* force, or last looked at the name before the archive was there.
THEOREM ReplacesKnowingly == Spec => []ReplacedKnowingly
<1>1. ReplaceInv => ReplacedKnowingly
  BY DEF ReplaceInv
<1> QED
  BY <1>1, PublishAlways, PTL
=============================================================================
