--------------------------- MODULE ArchivePublish ---------------------------
(***************************************************************************)
(* How archives, keyfiles and volume sets reach their final names: create, *)
(* rekey, split and join build a temporary artifact beside the output,     *)
(* record it in the registry of their process (core/temp_janitor.py) and   *)
(* rename or link it into place.  Any process may die between two steps;   *)
(* every process that starts cleans up what the registries of dead         *)
(* processes list.                                                         *)
(*                                                                         *)
(* An object is what a file holds: the archive, keyfile or volume set an   *)
(* operation built, named by the operation, or an archive stored before,   *)
(* named by its place.  A process runs one operation at a time: the        *)
(* desktop core behind its crypto lock, a command line by itself.          *)
(***************************************************************************)
EXTENDS Naturals, FiniteSets

CONSTANTS
  Proc,        \* processes; each starts once
  Op,          \* operations
  Runs,        \* the process of each operation
  Choices,     \* what each operation may be asked to do
  Passes,      \* clean-ups of each process: the desktop core makes a second one
  Name,        \* output names
  Stored,      \* names that hold an archive from the start
  StoredSets,  \* of these, the ones a volume set was made of
  MaxCrashes,  \* bound on crashes
  MaxStuck,    \* bound on artifacts that cannot be unlinked
  None

Kinds == {"create", "createPqc", "rekey", "split", "join"}
Jobs == [kind : Kinds, src : Name, dst : Name, force : BOOLEAN]

ASSUME PublishAssumption ==
  /\ Runs \in [Op -> Proc]
  /\ Choices \in [Op -> SUBSET Jobs] /\ \A o \in Op : None \notin Choices[o]
  /\ Passes \in [Proc -> {1, 2}]
  /\ Stored \subseteq Name /\ StoredSets \subseteq Stored
  /\ Op \cap Name = {} /\ None \notin Op \cup Name \cup Proc \cup {"janitor"} /\ "janitor" \notin Op
  /\ MaxCrashes \in Nat /\ MaxStuck \in Nat

Object == Op \cup Stored
Artifact == Op \X {"main", "key"}

VARIABLES
  job,       \* what each operation was asked to do
  pc,        \* how far it is
  snapshot,  \* the object split found at its source
  seen,      \* the object it verified, or decided from
  body,      \* the object it copied the bytes of
  data,      \* state of each archive or set, under any name it has
  holds,     \* what it holds when it is full
  kdata,     \* contents of each keyfile, under any name it has
  archive,   \* <name>.avk
  keyfile,   \* <name>.avkkey
  volumes,   \* <name>.avk.parts
  temps,     \* temporary artifacts that exist
  registry,  \* records of temp_artifacts/<pid>.jsonl
  listed,    \* processes whose registry file exists
  holder,    \* who holds _REGISTRY_LOCK in each process
  handle,    \* the file a registry call has open: none, the file, or an unlinked one
  memory,    \* the lines unregister is about to write back
  up,        \* whether each process runs
  jpc, jTodo, jReg, jRecs, jKept, \* the clean-up of each process
  passes,    \* clean-ups it has finished
  damaged,   \* volume sets with a changed volume
  crashes,
  lost,      \* history: artifacts whose record was destroyed
  stuck,     \* history: artifacts that could not be unlinked
  rivals,    \* history: publications under a name after the operation last looked
  successor  \* history: the operation that replaced an object

opVars    == <<job, pc, snapshot, seen, body>>
contents  == <<data, holds, kdata>>
places    == <<archive, keyfile, volumes>>
regVars   == <<registry, listed, holder, handle, memory>>
janVars   == <<jpc, jTodo, jReg, jRecs, jKept, passes>>
histVars  == <<lost, stuck, rivals, successor>>
vars == <<opVars, contents, places, temps, regVars, janVars, up, damaged, crashes, histVars>>

-----------------------------------------------------------------------------
Ended == {"idle", "refused", "failed", "done"}
KeyStates == {"keyUnlisted", "keyWriting", "keyLinked", "keyUnlinked", "keyFailing", "keyDiscarded"}
Holding == {"unlisted", "writing", "copied", "complete", "keyed", "cleared"} \cup KeyStates
States == Ended \cup Holding \cup {"begun", "inspected", "moved", "failing", "discarded"}

\* What an archive holds: the payload, and the archive whose payload its
\* keychain describes.
Contents == [payload : Object, meta : Object]
Fill == {"none", "partial", "full", "wiped"}

TypeOK ==
  /\ \A o \in Op : job[o] \in Choices[o] \cup {None}
  /\ pc \in [Op -> States]
  /\ snapshot \in [Op -> Object \cup {None}]
  /\ seen \in [Object -> Object \cup {None}]
  /\ body \in [Object -> Object \cup {None}]
  /\ data \in [Object -> Fill] /\ kdata \in [Op -> Fill]
  /\ holds \in [Object -> Contents]
  /\ archive \in [Name -> Object \cup {None}]
  /\ keyfile \in [Name -> Op \cup {None}]
  /\ volumes \in [Name -> Object \cup {None}]
  /\ temps \subseteq Artifact
  /\ registry \in [Proc -> SUBSET Artifact]
  /\ \A p \in Proc : p \notin listed => registry[p] = {}
  /\ holder \in [Proc -> Op \cup {"janitor", None}]
  /\ handle \in [Proc -> {"none", "open", "orphan"}]
  /\ \A p \in Proc : memory[p] \subseteq Artifact
  /\ up \in [Proc -> {"new", "up", "dead"}]
  /\ jpc \in [Proc -> {"off", "choose", "remove"}]
  /\ \A p \in Proc : jTodo[p] \subseteq Proc /\ jRecs[p] \subseteq Artifact /\ jKept[p] \subseteq Artifact
  /\ jReg \in [Proc -> Proc \cup {None}]
  /\ passes \in [Proc -> 0..2]
  /\ damaged \subseteq Object
  /\ crashes \in 0..MaxCrashes
  /\ lost \subseteq Artifact /\ stuck \subseteq Artifact
  /\ rivals \in [Op -> SUBSET Op]
  /\ successor \in [Object -> Op \cup {None}]

Init ==
  /\ job = [o \in Op |-> None] /\ pc = [o \in Op |-> "idle"]
  /\ snapshot = [o \in Op |-> None]
  /\ seen = [x \in Object |-> IF x \in StoredSets THEN x ELSE None]
  /\ body = [x \in Object |-> IF x \in StoredSets THEN x ELSE None]
  /\ data = [x \in Object |-> IF x \in Stored THEN "full" ELSE "none"]
  /\ holds = [x \in Object |-> [payload |-> x, meta |-> x]]
  /\ kdata = [o \in Op |-> "none"]
  /\ archive = [n \in Name |-> IF n \in Stored THEN n ELSE None]
  /\ keyfile = [n \in Name |-> None]
  /\ volumes = [n \in Name |-> IF n \in StoredSets THEN n ELSE None]
  /\ temps = {}
  /\ registry = [p \in Proc |-> {}] /\ listed = {}
  /\ holder = [p \in Proc |-> None] /\ handle = [p \in Proc |-> "none"]
  /\ memory = [p \in Proc |-> {}]
  /\ up = [p \in Proc |-> "new"]
  /\ jpc = [p \in Proc |-> "off"] /\ jTodo = [p \in Proc |-> {}] /\ jReg = [p \in Proc |-> None]
  /\ jRecs = [p \in Proc |-> {}] /\ jKept = [p \in Proc |-> {}] /\ passes = [p \in Proc |-> 0]
  /\ damaged = {} /\ crashes = 0
  /\ lost = {} /\ stuck = {}
  /\ rivals = [o \in Op |-> {}] /\ successor = [x \in Object |-> None]

-----------------------------------------------------------------------------
Main(o) == <<o, "main">>
Key(o) == <<o, "key">>

At(o, s) == up[Runs[o]] = "up" /\ pc[o] = s
Go(o, s) == pc' = [pc EXCEPT ![o] = s]
Free(p) == \A o \in Op : Runs[o] = p => pc[o] \in Ended
Does(o, kinds) == job[o] # None /\ job[o].kind \in kinds
Creates(o) == Does(o, {"create", "createPqc"})
InPlace(o) == Does(o, {"rekey"}) /\ job[o].src = job[o].dst

\* The checks made before anything is built.
Refuses(j) ==
  CASE j.kind \in {"create", "createPqc"} -> archive[j.dst] # None
    [] j.kind = "rekey" -> \/ archive[j.src] = None
                           \/ archive[j.dst] # None /\ j.src # j.dst /\ ~j.force
    [] j.kind = "split" -> archive[j.src] = None
    [] j.kind = "join" -> volumes[j.src] = None \/ archive[j.dst] # None

Begin(o, j) ==
  LET p == Runs[o] IN
  /\ At(o, "idle") /\ Free(p) /\ passes[p] > 0
  /\ job' = [job EXCEPT ![o] = j]
  /\ Go(o, IF Refuses(j) THEN "refused" ELSE IF j.kind \in {"rekey", "split"} THEN "begun" ELSE "inspected")
  /\ snapshot' = [snapshot EXCEPT ![o] = IF j.kind = "split" THEN archive[j.src] ELSE @]
  /\ seen' = [seen EXCEPT ![o] = IF j.kind = "join" THEN volumes[j.src] ELSE @]
  /\ UNCHANGED <<body, contents, places, temps, regVars, janVars, up, damaged, crashes, histVars>>

\* rekey decrypts the keychain, split verifies the signed archive: both through
\* the path.  split then looks for an earlier volume set.
Inspect(o) ==
  /\ At(o, "begun")
  /\ seen' = [seen EXCEPT ![o] = archive[job[o].src]]
  /\ Go(o, IF job[o].kind = "split" /\ volumes[job[o].dst] # None THEN "failed" ELSE "inspected")
  /\ UNCHANGED <<job, snapshot, body, contents, places, temps, regVars, janVars, up, damaged,
                 crashes, histVars>>

\* mkstemp or mkdtemp in the directory of the output.
MakeTemp(o) ==
  /\ At(o, "inspected")
  /\ temps' = temps \cup {Main(o)}
  /\ data' = [data EXCEPT ![o] = "partial"]
  /\ Go(o, "unlisted")
  /\ UNCHANGED <<job, snapshot, seen, body, holds, kdata, places, regVars, janVars, up, damaged, crashes, histVars>>

\* Any exception before the temporary artifact exists.
Abort(o) ==
  /\ At(o, "begun") \/ At(o, "inspected")
  /\ Go(o, "failed")
  /\ UNCHANGED <<job, snapshot, seen, body, contents, places, temps, regVars, janVars, up, damaged,
                 crashes, histVars>>

-----------------------------------------------------------------------------
\* register_temp_artifact and unregister_temp_artifact, both under
\* _REGISTRY_LOCK of the process and on a file other processes may unlink.
Recorded(o) == IF pc[o] \in KeyStates THEN Key(o) ELSE Main(o)

OpenRegistry(o) ==
  LET p == Runs[o] IN
  /\ At(o, "unlisted") \/ At(o, "keyUnlisted")
  /\ holder[p] = None
  /\ holder' = [holder EXCEPT ![p] = o]
  /\ handle' = [handle EXCEPT ![p] = "open"]
  /\ listed' = listed \cup {p}
  /\ UNCHANGED <<opVars, contents, places, temps, registry, memory, janVars, up, damaged, crashes, histVars>>

Append(o) ==
  LET p == Runs[o] IN
  /\ At(o, "unlisted") \/ At(o, "keyUnlisted")
  /\ holder[p] = o
  /\ IF handle[p] = "open"
     THEN registry' = [registry EXCEPT ![p] = @ \cup {Recorded(o)}] /\ UNCHANGED lost
     ELSE lost' = lost \cup {Recorded(o)} /\ UNCHANGED registry
  /\ holder' = [holder EXCEPT ![p] = None]
  /\ handle' = [handle EXCEPT ![p] = "none"]
  /\ Go(o, IF pc[o] = "unlisted" THEN "writing" ELSE "keyWriting")
  /\ UNCHANGED <<job, snapshot, seen, body, contents, places, temps, listed, memory, janVars, up,
                 damaged, crashes, stuck, rivals, successor>>

Unregistering == {"moved", "discarded", "keyUnlinked", "keyDiscarded"}
AfterUnregister(o) ==
  CASE pc[o] = "moved" -> "done"
    [] pc[o] = "discarded" -> "failed"
    [] pc[o] = "keyUnlinked" -> "keyed"
    [] pc[o] = "keyDiscarded" -> "failing"

\* The registry is read and truncated; without a file there is nothing to do.
StartUnregister(o) ==
  LET p == Runs[o] IN
  /\ up[p] = "up" /\ pc[o] \in Unregistering /\ holder[p] = None
  /\ IF p \in listed
     THEN /\ memory' = [memory EXCEPT ![p] = registry[p] \ {Recorded(o)}]
          /\ registry' = [registry EXCEPT ![p] = {}]
          /\ holder' = [holder EXCEPT ![p] = o]
          /\ handle' = [handle EXCEPT ![p] = "open"]
          /\ UNCHANGED pc
     ELSE Go(o, AfterUnregister(o)) /\ UNCHANGED <<memory, registry, holder, handle>>
  /\ UNCHANGED <<job, snapshot, seen, body, contents, places, temps, listed, janVars, up, damaged,
                 crashes, histVars>>

\* The lines that stay are written back.
EndUnregister(o) ==
  LET p == Runs[o] IN
  /\ up[p] = "up" /\ pc[o] \in Unregistering /\ holder[p] = o
  /\ IF handle[p] = "open"
     THEN registry' = [registry EXCEPT ![p] = memory[p]] /\ UNCHANGED lost
     ELSE lost' = lost \cup (memory[p] \cap temps) /\ UNCHANGED registry
  /\ memory' = [memory EXCEPT ![p] = {}]
  /\ holder' = [holder EXCEPT ![p] = None]
  /\ handle' = [handle EXCEPT ![p] = "none"]
  /\ Go(o, AfterUnregister(o))
  /\ UNCHANGED <<job, snapshot, seen, body, contents, places, temps, listed, janVars, up, damaged,
                 crashes, stuck, rivals, successor>>

-----------------------------------------------------------------------------
\* The bytes: create streams its inputs, rekey copies payload.enc, split and
\* join copy the file and the volumes.  join checks every volume's digest.
Copy(o) ==
  /\ At(o, "writing")
  /\ body' = [body EXCEPT ![o] = IF Creates(o) THEN o
                                 ELSE IF job[o].kind = "join" THEN body[seen[o]]
                                 ELSE archive[job[o].src]]
  /\ Go(o, IF job[o].kind = "join" /\ seen[o] \in damaged THEN "failing" ELSE "copied")
  /\ UNCHANGED <<job, snapshot, seen, contents, places, temps, regVars, janVars, up, damaged,
                 crashes, histVars>>

\* mutant of Sound: nothing is compared with what was verified before
SoundUnchecked(o) == TRUE

\* What must hold of the copy: the payload rekey copied matches the commitment
\* it read, split finds its source as it was at the start, the signature in the
\* archive join built is the one its manifest is bound to.
Sound(o) ==
  CASE job[o].kind = "rekey" -> holds[body[o]].payload = holds[seen[o]].payload
    [] job[o].kind = "split" -> archive[job[o].src] = snapshot[o]
    [] job[o].kind = "join" -> body[o] = seen[seen[o]]
    [] OTHER -> TRUE

Built(o) ==
  CASE job[o].kind = "rekey" -> [payload |-> holds[body[o]].payload, meta |-> holds[seen[o]].payload]
    [] job[o].kind = "split" -> [payload |-> body[o], meta |-> seen[o]]
    [] job[o].kind = "join" -> holds[body[o]]
    [] OTHER -> [payload |-> o, meta |-> o]

\* Keychain or manifest, signature, verification, fsync.
Complete(o) ==
  /\ At(o, "copied")
  /\ IF Sound(o)
     THEN /\ data' = [data EXCEPT ![o] = "full"]
          /\ holds' = [holds EXCEPT ![o] = Built(o)]
          /\ Go(o, "complete")
     ELSE Go(o, "failing") /\ UNCHANGED <<data, holds>>
  /\ UNCHANGED <<job, snapshot, seen, body, kdata, places, temps, regVars, janVars, up, damaged,
                 crashes, histVars>>

\* Any other exception, a cancellation among them.
Fail(o) ==
  /\ \/ /\ At(o, "keyWriting")
        /\ Go(o, "keyFailing")
     \/ /\ \E s \in {"writing", "copied", "complete", "keyed", "cleared"} : At(o, s)
        /\ Go(o, "failing")
  /\ UNCHANGED <<job, snapshot, seen, body, contents, places, temps, regVars, janVars, up, damaged,
                 crashes, histVars>>

-----------------------------------------------------------------------------
\* write_pqc_keyfile: the file is linked into place, which never replaces one,
\* and only then loses its temporary name.
MakeKeyTemp(o) ==
  /\ At(o, "complete") /\ job[o].kind = "createPqc"
  /\ IF keyfile[job[o].dst] # None
     THEN Go(o, "failing") /\ UNCHANGED <<temps, kdata>>
     ELSE /\ temps' = temps \cup {Key(o)}
          /\ kdata' = [kdata EXCEPT ![o] = "partial"]
          /\ Go(o, "keyUnlisted")
  /\ UNCHANGED <<job, snapshot, seen, body, data, holds, places, regVars, janVars, up, damaged, crashes, histVars>>

\* mutant of LinkKeyfile: a keyfile that is already there will do
LinkKeyfileShared(o) ==
  /\ At(o, "keyWriting")
  /\ kdata' = [kdata EXCEPT ![o] = "full"]
  /\ Go(o, "keyLinked")
  /\ keyfile' = [keyfile EXCEPT ![job[o].dst] = IF @ = None THEN o ELSE @]
  /\ UNCHANGED <<job, snapshot, seen, body, data, holds, archive, volumes, temps, regVars, janVars, up,
                 damaged, crashes, histVars>>

LinkKeyfile(o) ==
  /\ At(o, "keyWriting")
  /\ kdata' = [kdata EXCEPT ![o] = "full"]
  /\ IF keyfile[job[o].dst] # None
     THEN Go(o, "keyFailing") /\ UNCHANGED keyfile
     ELSE Go(o, "keyLinked") /\ keyfile' = [keyfile EXCEPT ![job[o].dst] = o]
  /\ UNCHANGED <<job, snapshot, seen, body, data, holds, archive, volumes, temps, regVars, janVars, up,
                 damaged, crashes, histVars>>

UnlinkKeyTemp(o) ==
  /\ At(o, "keyLinked")
  /\ \/ temps' = temps \ {Key(o)} /\ Go(o, "keyUnlinked")
     \/ Go(o, "keyFailing") /\ UNCHANGED temps
  /\ UNCHANGED <<job, snapshot, seen, body, contents, places, regVars, janVars, up, damaged, crashes, histVars>>

\* secure_remove_file and secure_remove_tree: the contents are overwritten
\* first; the name may stay if the system refuses to unlink it.
Wipe(a) ==
  IF a[2] = "key"
  THEN kdata' = [kdata EXCEPT ![a[1]] = "wiped"] /\ UNCHANGED <<data, holds>>
  ELSE data' = [data EXCEPT ![a[1]] = "wiped"] /\ UNCHANGED <<kdata, holds>>

CanStick(a) == a \in stuck \/ Cardinality(stuck) < MaxStuck

SecureRemove(a) ==
  /\ Wipe(a)
  /\ \/ temps' = temps \ {a} /\ UNCHANGED stuck
     \/ CanStick(a) /\ stuck' = stuck \cup {a} /\ UNCHANGED temps

Discard(o) ==
  /\ \/ At(o, "failing") /\ SecureRemove(Main(o)) /\ Go(o, "discarded")
     \/ At(o, "keyFailing") /\ SecureRemove(Key(o)) /\ Go(o, "keyDiscarded")
  /\ UNCHANGED <<job, snapshot, seen, body, places, regVars, janVars, up, damaged, crashes,
                 lost, rivals, successor>>

-----------------------------------------------------------------------------
\* mutant of Recheck: the name is not looked at again
RecheckNothing(o) ==
  /\ Does(o, {"create", "createPqc", "join"})
  /\ At(o, IF job[o].kind = "createPqc" THEN "keyed" ELSE "complete")
  /\ Go(o, "cleared")
  /\ UNCHANGED <<job, snapshot, seen, body, contents, places, temps, regVars, janVars, up, damaged,
                 crashes, histVars>>

\* create and join look at the name once more.
Recheck(o) ==
  /\ Does(o, {"create", "createPqc", "join"})
  /\ At(o, IF job[o].kind = "createPqc" THEN "keyed" ELSE "complete")
  /\ Go(o, IF archive[job[o].dst] # None THEN "failing" ELSE "cleared")
  /\ UNCHANGED <<job, snapshot, seen, body, contents, places, temps, regVars, janVars, up, damaged,
                 crashes, histVars>>

\* The operations that decided to use a name and have not yet taken it.
Waiting(n) ==
  {z \in Op : /\ job[z] # None /\ job[z].dst = n
              /\ pc[z] \notin Ended \cup {"moved"}
              /\ CASE job[z].kind = "rekey" -> pc[z] # "begun" \/ ~InPlace(z)
                   [] job[z].kind = "split" -> FALSE
                   [] OTHER -> pc[z] = "cleared"}

\* os.replace: the temporary name becomes the output's.
Publish(o) ==
  LET n == job[o].dst  split == Does(o, {"split"}) IN
  /\ At(o, IF Does(o, {"rekey", "split"}) THEN "complete" ELSE "cleared")
  /\ IF split /\ volumes[n] # None
     THEN Go(o, "failing") /\ UNCHANGED <<archive, volumes, temps, rivals, successor>>
     ELSE /\ Go(o, "moved")
          /\ temps' = temps \ {Main(o)}
          /\ IF split
             THEN volumes' = [volumes EXCEPT ![n] = o] /\ UNCHANGED <<archive, rivals, successor>>
             ELSE /\ archive' = [archive EXCEPT ![n] = o]
                  /\ successor' = IF archive[n] = None THEN successor
                                  ELSE [successor EXCEPT ![archive[n]] = o]
                  /\ rivals' = [z \in Op |-> IF z \in Waiting(n) \ {o} THEN rivals[z] \cup {o} ELSE rivals[z]]
                  /\ UNCHANGED volumes
  /\ UNCHANGED <<job, snapshot, seen, body, contents, keyfile, regVars, janVars, up, damaged,
                 crashes, lost, stuck>>

-----------------------------------------------------------------------------
\* cleanup_startup_temp_artifacts of process p: its start, and once more in the
\* desktop core while it may already serve requests.
StartCleanup(p) ==
  /\ \/ up[p] = "new"
     \/ up[p] = "up" /\ passes[p] > 0
  /\ jpc[p] = "off" /\ passes[p] < Passes[p] /\ holder[p] = None
  /\ up' = [up EXCEPT ![p] = "up"]
  /\ holder' = [holder EXCEPT ![p] = "janitor"]
  /\ jpc' = [jpc EXCEPT ![p] = "choose"]
  /\ jTodo' = [jTodo EXCEPT ![p] = listed]
  /\ UNCHANGED <<opVars, contents, places, temps, registry, listed, handle, memory,
                 jReg, jRecs, jKept, passes, damaged, crashes, histVars>>

\* mutant of Spared: artifacts of living processes are leftovers too
SparedNever(q) == FALSE

\* A registry with a record of a living process is left alone.
Spared(q) == registry[q] # {} /\ up[q] = "up"

ReadRegistry(p, q) ==
  /\ up[p] = "up" /\ jpc[p] = "choose" /\ q \in jTodo[p]
  /\ jTodo' = [jTodo EXCEPT ![p] = @ \ {q}]
  /\ IF q \notin listed \/ Spared(q)
     THEN UNCHANGED <<jpc, jReg, jRecs>>
     ELSE /\ jpc' = [jpc EXCEPT ![p] = "remove"]
          /\ jReg' = [jReg EXCEPT ![p] = q]
          /\ jRecs' = [jRecs EXCEPT ![p] = registry[q]]
  /\ UNCHANGED <<opVars, contents, places, temps, regVars, jKept, passes, up, damaged, crashes, histVars>>

\* Directories count as removed when anything in them was: only a file that
\* stays keeps its record.
RemoveRecorded(p, a) ==
  /\ up[p] = "up" /\ jpc[p] = "remove" /\ a \in jRecs[p]
  /\ jRecs' = [jRecs EXCEPT ![p] = @ \ {a}]
  /\ IF a \in temps
     THEN /\ SecureRemove(a)
          /\ jKept' = IF a \in temps' /\ job[a[1]].kind # "split"
                      THEN [jKept EXCEPT ![p] = @ \cup {a}] ELSE jKept
     ELSE UNCHANGED <<contents, temps, stuck, jKept>>
  /\ UNCHANGED <<opVars, places, regVars, jpc, jTodo, jReg, passes, up, damaged, crashes,
                 lost, rivals, successor>>

\* mutant of FinishRegistry: the registry goes, whatever is still there
FinishRegistryAlways(p) ==
  LET q == jReg[p] IN
  /\ up[p] = "up" /\ jpc[p] = "remove" /\ jRecs[p] = {}
  /\ registry' = [registry EXCEPT ![q] = {}]
  /\ listed' = listed \ {q}
  /\ jpc' = [jpc EXCEPT ![p] = "choose"]
  /\ jReg' = [jReg EXCEPT ![p] = None]
  /\ jKept' = [jKept EXCEPT ![p] = {}]
  /\ UNCHANGED <<opVars, contents, places, temps, handle, holder, memory, jTodo, jRecs, passes, up,
                 damaged, crashes, histVars>>

\* mutant of FinishRegistry: the rewritten registry is unlinked as well
FinishRegistryUnlinks(p) ==
  LET q == jReg[p] IN
  /\ up[p] = "up" /\ jpc[p] = "remove" /\ jRecs[p] = {}
  /\ registry' = [registry EXCEPT ![q] = jKept[p]]
  /\ listed' = listed \ {q}
  /\ jpc' = [jpc EXCEPT ![p] = "choose"]
  /\ jReg' = [jReg EXCEPT ![p] = None]
  /\ jKept' = [jKept EXCEPT ![p] = {}]
  /\ UNCHANGED <<opVars, contents, places, temps, handle, holder, memory, jTodo, jRecs, passes, up,
                 damaged, crashes, histVars>>

\* The registry is rewritten with what stays, or unlinked - also when it was
\* read empty, between the truncation and the write of a living process.
FinishRegistry(p) ==
  LET q == jReg[p] IN
  /\ up[p] = "up" /\ jpc[p] = "remove" /\ jRecs[p] = {}
  /\ registry' = [registry EXCEPT ![q] = jKept[p]]
  /\ listed' = IF jKept[p] = {} THEN listed \ {q} ELSE listed \cup {q}
  /\ lost' = lost \cup ((registry[q] \ jKept[p]) \cap temps)
  /\ handle' = IF jKept[p] = {} /\ handle[q] = "open" THEN [handle EXCEPT ![q] = "orphan"] ELSE handle
  /\ jpc' = [jpc EXCEPT ![p] = "choose"]
  /\ jReg' = [jReg EXCEPT ![p] = None]
  /\ jKept' = [jKept EXCEPT ![p] = {}]
  /\ UNCHANGED <<opVars, contents, places, temps, holder, memory, jTodo, jRecs, passes, up,
                 damaged, crashes, stuck, rivals, successor>>

\* All registries are done - or, where an open file cannot be unlinked, the
\* first one that is open ends the clean-up.
EndCleanup(p) ==
  /\ up[p] = "up"
  /\ \/ jpc[p] = "choose" /\ jTodo[p] = {}
     \/ jpc[p] = "remove" /\ jRecs[p] = {} /\ jKept[p] = {} /\ handle[jReg[p]] = "open"
  /\ jpc' = [jpc EXCEPT ![p] = "off"]
  /\ jTodo' = [jTodo EXCEPT ![p] = {}]
  /\ jReg' = [jReg EXCEPT ![p] = None]
  /\ holder' = [holder EXCEPT ![p] = None]
  /\ passes' = [passes EXCEPT ![p] = @ + 1]
  /\ UNCHANGED <<opVars, contents, places, temps, registry, listed, handle, memory, jRecs, jKept,
                 up, damaged, crashes, histVars>>

\* A process dies; its locks, open files and memory go with it.
Crash(p) ==
  /\ up[p] = "up" /\ crashes < MaxCrashes
  /\ crashes' = crashes + 1
  /\ up' = [up EXCEPT ![p] = "dead"]
  /\ lost' = lost \cup (memory[p] \cap temps)
  /\ memory' = [memory EXCEPT ![p] = {}]
  /\ holder' = [holder EXCEPT ![p] = None]
  /\ handle' = [handle EXCEPT ![p] = "none"]
  /\ jpc' = [jpc EXCEPT ![p] = "off"] /\ jTodo' = [jTodo EXCEPT ![p] = {}]
  /\ jReg' = [jReg EXCEPT ![p] = None]
  /\ jRecs' = [jRecs EXCEPT ![p] = {}] /\ jKept' = [jKept EXCEPT ![p] = {}]
  /\ UNCHANGED <<opVars, contents, places, temps, registry, listed, passes, damaged, stuck, rivals, successor>>

\* A volume of a published set is changed by someone else.
Damage(n) ==
  /\ volumes[n] # None /\ damaged = {}
  /\ damaged' = {volumes[n]}
  /\ UNCHANGED <<opVars, contents, places, temps, regVars, janVars, up, crashes, histVars>>

Step(o) ==
  \/ Inspect(o) \/ MakeTemp(o) \/ Abort(o)
  \/ OpenRegistry(o) \/ Append(o) \/ StartUnregister(o) \/ EndUnregister(o)
  \/ Copy(o) \/ Complete(o) \/ Fail(o)
  \/ MakeKeyTemp(o) \/ LinkKeyfile(o) \/ UnlinkKeyTemp(o) \/ Discard(o)
  \/ Recheck(o) \/ Publish(o)

Cleanup(p) ==
  \/ StartCleanup(p) \/ FinishRegistry(p) \/ EndCleanup(p)
  \/ \E q \in Proc : ReadRegistry(p, q)
  \/ \E a \in Artifact : RemoveRecorded(p, a)

Next ==
  \/ \E o \in Op : \E j \in Choices[o] : Begin(o, j)
  \/ \E o \in Op : Step(o)
  \/ \E p \in Proc : Cleanup(p) \/ Crash(p)
  \/ \E n \in Name : Damage(n)

Spec == Init /\ [][Next]_vars

-----------------------------------------------------------------------------
Sane(x) == data[x] = "full" /\ holds[x].payload = holds[x].meta

\* Whatever crashes, fails or races, a file under an archive's name is a whole
\* archive whose keychain and signature describe its own payload, and a volume
\* set holds the bytes of the archive that its manifest is bound to.
PublishedOpens ==
  \A n \in Name :
    /\ archive[n] # None => Sane(archive[n])
    /\ volumes[n] \in Op => Sane(volumes[n])

\* An archive that needs an external keyfile is never in place without it: the
\* keyfile made with it is beside it, complete.
KeyfileBesideArchive ==
  \A o \in Op :
    (Does(o, {"createPqc"}) /\ archive[job[o].dst] = o)
      => keyfile[job[o].dst] = o /\ kdata[o] = "full"

\* The clean-up of a starting process never takes the temporary artifact of an
\* operation that is still at work in another one.
LiveTempKept ==
  \A o \in Op : (up[Runs[o]] = "up" /\ pc[o] \in Holding) => Main(o) \in temps /\ data[o] # "wiped"

\* A temporary artifact that nobody works on is in a registry that a later
\* start will read - unless its process died before it was recorded, its
\* record was destroyed (by a crash inside unregister, which truncates the file
\* first, or by a clean-up that read the registry empty), or it could not be
\* unlinked.
LeftoversAccounted ==
  \A a \in temps :
    LET o == a[1]  p == Runs[o] IN
    \/ up[p] = "up" /\ pc[o] \notin Ended
    \/ a \in registry[p]
    \/ a \in lost \cup stuck
    \/ pc[o] = IF a = Key(o) THEN "keyUnlisted" ELSE "unlisted"

\* An archive gives way only to a rekey that read it in place, to a forced
\* rekey, or to an operation that last looked at the name before the archive
\* was there.
ReplacedKnowingly ==
  \A x \in Object :
    LET z == successor[x] IN
    z # None => \/ InPlace(z) /\ seen[z] = x
                \/ Does(z, {"rekey"}) /\ job[z].force
                \/ x \in rivals[z]

\* "Secure-wiping the temp path would also wipe the published .avkkey"
\* (pqc_keyfile.py:436): a keyfile under its name is never wiped.
KeyfilesIntact == \A n \in Name : keyfile[n] # None => kdata[keyfile[n]] # "wiped"
=============================================================================
