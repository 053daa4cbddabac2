-------------------------- MODULE ArchiveSessions ---------------------------
(***************************************************************************)
(* The store of opened archive sessions (core/archive_sessions.py), used   *)
(* by the event loop, whose handlers look a session up before they submit  *)
(* a worker, by the one archive worker thread that the crypto lock admits, *)
(* and by the threads that asyncio.to_thread gives to closeSession.        *)
(*                                                                         *)
(* Every call takes the store lock; closing a session also takes its       *)
(* operation lock, and waits for it while it holds the store lock.         *)
(***************************************************************************)
EXTENDS Naturals, FiniteSets, FiniteSetsExt

CONSTANTS
  Job,          \* archive requests that use sessions
  Stages,       \* workers of a job that reads a session: 1, or 2 for extractAll
  Opens,        \* the session that an openSession job opens
  Closer,       \* threads that run closeSession
  Session,      \* session ids
  Loop, None,
  MaxSessions,  \* capacity of the store
  IdleLimit     \* ticks of SESSION_IDLE_SECONDS

ASSUME SessionsAssumption ==
  /\ DOMAIN Stages \subseteq Job /\ \A j \in DOMAIN Stages : Stages[j] \in {1, 2}
  /\ DOMAIN Opens = Job \ DOMAIN Stages
  /\ \A j \in DOMAIN Opens : Opens[j] \in Session
  /\ \A j, k \in DOMAIN Opens : Opens[j] = Opens[k] => j = k
  /\ MaxSessions \in Nat \ {0}
  /\ IdleLimit \in Nat
  /\ None \notin Session \cup Job \cup Closer \cup {Loop}
  /\ Loop \notin Job \cup Closer /\ Job \cap Closer = {}

Readers == DOMAIN Stages
Threads == {Loop} \cup Job \cup Closer

VARIABLES
  job,       \* state of each request
  stage,     \* which worker a reading job has reached
  pc,        \* what each thread does
  target,    \* the session it does it with
  todo,      \* sessions it has popped and must still close
  serving,   \* the request whose handler the event loop runs
  storeLock, \* ArchiveSessionStore._lock
  opLock,    \* ArchiveSession.operation_lock of each session
  store,     \* ArchiveSessionStore._sessions
  opened,    \* ids ever handed out
  age,       \* time since last_access
  cleared,   \* sessions whose key is zeroed and whose index is empty
  changed,   \* sessions whose archive file was replaced or removed
  asked,     \* history: sessions that closeSession was called for
  pushed,    \* history: sessions that openSession evicted
  held       \* history: time since a reading request last looked its session up

jobVars    == <<job, stage>>
threadVars == <<pc, target, todo, serving>>
lockVars   == <<storeLock, opLock>>
dataVars   == <<store, opened, age, cleared>>
histVars   == <<asked, pushed, held>>
vars == <<jobVars, threadVars, lockVars, dataVars, changed, histVars>>

-----------------------------------------------------------------------------
JobStates == {"idle", "looking", "queued", "working", "ok", "missing", "failed"}

\* Types; and the store never holds more sessions than its capacity.
TypeOK ==
  /\ job \in [Job -> JobStates]
  /\ stage \in [Job -> 1..2]
  /\ pc \in [Threads -> {"idle", "want", "hold", "found", "run"}]
  /\ target \in [Threads -> Session \cup {None}]
  /\ todo \in [Threads -> SUBSET Session]
  /\ serving \in Job \cup {None}
  /\ storeLock \in Threads \cup {None}
  /\ opLock \in [Session -> Threads \cup {None}]
  /\ store \subseteq opened /\ opened \subseteq Session
  /\ Cardinality(store) <= MaxSessions
  /\ age \in [Session -> 0..(IdleLimit + 1)]
  /\ cleared \subseteq opened
  /\ changed \subseteq opened /\ asked \subseteq opened /\ pushed \subseteq opened
  /\ held \in [Readers -> 0..(IdleLimit + 1)]

Init ==
  /\ job = [j \in Job |-> "idle"]
  /\ stage = [j \in Job |-> 1]
  /\ pc = [t \in Threads |-> "idle"]
  /\ target = [t \in Threads |-> None]
  /\ todo = [t \in Threads |-> {}]
  /\ serving = None
  /\ storeLock = None
  /\ opLock = [s \in Session |-> None]
  /\ store = {} /\ opened = {}
  /\ age = [s \in Session |-> 0]
  /\ cleared = {} /\ changed = {} /\ asked = {} /\ pushed = {}
  /\ held = [j \in Readers |-> 0]

-----------------------------------------------------------------------------
Expired == {s \in store : age[s] > IdleLimit}

\* mutant of Evictions: one session more than the capacity is kept
EvictionsOffByOne(live) ==
  IF Cardinality(live) <= MaxSessions THEN {{}}
  ELSE {gone \in kSubset(Cardinality(live) - MaxSessions, live) :
          \A s \in gone, t \in live \ gone : age[s] >= age[t]}

\* The sessions with the oldest last_access, as many as are over the capacity.
Evictions(live) ==
  IF Cardinality(live) < MaxSessions THEN {{}}
  ELSE {gone \in kSubset(Cardinality(live) - MaxSessions + 1, live) :
          \A s \in gone, t \in live \ gone : age[s] >= age[t]}

CryptoLockFree == \A j \in Job : job[j] # "working"

\* Sessions that a store call of thread t pops before it does anything else.
Pops(t) ==
  IF t \in Closer THEN {{target[t]} \cap store}
  ELSE IF t \in DOMAIN Opens THEN {Expired \cup gone : gone \in Evictions(store \ Expired)}
  ELSE {Expired \cup ({target[t]} \cap store \cap changed)}

-----------------------------------------------------------------------------
\* The event loop.  openSession submits its worker at once; the others look
\* their session up first, on the event loop itself.
SubmitOpen(j) ==
  /\ pc[Loop] = "idle" /\ job[j] = "idle" /\ j \in DOMAIN Opens
  /\ job' = [job EXCEPT ![j] = "queued"]
  /\ UNCHANGED <<stage, threadVars, lockVars, dataVars, changed, histVars>>

SubmitRead(j, s) ==
  /\ pc[Loop] = "idle" /\ job[j] = "idle" /\ j \in Readers
  /\ s \in opened
  /\ job' = [job EXCEPT ![j] = "looking"]
  /\ serving' = j
  /\ pc' = [pc EXCEPT ![Loop] = "want"]
  /\ target' = [target EXCEPT ![Loop] = s, ![j] = s]
  /\ UNCHANGED <<stage, todo, lockVars, dataVars, changed, histVars>>

\* closeSession runs in a thread of its own.
SubmitClose(c, s) ==
  /\ pc[Loop] = "idle" /\ pc[c] = "idle" /\ target[c] = None
  /\ s \in opened
  /\ pc' = [pc EXCEPT ![c] = "want"]
  /\ target' = [target EXCEPT ![c] = s]
  /\ asked' = asked \cup {s}
  /\ UNCHANGED <<jobVars, todo, serving, lockVars, dataVars, changed, pushed, held>>

\* The crypto lock admits a queued job's next worker, which calls the store.
StartWorker(j) ==
  /\ pc[Loop] = "idle" /\ job[j] = "queued" /\ CryptoLockFree
  /\ job' = [job EXCEPT ![j] = "working"]
  /\ pc' = [pc EXCEPT ![j] = "want"]
  /\ target' = IF j \in DOMAIN Opens THEN [target EXCEPT ![j] = Opens[j]] ELSE target
  /\ UNCHANGED <<stage, todo, serving, lockVars, dataVars, changed, histVars>>

-----------------------------------------------------------------------------
\* The store, for any thread: get, open and close.

\* mutant of TakeStore: sessions in use are popped and closed by nobody
TakeStoreForgets(t) ==
  /\ pc[t] = "want" /\ storeLock = None
  /\ storeLock' = t
  /\ \E gone \in Pops(t) :
       /\ store' = store \ gone
       /\ pushed' = IF t \in DOMAIN Opens THEN pushed \cup (gone \ Expired) ELSE pushed
       /\ todo' = [todo EXCEPT ![t] = {s \in gone : opLock[s] = None}]
  /\ pc' = [pc EXCEPT ![t] = "hold"]
  /\ UNCHANGED <<jobVars, target, serving, opLock, opened, age, cleared, changed,
                 asked, held>>

TakeStore(t) ==
  /\ pc[t] = "want" /\ storeLock = None
  /\ storeLock' = t
  /\ \E gone \in Pops(t) :
       /\ store' = store \ gone
       /\ pushed' = IF t \in DOMAIN Opens THEN pushed \cup (gone \ Expired) ELSE pushed
       /\ todo' = [todo EXCEPT ![t] = gone]
  /\ pc' = [pc EXCEPT ![t] = "hold"]
  /\ UNCHANGED <<jobVars, target, serving, opLock, opened, age, cleared, changed,
                 asked, held>>

\* mutant of CloseOne: the operation lock is not taken
CloseOneUnlocked(t, s) ==
  /\ pc[t] = "hold" /\ s \in todo[t]
  /\ cleared' = cleared \cup {s}
  /\ todo' = [todo EXCEPT ![t] = @ \ {s}]
  /\ UNCHANGED <<jobVars, pc, target, serving, lockVars, store, opened, age, changed, histVars>>

\* ArchiveSession.close: behind the operation lock, the key is zeroed and the
\* index emptied.
CloseOne(t, s) ==
  /\ pc[t] = "hold" /\ s \in todo[t]
  /\ opLock[s] = None
  /\ cleared' = cleared \cup {s}
  /\ todo' = [todo EXCEPT ![t] = @ \ {s}]
  /\ UNCHANGED <<jobVars, pc, target, serving, lockVars, store, opened, age, changed, histVars>>

\* mutant of Leave: the store lock stays taken
LeaveLocked(t) ==
  /\ pc[t] = "hold" /\ todo[t] = {}
  /\ UNCHANGED storeLock

\* The call returns, or raises: the store lock is released.
Leave(t) ==
  /\ pc[t] = "hold" /\ todo[t] = {}
  /\ storeLock' = None

\* mutant of ReturnGet: the lookup does not count as an access
ReturnGetStale(t) ==
  /\ t \in {Loop} \cup Readers
  /\ Leave(t)
  /\ LET s == target[t]  j == IF t = Loop THEN serving ELSE t  hit == s \in store IN
       /\ pc' = [pc EXCEPT ![t] = IF hit /\ t # Loop THEN "found" ELSE "idle"]
       /\ job' = [job EXCEPT ![j] = IF ~hit THEN "missing"
                                    ELSE IF t = Loop THEN "queued" ELSE "working"]
       /\ held' = IF hit THEN [held EXCEPT ![j] = 0] ELSE held
       /\ serving' = IF t = Loop THEN None ELSE serving
  /\ UNCHANGED <<stage, target, todo, opLock, dataVars, changed, asked, pushed>>

ReturnGet(t) ==
  /\ t \in {Loop} \cup Readers
  /\ Leave(t)
  /\ LET s == target[t]  j == IF t = Loop THEN serving ELSE t  hit == s \in store IN
       /\ age' = IF hit THEN [age EXCEPT ![s] = 0] ELSE age
       /\ pc' = [pc EXCEPT ![t] = IF hit /\ t # Loop THEN "found" ELSE "idle"]
       /\ job' = [job EXCEPT ![j] = IF ~hit THEN "missing"
                                    ELSE IF t = Loop THEN "queued" ELSE "working"]
       /\ held' = IF hit THEN [held EXCEPT ![j] = 0] ELSE held
       /\ serving' = IF t = Loop THEN None ELSE serving
  /\ UNCHANGED <<stage, target, todo, opLock, store, opened, cleared, changed,
                 asked, pushed>>

ReturnOpen(j) ==
  /\ j \in DOMAIN Opens
  /\ Leave(j)
  /\ store' = store \cup {Opens[j]}
  /\ opened' = opened \cup {Opens[j]}
  /\ job' = [job EXCEPT ![j] = "ok"]
  /\ pc' = [pc EXCEPT ![j] = "idle"]
  /\ UNCHANGED <<stage, target, todo, serving, opLock, age, cleared, changed, histVars>>

ReturnClose(c) ==
  /\ c \in Closer
  /\ Leave(c)
  /\ pc' = [pc EXCEPT ![c] = "idle"]
  /\ UNCHANGED <<jobVars, target, todo, serving, opLock, dataVars, changed, histVars>>

StoreStep(t) ==
  \/ TakeStore(t) \/ (\E s \in Session : CloseOne(t, s))
  \/ ReturnGet(t) \/ ReturnOpen(t) \/ ReturnClose(t)

-----------------------------------------------------------------------------
\* The worker: extract and verify_payload_commitment after get returned.

\* A session closed since get has an empty index and no commitment.
BeginRead(j) ==
  /\ pc[j] = "found" /\ opLock[target[j]] = None
  /\ \/ /\ target[j] \in cleared
        /\ pc' = [pc EXCEPT ![j] = "idle"]
        /\ job' = [job EXCEPT ![j] = "failed"]
        /\ UNCHANGED opLock
     \/ /\ target[j] \notin cleared
        /\ pc' = [pc EXCEPT ![j] = "run"]
        /\ opLock' = [opLock EXCEPT ![target[j]] = j]
        /\ UNCHANGED job
  /\ UNCHANGED <<stage, target, todo, serving, storeLock, dataVars, changed, histVars>>

\* The payload is read and verified; one that was replaced does not verify.
EndRead(j) ==
  /\ pc[j] = "run"
  /\ opLock' = [opLock EXCEPT ![target[j]] = None]
  /\ pc' = [pc EXCEPT ![j] = "idle"]
  /\ \/ /\ target[j] \in changed
        /\ job' = [job EXCEPT ![j] = "failed"]
        /\ UNCHANGED stage
     \/ /\ stage[j] < Stages[j]
        /\ job' = [job EXCEPT ![j] = "queued"]
        /\ stage' = [stage EXCEPT ![j] = @ + 1]
     \/ /\ stage[j] = Stages[j]
        /\ job' = [job EXCEPT ![j] = "ok"]
        /\ UNCHANGED stage
  /\ UNCHANGED <<target, todo, serving, storeLock, dataVars, changed, histVars>>

WorkerStep(j) == StartWorker(j) \/ BeginRead(j) \/ EndRead(j)

InUse(j) == job[j] \in {"looking", "queued", "working"}

\* Time passes, up to the point where one more tick makes no difference.
Tick ==
  /\ \E s \in store : age[s] <= IdleLimit
  /\ age' = [s \in Session |-> IF s \in store /\ age[s] <= IdleLimit THEN age[s] + 1 ELSE age[s]]
  /\ held' = [j \in Readers |-> IF InUse(j) /\ held[j] <= IdleLimit THEN held[j] + 1 ELSE held[j]]
  /\ UNCHANGED <<jobVars, threadVars, lockVars, store, opened, cleared, changed, asked, pushed>>

ChangeArchive(s) ==
  /\ s \in opened \ changed
  /\ changed' = changed \cup {s}
  /\ UNCHANGED <<jobVars, threadVars, lockVars, dataVars, histVars>>

Next ==
  \/ \E j \in Job : SubmitOpen(j) \/ WorkerStep(j) \/ \E s \in Session : SubmitRead(j, s)
  \/ \E c \in Closer, s \in Session : SubmitClose(c, s)
  \/ \E t \in Threads : StoreStep(t)
  \/ Tick
  \/ \E s \in Session : ChangeArchive(s)

Spec == Init /\ [][Next]_vars

\* Threads that can run do run: the event loop, each closing thread, and the one
\* worker that the crypto lock admits, which gets to the end of its archive.
Fairness ==
  /\ \A t \in {Loop} \cup Closer : WF_vars(StoreStep(t))
  /\ WF_vars(\E j \in Job : StoreStep(j) \/ WorkerStep(j))

FairSpec == Spec /\ Fairness

-----------------------------------------------------------------------------
\* Properties.

\* A session's key and index are never cleared under a worker that reads the
\* archive with them, whoever expires, evicts or closes the session meanwhile.
KeyKeptWhileReading == \A j \in Readers : pc[j] = "run" => target[j] \notin cleared

\* The key of a session that left the store is zeroed, at the latest when the
\* call that removed it returns: no session is forgotten with its key in memory.
RemovedMeansZeroed ==
  \A s \in opened \ store : s \in cleared \/ \E t \in Threads : s \in todo[t]

\* A read that found its session fails later only because a client closed that
\* session, openSession pushed it out, its archive was replaced, or more than the
\* idle limit passed since the read's own last lookup.
FailureAccounted ==
  \A j \in Readers :
    job[j] = "failed" \/ (job[j] = "missing" /\ stage[j] > 1) =>
      target[j] \in asked \cup pushed \cup changed \/ held[j] > IdleLimit

\* Every lookup that the event loop makes comes back, and so does every close,
\* which waits for one lock with the other in hand.
StoreCallsReturn ==
  \A t \in {Loop} \cup Closer : pc[t] \in {"want", "hold"} ~> pc[t] = "idle"
=============================================================================
