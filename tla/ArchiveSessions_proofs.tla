----------------------- MODULE ArchiveSessions_proofs -----------------------
(***************************************************************************)
(* The session store for any number of sessions, requests and closing       *)
(* threads, any capacity and idle limit: it holds no more than its capacity, *)
(* clears no key under a reader, forgets none in memory, and fails a read    *)
(* only for a reason there is an account of.                                 *)
(***************************************************************************)
EXTENDS ArchiveSessions, FiniteSetTheorems, TLAPS

\* Who is in a call holds the store lock, and has nothing left to close when out of it.
LockHeld == \A t \in Threads : pc[t] = "hold" <=> storeLock = t
TodoHeld == \A t \in Threads : todo[t] \subseteq opened /\ (pc[t] # "hold" => todo[t] = {})

\* Where the threads are: a job's thread runs while its worker does; the event loop
\* while a request waits for its lookup.
JobThreads == \A j \in Job : pc[j] # "idle" => job[j] = "working"
LoopServes ==
  /\ pc[Loop] \in {"idle", "want", "hold"}
  /\ pc[Loop] # "idle" => serving \in Readers /\ job[serving] = "looking"
Targets ==
  /\ \A t \in Threads \ Job : pc[t] # "idle" => target[t] \in Session
  /\ \A j \in Readers : job[j] # "idle" => target[j] \in Session
OpenersCall == \A t \in Threads : pc[t] \in {"found", "run"} => t \in Readers

\* A reader has its session's operation lock, and the key.
ReadLocked ==
  \A j \in Readers : pc[j] = "run" => opLock[target[j]] = j /\ target[j] \notin cleared

\* Who opens a session has made room for it.
Room ==
  /\ IsFiniteSet(store)
  /\ \A j \in DOMAIN Opens : pc[j] = "hold" => Cardinality(store) < MaxSessions

\* The types, by what they are the types of.
JobTypes ==
  job \in [Job -> JobStates] /\ stage \in [Job -> 1..2] /\ serving \in Job \cup {None}
ThreadTypes ==
  /\ pc \in [Threads -> {"idle", "want", "hold", "found", "run"}]
  /\ target \in [Threads -> Session \cup {None}]
TodoTypes == todo \in [Threads -> SUBSET Session]
LockTypes ==
  storeLock \in Threads \cup {None} /\ opLock \in [Session -> Threads \cup {None}]
StoreTypes ==
  store \subseteq opened /\ opened \subseteq Session /\ Cardinality(store) <= MaxSessions
TimeTypes ==
  age \in [Session -> 0..(IdleLimit + 1)] /\ held \in [Readers -> 0..(IdleLimit + 1)]
HistTypes ==
  cleared \subseteq opened /\ changed \subseteq opened /\ asked \subseteq opened /\ pushed \subseteq opened

SessionsInv ==
  /\ TypeOK
  /\ LockHeld /\ TodoHeld
  /\ JobThreads /\ LoopServes /\ Targets /\ OpenersCall
  /\ ReadLocked /\ Room
  /\ RemovedMeansZeroed

-----------------------------------------------------------------------------
\* What the assumption says of the constants, in the form the steps use it.
LEMMA Constants ==
  /\ Readers \subseteq Job /\ DOMAIN Opens \subseteq Job /\ Readers \cap DOMAIN Opens = {}
  /\ \A j \in DOMAIN Opens : Opens[j] \in Session
  /\ \A j \in Readers : Stages[j] \in {1, 2}
  /\ Loop \in Threads /\ Job \subseteq Threads /\ Closer \subseteq Threads /\ Loop \notin Job
  /\ Loop \notin Closer /\ Job \cap Closer = {}
  /\ None \notin Threads /\ None \notin Session /\ None \notin Job
  /\ MaxSessions \in Nat \ {0} /\ IdleLimit \in Nat
  BY SessionsAssumption DEF Readers, Threads

\* Evicting makes room: less than the capacity is left.
LEMMA EvictionsMakeRoom ==
  ASSUME NEW live, IsFiniteSet(live), NEW gone \in Evictions(live)
  PROVE  gone \subseteq live /\ IsFiniteSet(live \ gone) /\ Cardinality(live \ gone) < MaxSessions
<1>1. Cardinality(live) \in Nat /\ MaxSessions \in Nat \ {0}
  BY FS_CardinalityType, Constants
<1>2. CASE Cardinality(live) < MaxSessions
  <2>1. gone = {} /\ live \ gone = live
    BY <1>2 DEF Evictions
  <2> QED
    BY <1>2, <2>1
<1>3. CASE ~(Cardinality(live) < MaxSessions)
  <2>1. gone \in kSubset(Cardinality(live) - MaxSessions + 1, live)
    BY <1>3 DEF Evictions
  <2>2. gone \subseteq live /\ Cardinality(gone) = Cardinality(live) - MaxSessions + 1
    BY <2>1 DEF kSubset
  <2>3. live \cap gone = gone
    BY <2>2
  <2>4. IsFiniteSet(live \ gone) /\ Cardinality(live \ gone) = Cardinality(live) - Cardinality(gone)
    BY <2>3, FS_Difference
  <2> QED
    BY <1>1, <2>2, <2>4
<1> QED
  BY <1>2, <1>3

\* What a call pops was in the store; an opening leaves room.
LEMMA PopsFromStore ==
  ASSUME IsFiniteSet(store), NEW t, NEW gone \in Pops(t)
  PROVE  /\ gone \subseteq store /\ IsFiniteSet(store \ gone)
         /\ t \in DOMAIN Opens /\ t \notin Closer => Cardinality(store \ gone) < MaxSessions
<1>1. CASE t \in Closer
  <2>1. gone \subseteq store
    BY <1>1 DEF Pops
  <2> QED
    BY <1>1, <2>1, FS_Difference
<1>2. CASE t \notin Closer /\ t \in DOMAIN Opens
  <2>1. PICK g \in Evictions(store \ Expired) : gone = Expired \cup g
    BY <1>2 DEF Pops
  <2>2. IsFiniteSet(store \ Expired)
    BY FS_Difference
  <2>3. /\ g \subseteq store \ Expired /\ IsFiniteSet((store \ Expired) \ g)
        /\ Cardinality((store \ Expired) \ g) < MaxSessions
    BY <2>2, EvictionsMakeRoom
  <2>4. store \ gone = (store \ Expired) \ g /\ gone \subseteq store
    BY <2>1, <2>3 DEF Expired
  <2> QED
    BY <2>3, <2>4
<1>3. CASE t \notin Closer /\ t \notin DOMAIN Opens
  <2>1. gone \subseteq store
    BY <1>3 DEF Pops, Expired
  <2> QED
    BY <1>3, <2>1, FS_Difference
<1> QED
  BY <1>1, <1>2, <1>3

-----------------------------------------------------------------------------
\* Every step of every thread keeps the invariant.
LEMMA SessionsStep == ASSUME SessionsInv, [Next]_vars PROVE SessionsInv'
<1> USE Constants DEF SessionsInv, jobVars, threadVars, lockVars, dataVars, histVars
<1>1. ASSUME NEW j \in Job, SubmitOpen(j) PROVE SessionsInv'
  <2>1. TypeOK'
    <3>1. JobTypes'
      BY <1>1 DEF SubmitOpen, TypeOK, JobTypes, JobStates
    <3>2. ThreadTypes'
      BY <1>1 DEF SubmitOpen, TypeOK, ThreadTypes
    <3>3. TodoTypes'
      BY <1>1 DEF SubmitOpen, TypeOK, TodoTypes
    <3>4. LockTypes'
      BY <1>1 DEF SubmitOpen, TypeOK, LockTypes
    <3>5. StoreTypes'
      BY <1>1 DEF SubmitOpen, TypeOK, StoreTypes
    <3>6. TimeTypes'
      BY <1>1 DEF SubmitOpen, TypeOK, TimeTypes
    <3>7. HistTypes'
      BY <1>1 DEF SubmitOpen, TypeOK, HistTypes
    <3> QED
      BY <3>1, <3>2, <3>3, <3>4, <3>5, <3>6, <3>7 DEF TypeOK, JobTypes, ThreadTypes, TodoTypes, LockTypes, StoreTypes, TimeTypes, HistTypes
  <2>2. LockHeld' /\ TodoHeld'
    BY <1>1 DEF SubmitOpen, TypeOK, LockHeld, TodoHeld, JobThreads
  <2>3. JobThreads' /\ LoopServes'
    BY <1>1 DEF SubmitOpen, TypeOK, LockHeld, JobThreads, LoopServes
  <2>4. Targets' /\ OpenersCall'
    BY <1>1 DEF SubmitOpen, TypeOK, JobThreads, LoopServes, Targets, OpenersCall
  <2>5. ReadLocked'
    BY <1>1 DEF SubmitOpen, TypeOK, JobThreads, Targets, OpenersCall, ReadLocked
  <2>6. Room'
    BY <1>1 DEF SubmitOpen, TypeOK, LockHeld, JobThreads, Room
  <2>7. RemovedMeansZeroed'
    BY <1>1 DEF SubmitOpen, TypeOK, TodoHeld, RemovedMeansZeroed
  <2> QED
    BY <2>1, <2>2, <2>3, <2>4, <2>5, <2>6, <2>7
<1>2. ASSUME NEW j \in Job, NEW s \in Session, SubmitRead(j, s) PROVE SessionsInv'
  <2>1. TypeOK'
    <3>1. JobTypes'
      BY <1>2 DEF SubmitRead, TypeOK, JobTypes, JobStates
    <3>2. ThreadTypes'
      BY <1>2 DEF SubmitRead, TypeOK, ThreadTypes
    <3>3. TodoTypes'
      BY <1>2 DEF SubmitRead, TypeOK, TodoTypes
    <3>4. LockTypes'
      BY <1>2 DEF SubmitRead, TypeOK, LockTypes
    <3>5. StoreTypes'
      BY <1>2 DEF SubmitRead, TypeOK, StoreTypes
    <3>6. TimeTypes'
      BY <1>2 DEF SubmitRead, TypeOK, TimeTypes
    <3>7. HistTypes'
      BY <1>2 DEF SubmitRead, TypeOK, HistTypes
    <3> QED
      BY <3>1, <3>2, <3>3, <3>4, <3>5, <3>6, <3>7 DEF TypeOK, JobTypes, ThreadTypes, TodoTypes, LockTypes, StoreTypes, TimeTypes, HistTypes
  <2>2. LockHeld' /\ TodoHeld'
    BY <1>2 DEF SubmitRead, TypeOK, LockHeld, TodoHeld, JobThreads
  <2>3. JobThreads' /\ LoopServes'
    BY <1>2 DEF SubmitRead, TypeOK, LockHeld, JobThreads, LoopServes
  <2>4. Targets' /\ OpenersCall'
    BY <1>2 DEF SubmitRead, TypeOK, JobThreads, LoopServes, Targets, OpenersCall
  <2>5. ReadLocked'
    BY <1>2 DEF SubmitRead, TypeOK, JobThreads, Targets, OpenersCall, ReadLocked
  <2>6. Room'
    BY <1>2 DEF SubmitRead, TypeOK, LockHeld, JobThreads, Room
  <2>7. RemovedMeansZeroed'
    BY <1>2 DEF SubmitRead, TypeOK, TodoHeld, RemovedMeansZeroed
  <2> QED
    BY <2>1, <2>2, <2>3, <2>4, <2>5, <2>6, <2>7
<1>3. ASSUME NEW c \in Closer, NEW s \in Session, SubmitClose(c, s) PROVE SessionsInv'
  <2>1. TypeOK'
    BY <1>3 DEF SubmitClose, TypeOK
  <2>2. LockHeld' /\ TodoHeld'
    BY <1>3 DEF SubmitClose, TypeOK, LockHeld, TodoHeld, JobThreads
  <2>3. JobThreads' /\ LoopServes'
    BY <1>3 DEF SubmitClose, TypeOK, LockHeld, JobThreads, LoopServes
  <2>4. Targets' /\ OpenersCall'
    BY <1>3 DEF SubmitClose, TypeOK, JobThreads, LoopServes, Targets, OpenersCall
  <2>5. ReadLocked'
    BY <1>3 DEF SubmitClose, TypeOK, JobThreads, Targets, OpenersCall, ReadLocked
  <2>6. Room'
    BY <1>3 DEF SubmitClose, TypeOK, LockHeld, JobThreads, Room
  <2>7. RemovedMeansZeroed'
    BY <1>3 DEF SubmitClose, TypeOK, TodoHeld, RemovedMeansZeroed
  <2> QED
    BY <2>1, <2>2, <2>3, <2>4, <2>5, <2>6, <2>7
<1>4. ASSUME NEW j \in Job, StartWorker(j) PROVE SessionsInv'
  <2>1. TypeOK'
    <3>1. JobTypes'
      BY <1>4 DEF StartWorker, TypeOK, JobTypes, JobStates
    <3>2. ThreadTypes'
      BY <1>4 DEF StartWorker, TypeOK, ThreadTypes
    <3>3. TodoTypes'
      BY <1>4 DEF StartWorker, TypeOK, TodoTypes
    <3>4. LockTypes'
      BY <1>4 DEF StartWorker, TypeOK, LockTypes
    <3>5. StoreTypes'
      BY <1>4 DEF StartWorker, TypeOK, StoreTypes
    <3>6. TimeTypes'
      BY <1>4 DEF StartWorker, TypeOK, TimeTypes
    <3>7. HistTypes'
      BY <1>4 DEF StartWorker, TypeOK, HistTypes
    <3> QED
      BY <3>1, <3>2, <3>3, <3>4, <3>5, <3>6, <3>7 DEF TypeOK, JobTypes, ThreadTypes, TodoTypes, LockTypes, StoreTypes, TimeTypes, HistTypes
  <2>2. LockHeld' /\ TodoHeld'
    BY <1>4 DEF StartWorker, TypeOK, LockHeld, TodoHeld, JobThreads
  <2>3. JobThreads' /\ LoopServes'
    BY <1>4 DEF StartWorker, TypeOK, LockHeld, JobThreads, LoopServes
  <2>4. Targets' /\ OpenersCall'
    BY <1>4 DEF StartWorker, TypeOK, JobThreads, LoopServes, Targets, OpenersCall
  <2>5. ReadLocked'
    BY <1>4 DEF StartWorker, TypeOK, JobThreads, Targets, OpenersCall, ReadLocked
  <2>6. Room'
    BY <1>4 DEF StartWorker, TypeOK, LockHeld, JobThreads, Room
  <2>7. RemovedMeansZeroed'
    BY <1>4 DEF StartWorker, TypeOK, TodoHeld, RemovedMeansZeroed
  <2> QED
    BY <2>1, <2>2, <2>3, <2>4, <2>5, <2>6, <2>7
<1>5. ASSUME NEW t \in Threads, TakeStore(t) PROVE SessionsInv'
  <2> PICK gone \in Pops(t) :
        /\ store' = store \ gone
        /\ pushed' = IF t \in DOMAIN Opens THEN pushed \cup (gone \ Expired) ELSE pushed
        /\ todo' = [todo EXCEPT ![t] = gone]
    BY <1>5 DEF TakeStore
  <2>0. /\ gone \subseteq store /\ IsFiniteSet(store \ gone)
        /\ t \in DOMAIN Opens => Cardinality(store \ gone) < MaxSessions
        /\ Cardinality(store \ gone) <= MaxSessions
    <3>1. /\ gone \subseteq store /\ IsFiniteSet(store \ gone)
          /\ t \in DOMAIN Opens => Cardinality(store \ gone) < MaxSessions
      BY PopsFromStore DEF Room
    <3>2. Cardinality(store \ gone) <= Cardinality(store) /\ Cardinality(store) \in Nat
          /\ Cardinality(store \ gone) \in Nat
      BY <3>1, FS_Subset, FS_CardinalityType DEF Room
    <3> QED
      BY <3>1, <3>2 DEF TypeOK
  <2>1. TypeOK'
    <3>1. JobTypes'
      BY <1>5 DEF TakeStore, TypeOK, JobTypes
    <3>2. ThreadTypes'
      BY <1>5 DEF TakeStore, TypeOK, ThreadTypes
    <3>3. TodoTypes'
      BY <1>5, <2>0 DEF TakeStore, TypeOK, TodoTypes
    <3>4. LockTypes'
      BY <1>5 DEF TakeStore, TypeOK, LockTypes
    <3>5. StoreTypes'
      BY <1>5, <2>0 DEF TakeStore, TypeOK, StoreTypes
    <3>6. TimeTypes'
      BY <1>5 DEF TakeStore, TypeOK, TimeTypes
    <3>7. HistTypes'
      BY <1>5, <2>0 DEF TakeStore, TypeOK, HistTypes
    <3> QED
      BY <3>1, <3>2, <3>3, <3>4, <3>5, <3>6, <3>7 DEF TypeOK, JobTypes, ThreadTypes, TodoTypes, LockTypes, StoreTypes, TimeTypes, HistTypes
  <2>2. LockHeld' /\ TodoHeld'
    BY <1>5, <2>0 DEF TakeStore, TypeOK, LockHeld, TodoHeld
  <2>3. JobThreads' /\ LoopServes'
    BY <1>5 DEF TakeStore, TypeOK, LockHeld, JobThreads, LoopServes
  <2>4. Targets' /\ OpenersCall'
    BY <1>5 DEF TakeStore, TypeOK, JobThreads, LoopServes, Targets, OpenersCall
  <2>5. ReadLocked'
    BY <1>5 DEF TakeStore, TypeOK, JobThreads, Targets, OpenersCall, ReadLocked
  <2>6. Room'
    BY <1>5, <2>0 DEF TakeStore, TypeOK, LockHeld, Room
  <2>7. RemovedMeansZeroed'
    BY <1>5, <2>0 DEF TakeStore, TypeOK, TodoHeld, RemovedMeansZeroed
  <2> QED
    BY <2>1, <2>2, <2>3, <2>4, <2>5, <2>6, <2>7
<1>6. ASSUME NEW t \in Threads, NEW s \in Session, CloseOne(t, s) PROVE SessionsInv'
  <2>1. TypeOK'
    <3>1. JobTypes'
      BY <1>6 DEF CloseOne, TypeOK, JobTypes
    <3>2. ThreadTypes'
      BY <1>6 DEF CloseOne, TypeOK, ThreadTypes
    <3>3. TodoTypes'
      BY <1>6 DEF CloseOne, TypeOK, TodoTypes
    <3>4. LockTypes'
      BY <1>6 DEF CloseOne, TypeOK, LockTypes
    <3>5. StoreTypes'
      BY <1>6 DEF CloseOne, TypeOK, StoreTypes
    <3>6. TimeTypes'
      BY <1>6 DEF CloseOne, TypeOK, TimeTypes
    <3>7. HistTypes'
      BY <1>6 DEF CloseOne, TypeOK, HistTypes, TodoHeld
    <3> QED
      BY <3>1, <3>2, <3>3, <3>4, <3>5, <3>6, <3>7 DEF TypeOK, JobTypes, ThreadTypes, TodoTypes, LockTypes, StoreTypes, TimeTypes, HistTypes
  <2>2. LockHeld' /\ TodoHeld'
    BY <1>6 DEF CloseOne, TypeOK, LockHeld, TodoHeld, JobThreads
  <2>3. JobThreads' /\ LoopServes'
    BY <1>6 DEF CloseOne, TypeOK, LockHeld, JobThreads, LoopServes
  <2>4. Targets' /\ OpenersCall'
    BY <1>6 DEF CloseOne, TypeOK, JobThreads, LoopServes, Targets, OpenersCall
  <2>5. ReadLocked'
    BY <1>6 DEF CloseOne, TypeOK, JobThreads, Targets, OpenersCall, ReadLocked
  <2>6. Room'
    BY <1>6 DEF CloseOne, TypeOK, LockHeld, JobThreads, Room
  <2>7. RemovedMeansZeroed'
    BY <1>6 DEF CloseOne, TypeOK, TodoHeld, RemovedMeansZeroed
  <2> QED
    BY <2>1, <2>2, <2>3, <2>4, <2>5, <2>6, <2>7
<1>7. ASSUME NEW t \in Threads, ReturnGet(t) PROVE SessionsInv'
  <2>1. TypeOK'
    <3>1. JobTypes'
      BY <1>7 DEF ReturnGet, Leave, TypeOK, JobTypes, LoopServes, JobStates
    <3>2. ThreadTypes'
      BY <1>7 DEF ReturnGet, Leave, TypeOK, ThreadTypes
    <3>3. TodoTypes'
      BY <1>7 DEF ReturnGet, Leave, TypeOK, TodoTypes
    <3>4. LockTypes'
      BY <1>7 DEF ReturnGet, Leave, TypeOK, LockTypes
    <3>5. StoreTypes'
      BY <1>7 DEF ReturnGet, Leave, TypeOK, StoreTypes
    <3>6. TimeTypes'
      BY <1>7 DEF ReturnGet, Leave, TypeOK, TimeTypes, LoopServes
    <3>7. HistTypes'
      BY <1>7 DEF ReturnGet, Leave, TypeOK, HistTypes
    <3> QED
      BY <3>1, <3>2, <3>3, <3>4, <3>5, <3>6, <3>7 DEF TypeOK, JobTypes, ThreadTypes, TodoTypes, LockTypes, StoreTypes, TimeTypes, HistTypes
  <2>2. LockHeld' /\ TodoHeld'
    BY <1>7 DEF ReturnGet, Leave, TypeOK, LockHeld, TodoHeld, JobThreads
  <2>3. JobThreads' /\ LoopServes'
    BY <1>7 DEF ReturnGet, Leave, TypeOK, LockHeld, JobThreads, LoopServes
  <2>4. Targets' /\ OpenersCall'
    BY <1>7 DEF ReturnGet, Leave, TypeOK, JobThreads, LoopServes, Targets, OpenersCall
  <2>5. ReadLocked'
    BY <1>7 DEF ReturnGet, Leave, TypeOK, JobThreads, Targets, OpenersCall, ReadLocked
  <2>6. Room'
    BY <1>7 DEF ReturnGet, Leave, TypeOK, LockHeld, JobThreads, Room
  <2>7. RemovedMeansZeroed'
    BY <1>7 DEF ReturnGet, Leave, TypeOK, TodoHeld, RemovedMeansZeroed
  <2> QED
    BY <2>1, <2>2, <2>3, <2>4, <2>5, <2>6, <2>7
<1>8. ASSUME NEW t \in Threads, ReturnOpen(t) PROVE SessionsInv'
  <2>0. /\ storeLock = t /\ todo[t] = {} /\ pc[t] = "hold"
        /\ IsFiniteSet(store') /\ Cardinality(store') <= MaxSessions
    <3>1. storeLock = t /\ todo[t] = {} /\ pc[t] = "hold" /\ t \in DOMAIN Opens
      BY <1>8 DEF ReturnOpen, Leave, LockHeld
    <3>2. IsFiniteSet(store) /\ Cardinality(store) < MaxSessions /\ Cardinality(store) \in Nat
      BY <3>1, FS_CardinalityType DEF Room
    <3>3. store' = store \cup {Opens[t]}
      BY <1>8 DEF ReturnOpen
    <3>4. /\ IsFiniteSet(store \cup {Opens[t]})
          /\ \/ Cardinality(store \cup {Opens[t]}) = Cardinality(store)
             \/ Cardinality(store \cup {Opens[t]}) = Cardinality(store) + 1
      BY <3>2, FS_AddElement
    <3> QED
      BY <3>1, <3>2, <3>3, <3>4, Constants
  <2>1. TypeOK'
    <3>1. JobTypes'
      BY <1>8 DEF ReturnOpen, Leave, TypeOK, JobTypes, JobStates
    <3>2. ThreadTypes'
      BY <1>8 DEF ReturnOpen, Leave, TypeOK, ThreadTypes
    <3>3. TodoTypes'
      BY <1>8 DEF ReturnOpen, Leave, TypeOK, TodoTypes
    <3>4. LockTypes'
      BY <1>8 DEF ReturnOpen, Leave, TypeOK, LockTypes
    <3>5. StoreTypes'
      BY <1>8, <2>0 DEF ReturnOpen, TypeOK, StoreTypes
    <3>6. TimeTypes'
      BY <1>8 DEF ReturnOpen, Leave, TypeOK, TimeTypes
    <3>7. HistTypes'
      BY <1>8 DEF ReturnOpen, Leave, TypeOK, HistTypes
    <3> QED
      BY <3>1, <3>2, <3>3, <3>4, <3>5, <3>6, <3>7 DEF TypeOK, JobTypes, ThreadTypes, TodoTypes, LockTypes, StoreTypes, TimeTypes, HistTypes
  <2>2. LockHeld' /\ TodoHeld'
    BY <1>8 DEF ReturnOpen, Leave, TypeOK, LockHeld, TodoHeld, JobThreads
  <2>3. JobThreads' /\ LoopServes'
    BY <1>8 DEF ReturnOpen, Leave, TypeOK, LockHeld, JobThreads, LoopServes
  <2>4. Targets' /\ OpenersCall'
    BY <1>8 DEF ReturnOpen, Leave, TypeOK, JobThreads, LoopServes, Targets, OpenersCall
  <2>5. ReadLocked'
    BY <1>8 DEF ReturnOpen, Leave, TypeOK, JobThreads, Targets, OpenersCall, ReadLocked
  <2>6. Room'
    BY <1>8, <2>0 DEF ReturnOpen, TypeOK, LockHeld, Room
  <2>7. RemovedMeansZeroed'
    BY <1>8 DEF ReturnOpen, Leave, TypeOK, TodoHeld, RemovedMeansZeroed
  <2> QED
    BY <2>1, <2>2, <2>3, <2>4, <2>5, <2>6, <2>7
<1>9. ASSUME NEW t \in Threads, ReturnClose(t) PROVE SessionsInv'
  <2>1. TypeOK'
    BY <1>9 DEF ReturnClose, Leave, TypeOK
  <2>2. LockHeld' /\ TodoHeld'
    BY <1>9 DEF ReturnClose, Leave, TypeOK, LockHeld, TodoHeld, JobThreads
  <2>3. JobThreads' /\ LoopServes'
    BY <1>9 DEF ReturnClose, Leave, TypeOK, LockHeld, JobThreads, LoopServes
  <2>4. Targets' /\ OpenersCall'
    BY <1>9 DEF ReturnClose, Leave, TypeOK, JobThreads, LoopServes, Targets, OpenersCall
  <2>5. ReadLocked'
    BY <1>9 DEF ReturnClose, Leave, TypeOK, JobThreads, Targets, OpenersCall, ReadLocked
  <2>6. Room'
    BY <1>9 DEF ReturnClose, Leave, TypeOK, LockHeld, JobThreads, Room
  <2>7. RemovedMeansZeroed'
    BY <1>9 DEF ReturnClose, Leave, TypeOK, TodoHeld, RemovedMeansZeroed
  <2> QED
    BY <2>1, <2>2, <2>3, <2>4, <2>5, <2>6, <2>7
<1>10. ASSUME NEW j \in Job, BeginRead(j) PROVE SessionsInv'
  <2>1. TypeOK'
    <3>1. JobTypes'
      BY <1>10 DEF BeginRead, TypeOK, JobTypes, JobStates
    <3>2. ThreadTypes'
      BY <1>10 DEF BeginRead, TypeOK, ThreadTypes
    <3>3. TodoTypes'
      BY <1>10 DEF BeginRead, TypeOK, TodoTypes
    <3>4. LockTypes'
      BY <1>10 DEF BeginRead, TypeOK, LockTypes
    <3>5. StoreTypes'
      BY <1>10 DEF BeginRead, TypeOK, StoreTypes
    <3>6. TimeTypes'
      BY <1>10 DEF BeginRead, TypeOK, TimeTypes
    <3>7. HistTypes'
      BY <1>10 DEF BeginRead, TypeOK, HistTypes
    <3> QED
      BY <3>1, <3>2, <3>3, <3>4, <3>5, <3>6, <3>7 DEF TypeOK, JobTypes, ThreadTypes, TodoTypes, LockTypes, StoreTypes, TimeTypes, HistTypes
  <2>2. LockHeld' /\ TodoHeld'
    BY <1>10 DEF BeginRead, TypeOK, LockHeld, TodoHeld, JobThreads
  <2>3. JobThreads' /\ LoopServes'
    BY <1>10 DEF BeginRead, TypeOK, LockHeld, JobThreads, LoopServes
  <2>4. Targets' /\ OpenersCall'
    BY <1>10 DEF BeginRead, TypeOK, JobThreads, LoopServes, Targets, OpenersCall
  <2>5. ReadLocked'
    BY <1>10 DEF BeginRead, TypeOK, JobThreads, Targets, OpenersCall, ReadLocked
  <2>6. Room'
    BY <1>10 DEF BeginRead, TypeOK, LockHeld, JobThreads, Room
  <2>7. RemovedMeansZeroed'
    BY <1>10 DEF BeginRead, TypeOK, TodoHeld, RemovedMeansZeroed
  <2> QED
    BY <2>1, <2>2, <2>3, <2>4, <2>5, <2>6, <2>7
<1>11. ASSUME NEW j \in Job, EndRead(j) PROVE SessionsInv'
  <2>1. TypeOK'
    <3>1. JobTypes'
      BY <1>11 DEF EndRead, TypeOK, JobTypes, JobStates, OpenersCall
    <3>2. ThreadTypes'
      BY <1>11 DEF EndRead, TypeOK, ThreadTypes
    <3>3. TodoTypes'
      BY <1>11 DEF EndRead, TypeOK, TodoTypes
    <3>4. LockTypes'
      BY <1>11 DEF EndRead, TypeOK, LockTypes
    <3>5. StoreTypes'
      BY <1>11 DEF EndRead, TypeOK, StoreTypes
    <3>6. TimeTypes'
      BY <1>11 DEF EndRead, TypeOK, TimeTypes
    <3>7. HistTypes'
      BY <1>11 DEF EndRead, TypeOK, HistTypes
    <3> QED
      BY <3>1, <3>2, <3>3, <3>4, <3>5, <3>6, <3>7 DEF TypeOK, JobTypes, ThreadTypes, TodoTypes, LockTypes, StoreTypes, TimeTypes, HistTypes
  <2>2. LockHeld' /\ TodoHeld'
    BY <1>11 DEF EndRead, TypeOK, LockHeld, TodoHeld, JobThreads
  <2>3. JobThreads' /\ LoopServes'
    BY <1>11 DEF EndRead, TypeOK, LockHeld, JobThreads, LoopServes
  <2>4. Targets' /\ OpenersCall'
    BY <1>11 DEF EndRead, TypeOK, JobThreads, LoopServes, Targets, OpenersCall
  <2>5. ReadLocked'
    BY <1>11 DEF EndRead, TypeOK, JobThreads, Targets, OpenersCall, ReadLocked
  <2>6. Room'
    BY <1>11 DEF EndRead, TypeOK, LockHeld, JobThreads, Room
  <2>7. RemovedMeansZeroed'
    BY <1>11 DEF EndRead, TypeOK, TodoHeld, RemovedMeansZeroed
  <2> QED
    BY <2>1, <2>2, <2>3, <2>4, <2>5, <2>6, <2>7
<1>12. ASSUME Tick PROVE SessionsInv'
  <2>1. TypeOK'
    BY <1>12 DEF Tick, TypeOK
  <2>2. LockHeld' /\ TodoHeld'
    BY <1>12 DEF Tick, TypeOK, LockHeld, TodoHeld, JobThreads
  <2>3. JobThreads' /\ LoopServes'
    BY <1>12 DEF Tick, TypeOK, LockHeld, JobThreads, LoopServes
  <2>4. Targets' /\ OpenersCall'
    BY <1>12 DEF Tick, TypeOK, JobThreads, LoopServes, Targets, OpenersCall
  <2>5. ReadLocked'
    BY <1>12 DEF Tick, TypeOK, JobThreads, Targets, OpenersCall, ReadLocked
  <2>6. Room'
    BY <1>12 DEF Tick, TypeOK, LockHeld, JobThreads, Room
  <2>7. RemovedMeansZeroed'
    BY <1>12 DEF Tick, TypeOK, TodoHeld, RemovedMeansZeroed
  <2> QED
    BY <2>1, <2>2, <2>3, <2>4, <2>5, <2>6, <2>7
<1>13. ASSUME NEW s \in Session, ChangeArchive(s) PROVE SessionsInv'
  <2>1. TypeOK'
    BY <1>13 DEF ChangeArchive, TypeOK
  <2>2. LockHeld' /\ TodoHeld'
    BY <1>13 DEF ChangeArchive, TypeOK, LockHeld, TodoHeld, JobThreads
  <2>3. JobThreads' /\ LoopServes'
    BY <1>13 DEF ChangeArchive, TypeOK, LockHeld, JobThreads, LoopServes
  <2>4. Targets' /\ OpenersCall'
    BY <1>13 DEF ChangeArchive, TypeOK, JobThreads, LoopServes, Targets, OpenersCall
  <2>5. ReadLocked'
    BY <1>13 DEF ChangeArchive, TypeOK, JobThreads, Targets, OpenersCall, ReadLocked
  <2>6. Room'
    BY <1>13 DEF ChangeArchive, TypeOK, LockHeld, JobThreads, Room
  <2>7. RemovedMeansZeroed'
    BY <1>13 DEF ChangeArchive, TypeOK, TodoHeld, RemovedMeansZeroed
  <2> QED
    BY <2>1, <2>2, <2>3, <2>4, <2>5, <2>6, <2>7
<1>14. ASSUME UNCHANGED vars PROVE SessionsInv'
  <2>1. TypeOK'
    BY <1>14 DEF vars, TypeOK
  <2>2. LockHeld' /\ TodoHeld'
    BY <1>14 DEF vars, TypeOK, LockHeld, TodoHeld, JobThreads
  <2>3. JobThreads' /\ LoopServes'
    BY <1>14 DEF vars, TypeOK, LockHeld, JobThreads, LoopServes
  <2>4. Targets' /\ OpenersCall'
    BY <1>14 DEF vars, TypeOK, JobThreads, LoopServes, Targets, OpenersCall
  <2>5. ReadLocked'
    BY <1>14 DEF vars, TypeOK, JobThreads, Targets, OpenersCall, ReadLocked
  <2>6. Room'
    BY <1>14 DEF vars, TypeOK, LockHeld, JobThreads, Room
  <2>7. RemovedMeansZeroed'
    BY <1>14 DEF vars, TypeOK, TodoHeld, RemovedMeansZeroed
  <2> QED
    BY <2>1, <2>2, <2>3, <2>4, <2>5, <2>6, <2>7
<1> HIDE DEF SessionsInv
<1> QED
  BY <1>1, <1>2, <1>3, <1>4, <1>5, <1>6, <1>7, <1>8, <1>9, <1>10, <1>11, <1>12, <1>13, <1>14 DEF Next, WorkerStep, StoreStep

LEMMA SessionsInit == Init => SessionsInv
<1> SUFFICES ASSUME Init PROVE SessionsInv
  OBVIOUS
<1>1. IsFiniteSet(store) /\ Cardinality(store) = 0
  BY FS_EmptySet DEF Init
<1>2. TypeOK
  BY <1>1, Constants DEF Init, TypeOK, JobStates
<1>3. LockHeld /\ TodoHeld /\ JobThreads /\ LoopServes /\ OpenersCall
  BY Constants DEF Init, LockHeld, TodoHeld, JobThreads, LoopServes, OpenersCall
<1>4. Targets /\ ReadLocked /\ RemovedMeansZeroed
  BY Constants DEF Init, Targets, ReadLocked, RemovedMeansZeroed
<1>5. Room
  BY <1>1, Constants DEF Init, Room
<1> QED
  BY <1>2, <1>3, <1>4, <1>5 DEF SessionsInv

LEMMA SessionsAlways == Spec => []SessionsInv
BY SessionsInit, SessionsStep, PTL DEF Spec

\* Whatever opens, expires, is evicted and is closed, the store never holds more
\* sessions than its capacity, and every state is well typed.
THEOREM CapacityAlwaysKept == Spec => []TypeOK
<1>1. SessionsInv => TypeOK
  BY DEF SessionsInv
<1> QED
  BY <1>1, SessionsAlways, PTL

\* No interleaving of lookups, evictions and closes clears a session's key while
\* a worker reads the archive with it: the reader has the operation lock, and
\* closing waits for it.
THEOREM KeyNeverClearedInUse == Spec => []KeyKeptWhileReading
<1>1. SessionsInv => KeyKeptWhileReading
  BY DEF SessionsInv, ReadLocked, KeyKeptWhileReading
<1> QED
  BY <1>1, SessionsAlways, PTL

\* No session leaves the store with its key in memory, but on the way to be
\* zeroed by the very call that removed it.
THEOREM NoneForgotten == Spec => []RemovedMeansZeroed
<1>1. SessionsInv => RemovedMeansZeroed
  BY DEF SessionsInv
<1> QED
  BY <1>1, SessionsAlways, PTL

-----------------------------------------------------------------------------
\* Why a reading job fails.

\* An id is handed out by one opening, and never comes back once it is popped.
FreshIds == \A j \in DOMAIN Opens : job[j] # "ok" => Opens[j] \notin opened
PoppedGone == cleared \cap store = {} /\ \A t \in Threads : todo[t] \cap store = {}

\* What a call or a job works with is a session that was handed out.
CallTargets ==
  /\ \A c \in Closer : pc[c] # "idle" => target[c] \in asked
  /\ pc[Loop] # "idle" => target[Loop] = target[serving]
  /\ \A j \in Readers : job[j] # "idle" => target[j] \in opened
  /\ \A j \in Readers : job[j] \in {"idle", "looking"} => stage[j] = 1

Accounted(j) == target[j] \in asked \cup pushed \cup changed \/ held[j] > IdleLimit

\* After its lookup a job's session is as young in the store as that lookup, or
\* there is an account of why it left.
LookedUp ==
  \A j \in Readers : job[j] \in {"queued", "working"} =>
    IF target[j] \in store THEN age[target[j]] <= held[j] ELSE Accounted(j)

AccountInv == FreshIds /\ PoppedGone /\ CallTargets /\ LookedUp /\ FailureAccounted

\* Every step keeps the account of failures.
LEMMA AccountStep ==
  ASSUME SessionsInv, AccountInv, [Next]_vars PROVE AccountInv'
<1> USE Constants DEF SessionsInv, AccountInv, jobVars, threadVars, lockVars, dataVars, histVars
<1>1. ASSUME NEW j \in Job, SubmitOpen(j) PROVE AccountInv'
  <2>1. FreshIds' /\ PoppedGone'
    BY <1>1 DEF SubmitOpen, TypeOK, TodoHeld, JobThreads, OpenersCall, LoopServes, FreshIds, PoppedGone
  <2>2. CallTargets'
    BY <1>1 DEF SubmitOpen, TypeOK, JobThreads, LoopServes, OpenersCall, CallTargets
  <2>3. LookedUp'
    BY <1>1 DEF SubmitOpen, TypeOK, JobThreads, LoopServes, OpenersCall, CallTargets, LookedUp, Accounted
  <2>4. FailureAccounted'
    BY <1>1 DEF SubmitOpen, TypeOK, JobThreads, LoopServes, OpenersCall, CallTargets, PoppedGone, LookedUp, Accounted, FailureAccounted
  <2> QED
    BY <2>1, <2>2, <2>3, <2>4
<1>2. ASSUME NEW j \in Job, NEW s \in Session, SubmitRead(j, s) PROVE AccountInv'
  <2>1. FreshIds' /\ PoppedGone'
    BY <1>2 DEF SubmitRead, TypeOK, TodoHeld, JobThreads, OpenersCall, LoopServes, FreshIds, PoppedGone
  <2>2. CallTargets'
    BY <1>2 DEF SubmitRead, TypeOK, JobThreads, LoopServes, OpenersCall, CallTargets
  <2>3. LookedUp'
    BY <1>2 DEF SubmitRead, TypeOK, JobThreads, LoopServes, OpenersCall, CallTargets, LookedUp, Accounted
  <2>4. FailureAccounted'
    BY <1>2 DEF SubmitRead, TypeOK, JobThreads, LoopServes, OpenersCall, CallTargets, PoppedGone, LookedUp, Accounted, FailureAccounted
  <2> QED
    BY <2>1, <2>2, <2>3, <2>4
<1>3. ASSUME NEW c \in Closer, NEW s \in Session, SubmitClose(c, s) PROVE AccountInv'
  <2>1. FreshIds' /\ PoppedGone'
    BY <1>3 DEF SubmitClose, TypeOK, TodoHeld, JobThreads, OpenersCall, LoopServes, FreshIds, PoppedGone
  <2>2. CallTargets'
    BY <1>3 DEF SubmitClose, TypeOK, JobThreads, LoopServes, OpenersCall, CallTargets
  <2>3. LookedUp'
    BY <1>3 DEF SubmitClose, TypeOK, JobThreads, LoopServes, OpenersCall, CallTargets, LookedUp, Accounted
  <2>4. FailureAccounted'
    BY <1>3 DEF SubmitClose, TypeOK, JobThreads, LoopServes, OpenersCall, CallTargets, PoppedGone, LookedUp, Accounted, FailureAccounted
  <2> QED
    BY <2>1, <2>2, <2>3, <2>4
<1>4. ASSUME NEW j \in Job, StartWorker(j) PROVE AccountInv'
  <2>1. FreshIds' /\ PoppedGone'
    BY <1>4 DEF StartWorker, TypeOK, TodoHeld, JobThreads, OpenersCall, LoopServes, FreshIds, PoppedGone
  <2>2. CallTargets'
    BY <1>4 DEF StartWorker, TypeOK, JobThreads, LoopServes, OpenersCall, CallTargets
  <2>3. LookedUp'
    BY <1>4 DEF StartWorker, TypeOK, JobThreads, LoopServes, OpenersCall, CallTargets, LookedUp, Accounted
  <2>4. FailureAccounted'
    BY <1>4 DEF StartWorker, TypeOK, JobThreads, LoopServes, OpenersCall, CallTargets, PoppedGone, LookedUp, Accounted, FailureAccounted
  <2> QED
    BY <2>1, <2>2, <2>3, <2>4
<1>5. ASSUME NEW t \in Threads, TakeStore(t) PROVE AccountInv'
  <2>1. FreshIds' /\ PoppedGone'
    BY <1>5 DEF TakeStore, TypeOK, TodoHeld, JobThreads, OpenersCall, LoopServes, FreshIds, PoppedGone
  <2>2. CallTargets'
    BY <1>5 DEF TakeStore, TypeOK, JobThreads, LoopServes, OpenersCall, CallTargets
  <2>3. LookedUp'
    <3> SUFFICES ASSUME NEW k \in Readers, job[k] \in {"queued", "working"}
                 PROVE  IF target[k] \in store' THEN age[target[k]] <= held[k] ELSE Accounted(k)'
      BY <1>5 DEF TakeStore, LookedUp
    <3> PICK gone \in Pops(t) :
          /\ store' = store \ gone
          /\ pushed' = IF t \in DOMAIN Opens THEN pushed \cup (gone \ Expired) ELSE pushed
      BY <1>5 DEF TakeStore
    <3>1. CASE target[k] \notin store \/ target[k] \in store'
      <4>1. target[k] \notin store => Accounted(k)
        BY DEF LookedUp
      <4>2. target[k] \in store' => target[k] \in store /\ age[target[k]] <= held[k]
        BY DEF LookedUp
      <4>3. target[k] \notin store => Accounted(k)'
        BY <1>5, <4>1 DEF TakeStore, Accounted
      <4> QED
        BY <3>1, <4>2, <4>3
    <3>2. CASE target[k] \in store /\ target[k] \in gone
      <4>1. age[target[k]] <= held[k] /\ age[target[k]] \in Nat /\ held[k] \in Nat
        BY <3>2 DEF LookedUp, TypeOK
      <4>2. target[k] \in Expired => held[k] > IdleLimit
        BY <4>1 DEF Expired
      <4>3. CASE t \in Closer
        <5>1. gone \subseteq {target[t]} /\ target[t] \in asked
          BY <1>5, <4>3 DEF Pops, TakeStore, CallTargets
        <5> QED
          BY <1>5, <3>2, <5>1 DEF TakeStore, Accounted
      <4>4. CASE t \in DOMAIN Opens
        <5>1. target[k] \in Expired \/ target[k] \in pushed'
          BY <3>2, <4>4
        <5> QED
          BY <1>5, <3>2, <4>2, <5>1 DEF TakeStore, Accounted
      <4>5. CASE t \notin Closer /\ t \notin DOMAIN Opens
        <5>1. target[k] \in Expired \/ target[k] \in changed
          BY <3>2, <4>5 DEF Pops
        <5> QED
          BY <1>5, <3>2, <4>2, <5>1 DEF TakeStore, Accounted
      <4> QED
        BY <4>3, <4>4, <4>5
    <3> QED
      BY <3>1, <3>2
  <2>4. FailureAccounted'
    BY <1>5 DEF TakeStore, TypeOK, JobThreads, LoopServes, OpenersCall, CallTargets, PoppedGone, LookedUp, Accounted, FailureAccounted
  <2> QED
    BY <2>1, <2>2, <2>3, <2>4
<1>6. ASSUME NEW t \in Threads, NEW s \in Session, CloseOne(t, s) PROVE AccountInv'
  <2>1. FreshIds' /\ PoppedGone'
    BY <1>6 DEF CloseOne, TypeOK, TodoHeld, JobThreads, OpenersCall, LoopServes, FreshIds, PoppedGone
  <2>2. CallTargets'
    BY <1>6 DEF CloseOne, TypeOK, JobThreads, LoopServes, OpenersCall, CallTargets
  <2>3. LookedUp'
    BY <1>6 DEF CloseOne, TypeOK, JobThreads, LoopServes, OpenersCall, CallTargets, LookedUp, Accounted
  <2>4. FailureAccounted'
    BY <1>6 DEF CloseOne, TypeOK, JobThreads, LoopServes, OpenersCall, CallTargets, PoppedGone, LookedUp, Accounted, FailureAccounted
  <2> QED
    BY <2>1, <2>2, <2>3, <2>4
<1>7. ASSUME NEW t \in Threads, ReturnGet(t) PROVE AccountInv'
  <2>1. FreshIds' /\ PoppedGone'
    BY <1>7 DEF ReturnGet, Leave, TypeOK, TodoHeld, JobThreads, OpenersCall, LoopServes, FreshIds, PoppedGone
  <2>2. CallTargets'
    BY <1>7 DEF ReturnGet, Leave, TypeOK, JobThreads, LoopServes, OpenersCall, CallTargets
  <2>3. LookedUp'
    BY <1>7 DEF ReturnGet, Leave, TypeOK, JobThreads, LoopServes, OpenersCall, CallTargets, LookedUp, Accounted
  <2>4. FailureAccounted'
    BY <1>7 DEF ReturnGet, Leave, TypeOK, JobThreads, LoopServes, OpenersCall, CallTargets, PoppedGone, LookedUp, Accounted, FailureAccounted
  <2> QED
    BY <2>1, <2>2, <2>3, <2>4
<1>8. ASSUME NEW t \in Threads, ReturnOpen(t) PROVE AccountInv'
  <2>0. /\ t \in DOMAIN Opens /\ Opens[t] \notin opened
        /\ todo \in [Threads -> SUBSET Session] /\ todo' = todo
        /\ store' = store \cup {Opens[t]} /\ opened' = opened \cup {Opens[t]}
        /\ cleared' = cleared /\ job' = [job EXCEPT ![t] = "ok"]
        /\ age' = age /\ held' = held /\ target' = target
    BY <1>8 DEF ReturnOpen, Leave, TypeOK, JobThreads, FreshIds
  <2>1. FreshIds' /\ PoppedGone'
    <3>1. FreshIds'
      BY <2>0, SessionsAssumption DEF TypeOK, FreshIds
    <3>2. PoppedGone'
      BY <2>0 DEF TypeOK, TodoHeld, PoppedGone
    <3> QED
      BY <3>1, <3>2
  <2>2. CallTargets'
    BY <1>8 DEF ReturnOpen, Leave, TypeOK, JobThreads, LoopServes, OpenersCall, CallTargets
  <2>3. LookedUp'
    <3> SUFFICES ASSUME NEW k \in Readers, job[k] \in {"queued", "working"}
                 PROVE  IF target[k] \in store' THEN age[target[k]] <= held[k] ELSE Accounted(k)'
      BY <2>0 DEF LookedUp, TypeOK
    <3>1. target[k] \in opened /\ target[k] # Opens[t]
      BY <2>0 DEF CallTargets
    <3>2. Accounted(k)' <=> Accounted(k)
      BY <1>8, <2>0 DEF ReturnOpen, Accounted
    <3> QED
      BY <2>0, <3>1, <3>2 DEF LookedUp
  <2>4. FailureAccounted'
    BY <1>8 DEF ReturnOpen, Leave, TypeOK, JobThreads, LoopServes, OpenersCall, CallTargets, PoppedGone, LookedUp, Accounted, FailureAccounted
  <2> QED
    BY <2>1, <2>2, <2>3, <2>4
<1>9. ASSUME NEW t \in Threads, ReturnClose(t) PROVE AccountInv'
  <2>1. FreshIds' /\ PoppedGone'
    BY <1>9 DEF ReturnClose, Leave, TypeOK, TodoHeld, JobThreads, OpenersCall, LoopServes, FreshIds, PoppedGone
  <2>2. CallTargets'
    BY <1>9 DEF ReturnClose, Leave, TypeOK, JobThreads, LoopServes, OpenersCall, CallTargets
  <2>3. LookedUp'
    BY <1>9 DEF ReturnClose, Leave, TypeOK, JobThreads, LoopServes, OpenersCall, CallTargets, LookedUp, Accounted
  <2>4. FailureAccounted'
    BY <1>9 DEF ReturnClose, Leave, TypeOK, JobThreads, LoopServes, OpenersCall, CallTargets, PoppedGone, LookedUp, Accounted, FailureAccounted
  <2> QED
    BY <2>1, <2>2, <2>3, <2>4
<1>10. ASSUME NEW j \in Job, BeginRead(j) PROVE AccountInv'
  <2>1. FreshIds' /\ PoppedGone'
    BY <1>10 DEF BeginRead, TypeOK, TodoHeld, JobThreads, OpenersCall, LoopServes, FreshIds, PoppedGone
  <2>2. CallTargets'
    BY <1>10 DEF BeginRead, TypeOK, JobThreads, LoopServes, OpenersCall, CallTargets
  <2>3. LookedUp'
    BY <1>10 DEF BeginRead, TypeOK, JobThreads, LoopServes, OpenersCall, CallTargets, LookedUp, Accounted
  <2>4. FailureAccounted'
    BY <1>10 DEF BeginRead, TypeOK, JobThreads, LoopServes, OpenersCall, CallTargets, PoppedGone, LookedUp, Accounted, FailureAccounted
  <2> QED
    BY <2>1, <2>2, <2>3, <2>4
<1>11. ASSUME NEW j \in Job, EndRead(j) PROVE AccountInv'
  <2>1. FreshIds' /\ PoppedGone'
    BY <1>11 DEF EndRead, TypeOK, TodoHeld, JobThreads, OpenersCall, LoopServes, FreshIds, PoppedGone
  <2>2. CallTargets'
    BY <1>11 DEF EndRead, TypeOK, JobThreads, LoopServes, OpenersCall, CallTargets
  <2>3. LookedUp'
    BY <1>11 DEF EndRead, TypeOK, JobThreads, LoopServes, OpenersCall, CallTargets, LookedUp, Accounted
  <2>4. FailureAccounted'
    BY <1>11 DEF EndRead, TypeOK, JobThreads, LoopServes, OpenersCall, CallTargets, PoppedGone, LookedUp, Accounted, FailureAccounted
  <2> QED
    BY <2>1, <2>2, <2>3, <2>4
<1>12. ASSUME Tick PROVE AccountInv'
  <2>1. FreshIds' /\ PoppedGone'
    BY <1>12 DEF Tick, TypeOK, TodoHeld, JobThreads, OpenersCall, LoopServes, FreshIds, PoppedGone
  <2>2. CallTargets'
    BY <1>12 DEF Tick, TypeOK, JobThreads, LoopServes, OpenersCall, CallTargets
  <2>3. LookedUp'
    <3> SUFFICES ASSUME NEW k \in Readers, job[k] \in {"queued", "working"}
                 PROVE  IF target[k] \in store THEN age'[target[k]] <= held'[k] ELSE Accounted(k)'
      BY <1>12 DEF Tick, LookedUp
    <3>1. target[k] \in Session /\ age[target[k]] \in Nat /\ held[k] \in Nat /\ IdleLimit \in Nat
      BY DEF TypeOK, CallTargets
    <3>2. held'[k] = IF held[k] <= IdleLimit THEN held[k] + 1 ELSE held[k]
      BY <1>12 DEF Tick, InUse
    <3>3. target[k] \in store =>
            age'[target[k]] = IF age[target[k]] <= IdleLimit THEN age[target[k]] + 1 ELSE age[target[k]]
      BY <1>12, <3>1 DEF Tick
    <3>4. CASE target[k] \in store
      <4>1. age[target[k]] <= held[k]
        BY <3>4 DEF LookedUp
      <4> QED
        BY <3>1, <3>2, <3>3, <3>4, <4>1
    <3>5. CASE target[k] \notin store
      <4>1. Accounted(k)
        BY <3>5 DEF LookedUp
      <4> QED
        BY <1>12, <3>1, <3>2, <3>5, <4>1 DEF Tick, Accounted
    <3> QED
      BY <3>4, <3>5
  <2>4. FailureAccounted'
    BY <1>12 DEF Tick, TypeOK, JobThreads, LoopServes, OpenersCall, CallTargets, PoppedGone, LookedUp, Accounted, FailureAccounted
  <2> QED
    BY <2>1, <2>2, <2>3, <2>4
<1>13. ASSUME NEW s \in Session, ChangeArchive(s) PROVE AccountInv'
  <2>1. FreshIds' /\ PoppedGone'
    BY <1>13 DEF ChangeArchive, TypeOK, TodoHeld, JobThreads, OpenersCall, LoopServes, FreshIds, PoppedGone
  <2>2. CallTargets'
    BY <1>13 DEF ChangeArchive, TypeOK, JobThreads, LoopServes, OpenersCall, CallTargets
  <2>3. LookedUp'
    BY <1>13 DEF ChangeArchive, TypeOK, JobThreads, LoopServes, OpenersCall, CallTargets, LookedUp, Accounted
  <2>4. FailureAccounted'
    BY <1>13 DEF ChangeArchive, TypeOK, JobThreads, LoopServes, OpenersCall, CallTargets, PoppedGone, LookedUp, Accounted, FailureAccounted
  <2> QED
    BY <2>1, <2>2, <2>3, <2>4
<1>14. ASSUME UNCHANGED vars PROVE AccountInv'
  <2>1. FreshIds' /\ PoppedGone'
    BY <1>14 DEF vars, TypeOK, TodoHeld, JobThreads, OpenersCall, LoopServes, FreshIds, PoppedGone
  <2>2. CallTargets'
    BY <1>14 DEF vars, TypeOK, JobThreads, LoopServes, OpenersCall, CallTargets
  <2>3. LookedUp'
    BY <1>14 DEF vars, TypeOK, JobThreads, LoopServes, OpenersCall, CallTargets, LookedUp, Accounted
  <2>4. FailureAccounted'
    BY <1>14 DEF vars, TypeOK, JobThreads, LoopServes, OpenersCall, CallTargets, PoppedGone, LookedUp, Accounted, FailureAccounted
  <2> QED
    BY <2>1, <2>2, <2>3, <2>4
<1> HIDE DEF SessionsInv, AccountInv
<1> QED
  BY <1>1, <1>2, <1>3, <1>4, <1>5, <1>6, <1>7, <1>8, <1>9, <1>10, <1>11, <1>12, <1>13, <1>14 DEF Next, WorkerStep, StoreStep

LEMMA AccountInit == Init => AccountInv
BY Constants DEF Init, AccountInv, FreshIds, PoppedGone, CallTargets, LookedUp, FailureAccounted

\* A read that found its session fails later only for a reason there is an account
\* of: a close, an eviction, a replaced archive, or the idle limit since its own
\* last lookup.
THEOREM FailuresAccounted == Spec => []FailureAccounted
<1>1. Spec => []AccountInv
  BY AccountInit, AccountStep, SessionsAlways, PTL DEF Spec
<1>2. AccountInv => FailureAccounted
  BY DEF AccountInv
<1> QED
  BY <1>1, <1>2, PTL
=============================================================================
