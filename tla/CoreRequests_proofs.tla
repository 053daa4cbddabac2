------------------------ MODULE CoreRequests_proofs -------------------------
(***************************************************************************)
(* Proofs about CoreRequests, for any set of requests and any mix of       *)
(* methods, faults, sweeps and shutdowns.                                  *)
(***************************************************************************)
EXTENDS CoreRequests, SequenceTheorems, TLAPS

-----------------------------------------------------------------------------
\* Types of what the pieces of a task step assign.

LEMMA RemoveAtType ==
  ASSUME NEW S, NEW s \in Seq(S), NEW i \in DOMAIN s
  PROVE  RemoveAt(s, i) \in Seq(S)
<1>1. i \in 1..Len(s) /\ Len(s) \in Nat
  BY LenProperties
<1>2. \A j \in 1..Len(s) : s[j] \in S
  BY ElementOfSeq
<1>3. SubSeq(s, 1, i-1) \in Seq(S) /\ SubSeq(s, i+1, Len(s)) \in Seq(S)
  BY <1>1, <1>2, SubSeqProperties
<1>4. QED
  BY <1>3, ConcatProperties DEF RemoveAt

LEMMA EnterWorkerType ==
  ASSUME TypeOK, NEW r \in Req, NEW owner \in Req \cup {NoReq},
         NEW ws \in Seq(Req), EnterWorker(r, owner, ws)
  PROVE  /\ lockOwner' \in Req \cup {NoReq}
         /\ waiters' \in Seq(Req)
         /\ thread' \in [Req -> {"none"} \cup AliveStates \cup Outcomes]
         /\ pc' \in [Req -> {"idle", "done"} \cup Suspended]
<1>1. CASE owner = NoReq /\ Overtakes(ws)
  BY <1>1 DEF TypeOK, EnterWorker, AliveStates, Suspended
<1>2. CASE ~(owner = NoReq /\ Overtakes(ws))
  <2>1. /\ lockOwner' = owner /\ waiters' = Append(ws, r)
        /\ thread' = thread /\ pc' = [pc EXCEPT ![r] = "waiting"]
    BY <1>2, Zenon DEF EnterWorker
  <2>2. Append(ws, r) \in Seq(Req)
    BY AppendProperties
  <2>3. QED BY <2>1, <2>2 DEF TypeOK, Suspended
<1>3. QED BY <1>1, <1>2

LEMMA SettleType ==
  ASSUME TypeOK, NEW r \in Req, NEW answer \in Replies \cup {"none"},
         Settle(r, answer) \/ SettleOutsideTry(r, answer)
  PROVE  /\ pc' \in [Req -> {"idle", "done"} \cup Suspended]
         /\ tasks' \subseteq Req
         /\ cancelPending' \in [Req -> BOOLEAN]
         /\ cancels' \in [Req -> 0..MaxCancels]
         /\ stage' \in [Req -> 1..2]
         /\ active' \subseteq Req
         /\ reply' \in [Req -> {"none"} \cup Replies]
<1>1. /\ pc' = [pc EXCEPT ![r] = "done"] /\ reply' = [reply EXCEPT ![r] = answer]
      /\ tasks' = tasks \ {r} /\ cancelPending' = [cancelPending EXCEPT ![r] = FALSE]
      /\ active' \in {active \ {r}, active \cup {r}}
      /\ UNCHANGED <<cancels, stage>>
  BY DEF Settle, SettleOutsideTry
<1>2. /\ pc' \in [Req -> {"idle", "done"} \cup Suspended]
      /\ reply' \in [Req -> {"none"} \cup Replies]
  BY <1>1 DEF TypeOK
<1>3. cancelPending' \in [Req -> BOOLEAN]
  BY <1>1 DEF TypeOK
<1>4. tasks' \subseteq Req /\ active' \subseteq Req /\ UNCHANGED <<cancels, stage>>
  BY <1>1 DEF TypeOK
<1>5. QED BY <1>2, <1>3, <1>4 DEF TypeOK

LEMMA CleanupType ==
  ASSUME TypeOK, NEW r \in Req,
         CleanupPreview(r) \/ CleanupInFinally(r) \/ CleanupInExcept(r)
  PROVE  /\ dir' \in [Req -> {"absent", "empty", "plain"}]
         /\ registered' \subseteq Req
         /\ lost' \subseteq Req
<1>1. CASE UNCHANGED previewVars
  BY <1>1 DEF TypeOK, previewVars
<1>2. CASE CleanupPreview(r)
  BY <1>2 DEF TypeOK, CleanupPreview
<1>3. QED BY <1>1, <1>2, Zenon DEF CleanupInFinally, CleanupInExcept

-----------------------------------------------------------------------------
\* TypeOK is inductive.

LEMMA TypeInit == Init => TypeOK
BY RequestsAssumption, EmptySeq
   DEF Init, TypeOK, NoSweep, Suspended

\* Steps of a request's task preserve the types.
LEMMA TypeTaskStep ==
  ASSUME TypeOK, NEW r \in Req, TaskStep(r)
  PROVE  TypeOK'
<1> USE DEF taskVars, lockVars, workerVars, previewVars, sweepVars
<1>1. CASE NeverStart(r)
  BY <1>1 DEF NeverStart, TypeOK
<1>2. CASE StartMutate(r)
  <2>1. EnterWorker(r, lockOwner, waiters)
    BY <1>2 DEF StartMutate
  <2>2. QED BY <1>2, <2>1, EnterWorkerType DEF StartMutate, TypeOK
<1>3. CASE StartRoute(r)
  BY <1>3 DEF StartRoute, TypeOK, Suspended
<1>4. CASE StartExtract(r)
  <2>1. CASE EnterWorker(r, lockOwner, waiters)
    BY <1>4, <2>1, EnterWorkerType DEF StartExtract, TypeOK, SettleOutsideTry, Replies
  <2>2. CASE /\ SettleOutsideTry(r, "error")
             /\ UNCHANGED <<lockVars, workerVars, previewVars>>
    BY <1>4, <2>2, SettleType DEF StartExtract, TypeOK, Replies
  <2>3. QED BY <1>4, <2>1, <2>2 DEF StartExtract
<1>5. CASE ReturnRoute(r)
  <2>1. CASE /\ EnterWorker(r, lockOwner, waiters)
             /\ UNCHANGED <<tasks, cancelPending, cancels, stage, reply, token, active>>
    BY <1>5, <2>1, EnterWorkerType DEF ReturnRoute, TypeOK
  <2>2. CASE /\ \E answer \in Replies : Settle(r, answer) \/ SettleOutsideTry(r, answer)
             /\ UNCHANGED <<lockVars, workerVars>>
    BY <1>5, <2>2, SettleType DEF ReturnRoute, TypeOK
  <2>3. QED BY <1>5, <2>1, <2>2 DEF ReturnRoute
<1>6. CASE Grant(r)
  BY <1>6, HeadTailProperties DEF Grant, TypeOK, AliveStates, Suspended
<1>7. CASE AbandonWait(r)
  <2>1. waiters' \in Seq(Req)
    BY <1>7, RemoveAtType DEF AbandonWait, LeaveQueue, TypeOK
  <2>2. Settle(r, "cancelled") /\ CleanupInFinally(r)
    BY <1>7 DEF AbandonWait, ExitCancelled
  <2>3. QED BY <1>7, <2>1, <2>2, SettleType, CleanupType DEF AbandonWait, TypeOK, Replies
<1>8. CASE ResumeOk(r)
  <2>1. CASE /\ stage[r] < LastStage(r) /\ stage' = [stage EXCEPT ![r] = @ + 1]
             /\ EnterWorker(r, NoReq, waiters)
             /\ UNCHANGED <<tasks, cancelPending, cancels, reply, active, previewVars>>
    <3>1. stage[r] + 1 \in 1..2
      <4>1. LastStage(r) \in 1..2
        BY DEF LastStage
      <4>2. stage[r] \in 1..2 /\ stage[r] < LastStage(r)
        BY <2>1 DEF TypeOK
      <4>3. QED BY <4>1, <4>2
    <3>2. stage' \in [Req -> 1..2]
      BY <2>1, <3>1 DEF TypeOK
    <3>3. QED BY <1>8, <2>1, <3>2, EnterWorkerType DEF ResumeOk, TypeOK
  <2>2. CASE /\ Settle(r, "result") \/ Settle(r, "error")
             /\ CleanupInFinally(r) /\ ReleaseLock /\ UNCHANGED thread
    BY <1>8, <2>2, SettleType, CleanupType DEF ResumeOk, ReleaseLock, TypeOK, Replies
  <2>3. QED BY <1>8, <2>1, <2>2 DEF ResumeOk
<1>9. CASE ResumeFailed(r)
  <2>1. Settle(r, "error") /\ (CleanupInFinally(r) \/ CleanupInExcept(r)) /\ ReleaseLock
    BY <1>9 DEF ResumeFailed
  <2>2. QED BY <1>9, <2>1, SettleType, CleanupType
            DEF ResumeFailed, ReleaseLock, TypeOK, Replies
<1>10. CASE Interrupt(r)
  <2>1. CASE Alive(r)
    BY <1>10, <2>1 DEF Interrupt, TypeOK, Suspended
  <2>2. CASE Settle(r, "cancelled") /\ CleanupInFinally(r) /\ ReleaseLock
    BY <1>10, <2>2, SettleType, CleanupType DEF Interrupt, ReleaseLock, TypeOK, Replies
  <2>3. QED BY <1>10, <2>1, <2>2 DEF Interrupt, ExitCancelled
<1>11. CASE Drain(r)
  <2>1. Settle(r, "cancelled") /\ CleanupInFinally(r) /\ ReleaseLock
    BY <1>11 DEF Drain, ExitCancelled
  <2>2. QED BY <1>11, <2>1, SettleType, CleanupType DEF Drain, ReleaseLock, TypeOK, Replies
<1>12. QED
  BY <1>1, <1>2, <1>3, <1>4, <1>5, <1>6, <1>7, <1>8, <1>9, <1>10, <1>11 DEF TaskStep

\* So do the steps of the worker threads ...
LEMMA TypeWorkerStep ==
  ASSUME TypeOK, NEW r \in Req, WorkerStep(r)
  PROVE  TypeOK'
<1> USE DEF taskVars, lockVars, previewVars, sweepVars
<1>1. CASE WorkerMakePreview(r)
  BY <1>1 DEF WorkerMakePreview, TypeOK, AliveStates
<1>2. CASE WorkerWrite(r)
  BY <1>2 DEF WorkerWrite, TypeOK, AliveStates
<1>3. CASE WorkerSucceed(r)
  BY <1>3 DEF WorkerSucceed, TypeOK, Outcomes
<1>4. CASE WorkerRaise(r)
  <2>1. thread' \in [Req -> {"none"} \cup AliveStates \cup Outcomes]
    BY <1>4 DEF WorkerRaise, TypeOK, Outcomes
  <2>2. CleanupPreview(r) \/ UNCHANGED previewVars
    BY <1>4 DEF WorkerRaise
  <2>3. dir' \in [Req -> {"absent", "empty", "plain"}] /\ registered' \subseteq Req /\ lost' \subseteq Req
    BY <2>2, CleanupType DEF TypeOK
  <2>4. QED BY <1>4, <2>1, <2>3 DEF WorkerRaise, TypeOK
<1>5. QED BY <1>1, <1>2, <1>3, <1>4 DEF WorkerStep

\* ... and those of the client, the sweeper and the shutdown.
LEMMA TypeOtherStep ==
  ASSUME TypeOK,
         \/ \E r \in Req : Arrive(r) \/ RequestCancel(r) \/ CleanupSession(r)
         \/ PreviewCancel \/ StartCleanupAll \/ SweepStep \/ ShutDown
  PROVE  TypeOK'
<1> USE DEF taskVars, lockVars, workerVars, previewVars, sweepVars
<1>1. ASSUME NEW r \in Req, Arrive(r) PROVE TypeOK'
  BY <1>1 DEF Arrive, TypeOK, Suspended
<1>2. ASSUME NEW r \in Req, RequestCancel(r) PROVE TypeOK'
  <2>1. cancels[r] + 1 \in 0..MaxCancels
    BY <1>2, RequestsAssumption DEF RequestCancel, TypeOK
  <2>2. cancels' \in [Req -> 0..MaxCancels]
    BY <1>2, <2>1 DEF RequestCancel, TypeOK
  <2>3. cancelPending' \in [Req -> BOOLEAN]
    BY <1>2 DEF RequestCancel, TypeOK
  <2>4. QED BY <1>2, <2>2, <2>3 DEF RequestCancel, TypeOK
<1>3. ASSUME NEW r \in Req, CleanupSession(r) PROVE TypeOK'
  BY <1>3, CleanupType DEF CleanupSession, TypeOK
<1>4. CASE PreviewCancel
  <2>1. token' \in [Req -> BOOLEAN]
    BY <1>4 DEF PreviewCancel, TypeOK
  <2>2. QED BY <1>4, <2>1 DEF PreviewCancel, TypeOK
<1>5. CASE StartCleanupAll
  BY <1>5, RequestsAssumption DEF StartCleanupAll, ListPreviews, TypeOK
<1>6. CASE StartStaleSweep
  BY <1>6 DEF StartStaleSweep, ListPreviews, TypeOK
<1>7. CASE BecomeReady
  BY <1>7 DEF BecomeReady, NoSweep, TypeOK
<1>8. CASE ForgetSessions
  BY <1>8 DEF ForgetSessions, NoSweep, TypeOK
<1>9. ASSUME NEW r \in Req, SweepOne(r) PROVE TypeOK'
  <2>1. PICK left \in {"absent", dir[r]} : dir' = [dir EXCEPT ![r] = left]
    BY <1>9 DEF SweepOne
  <2>2. dir' \in [Req -> {"absent", "empty", "plain"}]
    BY <2>1 DEF TypeOK
  <2>3. QED BY <1>9, <2>2 DEF SweepOne, TypeOK
<1>10. CASE ShutDown
  <2>1. cancelPending' \in [Req -> BOOLEAN]
    BY <1>10 DEF ShutDown, TypeOK
  <2>2. QED BY <1>10, <2>1 DEF ShutDown, TypeOK
<1>11. QED
  BY <1>1, <1>2, <1>3, <1>4, <1>5, <1>6, <1>7, <1>8, <1>9, <1>10 DEF SweepStep

\* Every variable of the request core keeps its type in every execution.
THEOREM TypeCorrect == Spec => []TypeOK
<1>1. TypeOK /\ [Next]_vars => TypeOK'
  <2> SUFFICES ASSUME TypeOK, [Next]_vars PROVE TypeOK'
    OBVIOUS
  <2>1. CASE UNCHANGED vars
    BY <2>1 DEF vars, taskVars, lockVars, workerVars, previewVars, sweepVars, TypeOK
  <2>2. CASE Next
    BY <2>2, TypeTaskStep, TypeWorkerStep, TypeOtherStep DEF Next
  <2>3. QED BY <2>1, <2>2
<1>2. QED BY TypeInit, <1>1, PTL DEF Spec

-----------------------------------------------------------------------------
\* One archive worker at a time, for a client that cancels a request at most
\* once.  The steps that touch the lock are of three shapes: a task enters a
\* worker, leaves with its answer, or starts to drain.

AtMostOneCancel == MaxCancels <= 1

\* Entering a worker: the lock was free, or was this request's own and its last
\* worker is over.
LEMMA SerialEnter ==
  ASSUME TypeOK, SerialInv, NEW r \in Req, NEW owner, NEW ws,
         EnterWorker(r, owner, ws), ~cancelPending[r],
         \/ owner = lockOwner /\ pc[r] \in {"scheduled", "route"}
         \/ owner = NoReq /\ pc[r] = "running" /\ ~Alive(r),
         UNCHANGED <<cancelPending, cancels, phase>>
  PROVE  SerialInv'
<1> USE DEF SerialInv, TypeOK
<1>1. phase # "stopping" /\ phase' # "stopping"
  BY DEF StoppingHalts
<1>2. \A q \in Req : Alive(q) => q # r /\ lockOwner = q
  BY <1>1 DEF WorkerWithinRequest, OwnerRuns
<1>3. CASE owner = NoReq /\ Overtakes(ws)
  <2>1. /\ lockOwner' = r /\ thread' = [thread EXCEPT ![r] = "run"]
        /\ pc' = [pc EXCEPT ![r] = "running"]
    BY <1>3, Zenon DEF EnterWorker
  <2>2. \A q \in Req : q # r => pc[q] \notin {"running", "draining"} /\ ~Alive(q)
    BY <1>2, <1>3, RequestsAssumption DEF OwnerRuns
  <2>3. OwnerRuns'
    BY <2>1, <2>2 DEF OwnerRuns
  <2>4. CancelSent' /\ DrainUndisturbed' /\ StoppingHalts'
    BY <1>1, <2>1 DEF CancelSent, DrainUndisturbed, StoppingHalts, Suspended
  <2>5. WorkerWithinRequest' /\ WorkersSerialized'
    BY <2>1, <2>2 DEF WorkerWithinRequest, WorkersSerialized, Alive
  <2>6. QED BY <2>3, <2>4, <2>5
<1>4. CASE ~(owner = NoReq /\ Overtakes(ws))
  <2>1. lockOwner' = owner /\ thread' = thread /\ pc' = [pc EXCEPT ![r] = "waiting"]
    BY <1>4, Zenon DEF EnterWorker
  <2>2. OwnerRuns'
    BY <2>1, RequestsAssumption DEF OwnerRuns
  <2>3. CancelSent' /\ DrainUndisturbed' /\ StoppingHalts'
    BY <1>1, <2>1 DEF CancelSent, DrainUndisturbed, StoppingHalts, Suspended
  <2>4. WorkerWithinRequest' /\ WorkersSerialized'
    BY <1>2, <2>1, RequestsAssumption
       DEF WorkerWithinRequest, WorkersSerialized, Alive, OwnerRuns
  <2>5. QED BY <2>2, <2>3, <2>4
<1>5. QED BY <1>3, <1>4

\* Leaving with an answer: outside the critical section, or giving the lock
\* back after the worker is over or while the core stops.
LEMMA SerialLeave ==
  ASSUME TypeOK, SerialInv, NEW r \in Req,
         pc' = [pc EXCEPT ![r] = "done"],
         cancelPending' = [cancelPending EXCEPT ![r] = FALSE],
         UNCHANGED <<thread, cancels, phase>>,
         \/ pc[r] \notin {"running", "draining"} /\ UNCHANGED lockOwner
         \/ /\ pc[r] \in {"running", "draining"}
            /\ ~Alive(r) \/ phase = "stopping"
            /\ lockOwner' = NoReq
  PROVE  SerialInv'
<1> USE DEF SerialInv, TypeOK
<1>1. OwnerRuns'
  BY RequestsAssumption DEF OwnerRuns
<1>2. CancelSent' /\ DrainUndisturbed' /\ StoppingHalts'
  BY DEF CancelSent, DrainUndisturbed, StoppingHalts, Suspended
<1>3. WorkerWithinRequest'
  BY DEF WorkerWithinRequest, Alive, OwnerRuns
<1>4. WorkersSerialized'
  BY DEF WorkersSerialized, Alive
<1>5. QED BY <1>1, <1>2, <1>3, <1>4

\* Steps that leave the lock, the tasks and their cancellations alone, and start
\* no worker.
LEMMA SerialKept ==
  ASSUME SerialInv,
         UNCHANGED <<pc, cancelPending, cancels, lockOwner, phase>>,
         \A r \in Req : Alive(r)' => Alive(r)
  PROVE  SerialInv'
BY DEF SerialInv, OwnerRuns, CancelSent, DrainUndisturbed, StoppingHalts,
       WorkerWithinRequest, WorkersSerialized

LEMMA SerialInit == Init => SerialInv
BY RequestsAssumption
   DEF Init, SerialInv, OwnerRuns, CancelSent, DrainUndisturbed, StoppingHalts,
       WorkerWithinRequest, WorkersSerialized, Alive, AliveStates

LEMMA SerialTaskStep ==
  ASSUME TypeOK, SerialInv, AtMostOneCancel, NEW r \in Req, TaskStep(r)
  PROVE  SerialInv'
<1> USE DEF taskVars, lockVars, workerVars, previewVars, sweepVars
<1>1. CASE NeverStart(r)
  BY <1>1, SerialLeave DEF NeverStart
<1>2. CASE StartMutate(r)
  BY <1>2, SerialEnter DEF StartMutate
<1>3. CASE StartRoute(r)
  BY <1>3 DEF StartRoute, TypeOK, SerialInv, OwnerRuns, CancelSent, DrainUndisturbed,
              StoppingHalts, WorkerWithinRequest, WorkersSerialized, Suspended, Alive
<1>4. CASE StartExtract(r)
  <2>1. CASE /\ EnterWorker(r, lockOwner, waiters)
             /\ UNCHANGED <<cancelPending, cancels>>
    BY <1>4, <2>1, SerialEnter DEF StartExtract
  <2>2. CASE SettleOutsideTry(r, "error") /\ UNCHANGED <<lockVars, workerVars>>
    BY <1>4, <2>2, SerialLeave DEF StartExtract, SettleOutsideTry
  <2>3. QED BY <1>4, <2>1, <2>2 DEF StartExtract
<1>5. CASE ReturnRoute(r)
  <2>1. CASE /\ ~cancelPending[r] /\ EnterWorker(r, lockOwner, waiters)
             /\ UNCHANGED <<cancelPending, cancels>>
    BY <1>5, <2>1, SerialEnter DEF ReturnRoute
  <2>2. CASE /\ \E answer \in Replies : Settle(r, answer) \/ SettleOutsideTry(r, answer)
             /\ UNCHANGED <<lockVars, workerVars>>
    BY <1>5, <2>2, SerialLeave DEF ReturnRoute, Settle, SettleOutsideTry
  <2>3. QED BY <1>5, <2>1, <2>2 DEF ReturnRoute
<1>6. CASE Grant(r)
  <2>1. phase # "stopping"
    BY <1>6 DEF Grant, SerialInv, StoppingHalts
  <2>2. \A q \in Req : pc[q] \notin {"running", "draining"} /\ ~Alive(q)
    BY <1>6, <2>1, RequestsAssumption
       DEF Grant, SerialInv, OwnerRuns, WorkerWithinRequest
  <2>3. /\ lockOwner' = r /\ thread' = [thread EXCEPT ![r] = "run"]
        /\ pc' = [pc EXCEPT ![r] = "running"]
        /\ UNCHANGED <<cancelPending, cancels, phase>>
    BY <1>6 DEF Grant
  <2>4. OwnerRuns' /\ WorkerWithinRequest' /\ WorkersSerialized'
    BY <2>2, <2>3 DEF TypeOK, OwnerRuns, WorkerWithinRequest, WorkersSerialized, Alive
  <2>5. CancelSent' /\ DrainUndisturbed' /\ StoppingHalts'
    BY <2>1, <2>3 DEF TypeOK, SerialInv, CancelSent, DrainUndisturbed, StoppingHalts, Suspended
  <2>6. QED BY <2>4, <2>5 DEF SerialInv
<1>7. CASE AbandonWait(r)
  BY <1>7, SerialLeave DEF AbandonWait, ExitCancelled, Settle
<1>8. CASE ResumeOk(r)
  <2>1. ~Alive(r)
    BY <1>8 DEF ResumeOk, Alive, AliveStates
  <2>2. CASE /\ EnterWorker(r, NoReq, waiters)
             /\ UNCHANGED <<cancelPending, cancels>>
    BY <1>8, <2>1, <2>2, SerialEnter DEF ResumeOk
  <2>3. CASE /\ Settle(r, "result") \/ Settle(r, "error")
             /\ ReleaseLock /\ UNCHANGED thread
    BY <1>8, <2>1, <2>3, SerialLeave DEF ResumeOk, ReleaseLock, Settle
  <2>4. QED BY <1>8, <2>2, <2>3 DEF ResumeOk
<1>9. CASE ResumeFailed(r)
  BY <1>9, SerialLeave DEF ResumeFailed, ReleaseLock, Settle, Alive, AliveStates
<1>10. CASE Interrupt(r)
  <2>1. CASE /\ Alive(r) /\ pc' = [pc EXCEPT ![r] = "draining"]
             /\ cancelPending' = [cancelPending EXCEPT ![r] = FALSE]
             /\ UNCHANGED <<cancels, lockVars>>
    <3>1. pc[r] = "running" /\ (cancels[r] > 0 \/ phase = "stopping")
          /\ UNCHANGED <<thread, phase>>
      BY <1>10 DEF Interrupt, SerialInv, CancelSent
    <3>2. OwnerRuns' /\ WorkerWithinRequest' /\ WorkersSerialized'
      BY <2>1, <3>1 DEF TypeOK, SerialInv, OwnerRuns, WorkerWithinRequest,
                        WorkersSerialized, Alive
    <3>3. CancelSent' /\ DrainUndisturbed' /\ StoppingHalts'
      BY <2>1, <3>1 DEF TypeOK, SerialInv, CancelSent, DrainUndisturbed,
                        StoppingHalts, Suspended
    <3>4. QED BY <3>2, <3>3 DEF SerialInv
  <2>2. CASE ~Alive(r) /\ ReleaseLock /\ ExitCancelled(r)
    BY <1>10, <2>2, SerialLeave DEF Interrupt, ReleaseLock, ExitCancelled, Settle
  <2>3. QED BY <1>10, <2>1, <2>2 DEF Interrupt
<1>11. CASE Drain(r)
  <2>1. ~Alive(r) \/ phase = "stopping"
    BY <1>11 DEF Drain, SerialInv, DrainUndisturbed
  <2>2. QED BY <1>11, <2>1, SerialLeave DEF Drain, ReleaseLock, ExitCancelled, Settle
<1>12. QED
  BY <1>1, <1>2, <1>3, <1>4, <1>5, <1>6, <1>7, <1>8, <1>9, <1>10, <1>11 DEF TaskStep

LEMMA SerialOtherStep ==
  ASSUME TypeOK, SerialInv, AtMostOneCancel,
         \/ \E r \in Req : Arrive(r) \/ RequestCancel(r) \/ CleanupSession(r)
         \/ \E r \in Req : WorkerStep(r)
         \/ PreviewCancel \/ StartCleanupAll \/ SweepStep \/ ShutDown
  PROVE  SerialInv'
<1> USE DEF taskVars, lockVars, workerVars, previewVars, sweepVars
<1>1. ASSUME NEW r \in Req, Arrive(r) PROVE SerialInv'
  BY <1>1 DEF Arrive, TypeOK, SerialInv, OwnerRuns, CancelSent, DrainUndisturbed,
              StoppingHalts, WorkerWithinRequest, WorkersSerialized, Suspended, Alive
<1>2. ASSUME NEW r \in Req, RequestCancel(r) PROVE SerialInv'
  <2>1. cancels[r] = 0 /\ cancels' = [cancels EXCEPT ![r] = 1] /\ phase # "stopping"
    <3>1. cancels[r] \in Nat /\ MaxCancels \in Nat /\ cancels[r] < MaxCancels
      BY <1>2, RequestsAssumption DEF RequestCancel, TypeOK
    <3>2. cancels[r] = 0
      BY <3>1 DEF AtMostOneCancel
    <3>3. QED BY <1>2, <3>2 DEF RequestCancel
  <2>2. cancelPending' = [cancelPending EXCEPT ![r] = pc[r] \in Suspended]
        /\ UNCHANGED <<pc, lockOwner, thread, phase>>
    BY <1>2 DEF RequestCancel
  <2>3. OwnerRuns' /\ WorkerWithinRequest' /\ WorkersSerialized'
    <3>1. OwnerRuns' /\ WorkersSerialized'
      BY <2>2 DEF SerialInv, OwnerRuns, WorkersSerialized, Alive
    <3>2. WorkerWithinRequest'
      BY <2>2 DEF SerialInv, WorkerWithinRequest, Alive
    <3>3. QED BY <3>1, <3>2
  <2>4. CancelSent'
    BY <2>1, <2>2 DEF TypeOK, SerialInv, CancelSent
  <2>5. DrainUndisturbed' /\ StoppingHalts'
    BY <2>1, <2>2 DEF TypeOK, SerialInv, DrainUndisturbed, StoppingHalts
  <2>6. QED BY <2>3, <2>4, <2>5 DEF SerialInv
<1>3. ASSUME NEW r \in Req, WorkerStep(r) PROVE SerialInv'
  <2>1. /\ Alive(r) /\ \A q \in Req : q # r => thread'[q] = thread[q]
        /\ UNCHANGED <<pc, cancelPending, cancels, lockOwner, phase>>
    BY <1>3 DEF WorkerStep, WorkerMakePreview, WorkerWrite, WorkerSucceed, WorkerRaise,
                Alive, AliveStates, TypeOK
  <2>2. QED BY <2>1, SerialKept DEF Alive
<1>4. CASE \/ \E r \in Req : CleanupSession(r)
           \/ PreviewCancel \/ StartCleanupAll \/ StartStaleSweep
           \/ ForgetSessions \/ \E r \in Req : SweepOne(r)
  BY <1>4, SerialKept
     DEF CleanupSession, PreviewCancel, StartCleanupAll, StartStaleSweep,
         ForgetSessions, SweepOne, Alive
<1>5. CASE BecomeReady
  BY <1>5 DEF BecomeReady, SerialInv, OwnerRuns, CancelSent, DrainUndisturbed,
              StoppingHalts, WorkerWithinRequest, WorkersSerialized, Alive
<1>6. CASE ShutDown
  <2>1. /\ phase' = "stopping" /\ cancelPending' = [r \in Req |-> pc[r] \in Suspended]
        /\ UNCHANGED <<pc, cancels, lockOwner, thread>>
    BY <1>6 DEF ShutDown
  <2>2. CancelSent'
    BY <2>1 DEF CancelSent
  <2>3. StoppingHalts'
    BY <2>1 DEF StoppingHalts, TypeOK
  <2>4. QED BY <2>1, <2>2, <2>3 DEF SerialInv, OwnerRuns, DrainUndisturbed,
                                    WorkerWithinRequest, WorkersSerialized, Alive
<1>7. QED BY <1>1, <1>2, <1>3, <1>4, <1>5, <1>6 DEF SweepStep

LEMMA SerialAlways ==
  ASSUME AtMostOneCancel
  PROVE  Spec => [](TypeOK /\ SerialInv)
<1>1. TypeOK /\ SerialInv /\ [Next]_vars => SerialInv'
  <2> SUFFICES ASSUME TypeOK, SerialInv, [Next]_vars PROVE SerialInv'
    OBVIOUS
  <2>1. CASE UNCHANGED vars
    BY <2>1, SerialKept DEF vars, taskVars, lockVars, workerVars, sweepVars, Alive
  <2>2. CASE Next
    BY <2>2, SerialTaskStep, SerialOtherStep DEF Next
  <2>3. QED BY <2>1, <2>2
<1>2. QED BY TypeCorrect, SerialInit, <1>1, PTL DEF Spec

\* If no request is cancelled twice, archive workers never overlap, through
\* cancellations, faults, sweeps and shutdowns (_run_crypto_worker).
THEOREM WorkersNeverOverlap ==
  ASSUME AtMostOneCancel
  PROVE  Spec => []WorkersSerialized
<1>1. SerialInv => WorkersSerialized
  BY DEF SerialInv
<1>2. QED BY SerialAlways, <1>1, PTL

\* ... and no worker outlives the handler that awaits it.
THEOREM WorkersStayWithinRequests ==
  ASSUME AtMostOneCancel
  PROVE  Spec => []WorkerWithinRequest
<1>1. SerialInv => WorkerWithinRequest
  BY DEF SerialInv
<1>2. QED BY SerialAlways, <1>1, PTL

-----------------------------------------------------------------------------
\* An accepted cancellation wins, however often the client repeats it.

LEMMA CancelInit == Init => CancelInv
BY DEF Init, CancelInv

\* A task that goes on to another await had no cancellation to honour.
LEMMA CancelMove ==
  ASSUME TypeOK, CancelInv, NEW r \in Req, NEW next \in Suspended,
         pc[r] \in Suspended \ {"draining"}, ~cancelPending[r],
         pc' = [pc EXCEPT ![r] = next],
         UNCHANGED <<tasks, cancelPending, cancels, reply>>
  PROVE  CancelInv'
BY DEF TypeOK, CancelInv, Suspended

LEMMA CancelEnter ==
  ASSUME TypeOK, CancelInv, NEW r \in Req, NEW owner, NEW ws, EnterWorker(r, owner, ws),
         pc[r] \in Suspended \ {"draining"}, ~cancelPending[r],
         UNCHANGED <<tasks, cancelPending, cancels, reply>>
  PROVE  CancelInv'
<1>1. \/ pc' = [pc EXCEPT ![r] = "running"]
      \/ pc' = [pc EXCEPT ![r] = "waiting"]
  BY Zenon DEF EnterWorker
<1>2. QED BY <1>1, CancelMove DEF Suspended

\* An answer other than a result may follow a cancellation, a result may not.
LEMMA CancelSettle ==
  ASSUME TypeOK, CancelInv, NEW r \in Req, NEW answer \in Replies,
         Settle(r, answer) \/ SettleOutsideTry(r, answer),
         pc[r] \in Suspended,
         answer # "result" \/ (~cancelPending[r] /\ pc[r] # "draining")
  PROVE  CancelInv'
<1>1. /\ pc' = [pc EXCEPT ![r] = "done"]
      /\ reply' = [reply EXCEPT ![r] = answer]
      /\ tasks' = tasks \ {r}
      /\ cancelPending' = [cancelPending EXCEPT ![r] = FALSE]
      /\ UNCHANGED cancels
  BY DEF Settle, SettleOutsideTry
<1>2. answer = "result" => ~(cancels[r] > 0)
  BY DEF CancelInv, Suspended
<1>3. QED BY <1>1, <1>2 DEF TypeOK, CancelInv, Suspended

LEMMA CancelTaskStep ==
  ASSUME TypeOK, CancelInv, NEW r \in Req, TaskStep(r)
  PROVE  CancelInv'
<1> USE DEF Suspended, Replies
<1>1. CASE NeverStart(r)
  BY <1>1 DEF NeverStart, TypeOK, CancelInv
<1>2. CASE StartMutate(r)
  BY <1>2, CancelEnter DEF StartMutate
<1>3. CASE StartRoute(r)
  BY <1>3, CancelMove DEF StartRoute
<1>4. CASE StartExtract(r)
  <2>1. CASE /\ EnterWorker(r, lockOwner, waiters)
             /\ UNCHANGED <<tasks, cancelPending, cancels, reply>>
    BY <1>4, <2>1, CancelEnter DEF StartExtract
  <2>2. CASE SettleOutsideTry(r, "error")
    BY <1>4, <2>2, CancelSettle DEF StartExtract
  <2>3. QED BY <1>4, <2>1, <2>2 DEF StartExtract
<1>5. CASE ReturnRoute(r)
  <2>1. CASE /\ ~cancelPending[r] /\ EnterWorker(r, lockOwner, waiters)
             /\ UNCHANGED <<tasks, cancelPending, cancels, reply>>
    BY <1>5, <2>1, CancelEnter DEF ReturnRoute
  <2>2. CASE \E answer \in {"cancelled", "error"} :
               Settle(r, answer) \/ SettleOutsideTry(r, answer)
    BY <1>5, <2>2, CancelSettle DEF ReturnRoute
  <2>3. QED BY <1>5, <2>1, <2>2 DEF ReturnRoute
<1>6. CASE Grant(r)
  BY <1>6, CancelMove DEF Grant
<1>7. CASE AbandonWait(r)
  BY <1>7, CancelSettle DEF AbandonWait, ExitCancelled
<1>8. CASE ResumeOk(r)
  <2>1. CASE /\ EnterWorker(r, NoReq, waiters)
             /\ UNCHANGED <<tasks, cancelPending, cancels, reply>>
    BY <1>8, <2>1, CancelEnter DEF ResumeOk
  <2>2. CASE Settle(r, "result") \/ Settle(r, "error")
    BY <1>8, <2>2, CancelSettle DEF ResumeOk
  <2>3. QED BY <1>8, <2>1, <2>2 DEF ResumeOk
<1>9. CASE ResumeFailed(r)
  BY <1>9, CancelSettle DEF ResumeFailed
<1>10. CASE Interrupt(r)
  <2>1. CASE /\ pc' = [pc EXCEPT ![r] = "draining"]
             /\ cancelPending' = [cancelPending EXCEPT ![r] = FALSE]
             /\ UNCHANGED <<tasks, cancels, reply>>
    BY <1>10, <2>1 DEF Interrupt, TypeOK, CancelInv
  <2>2. CASE ExitCancelled(r)
    BY <1>10, <2>2, CancelSettle DEF Interrupt, ExitCancelled
  <2>3. QED BY <1>10, <2>1, <2>2 DEF Interrupt
<1>11. CASE Drain(r)
  BY <1>11, CancelSettle DEF Drain, ExitCancelled
<1>12. QED
  BY <1>1, <1>2, <1>3, <1>4, <1>5, <1>6, <1>7, <1>8, <1>9, <1>10, <1>11 DEF TaskStep

LEMMA CancelOtherStep ==
  ASSUME TypeOK, CancelInv,
         \/ \E r \in Req : Arrive(r) \/ RequestCancel(r) \/ CleanupSession(r)
         \/ \E r \in Req : WorkerStep(r)
         \/ PreviewCancel \/ StartCleanupAll \/ SweepStep \/ ShutDown
  PROVE  CancelInv'
<1>1. ASSUME NEW r \in Req, Arrive(r) PROVE CancelInv'
  BY <1>1 DEF Arrive, TypeOK, CancelInv, Suspended
<1>2. ASSUME NEW r \in Req, RequestCancel(r) PROVE CancelInv'
  <2>1. /\ r \in tasks /\ cancelPending' = [cancelPending EXCEPT ![r] = pc[r] \in Suspended]
        /\ \A q \in Req : q # r => cancels'[q] = cancels[q]
        /\ UNCHANGED <<pc, tasks, reply>>
    BY <1>2 DEF RequestCancel, TypeOK
  <2>2. pc[r] \in Suspended \/ (pc[r] = "done" /\ reply[r] = "none")
    BY <2>1 DEF TypeOK, CancelInv
  <2>3. QED BY <2>1, <2>2 DEF TypeOK, CancelInv
<1>3. CASE UNCHANGED <<pc, tasks, cancelPending, cancels, reply>>
  BY <1>3 DEF CancelInv
<1>4. CASE ShutDown
  BY <1>4 DEF ShutDown, TypeOK, CancelInv, Suspended
<1>5. QED
  <2> USE DEF taskVars
  <2>1. ASSUME NEW r \in Req, CleanupSession(r) \/ WorkerStep(r) \/ SweepOne(r)
        PROVE  UNCHANGED <<pc, tasks, cancelPending, cancels, reply>>
    BY <2>1 DEF CleanupSession, WorkerStep, WorkerMakePreview, WorkerWrite,
                WorkerSucceed, WorkerRaise, SweepOne
  <2>2. ASSUME PreviewCancel \/ StartCleanupAll \/ StartStaleSweep \/ BecomeReady
               \/ ForgetSessions
        PROVE  UNCHANGED <<pc, tasks, cancelPending, cancels, reply>>
    BY <2>2 DEF PreviewCancel, StartCleanupAll, StartStaleSweep, BecomeReady, ForgetSessions
  <2>3. QED BY <1>1, <1>2, <1>3, <1>4, <2>1, <2>2 DEF SweepStep

LEMMA CancelAlways == Spec => [](TypeOK /\ CancelInv)
<1>1. TypeOK /\ CancelInv /\ [Next]_vars => CancelInv'
  <2> SUFFICES ASSUME TypeOK, CancelInv, [Next]_vars PROVE CancelInv'
    OBVIOUS
  <2>1. CASE UNCHANGED vars
    BY <2>1 DEF vars, taskVars, CancelInv
  <2>2. CASE Next
    BY <2>2, CancelTaskStep, CancelOtherStep DEF Next
  <2>3. QED BY <2>1, <2>2
<1>2. QED BY TypeCorrect, CancelInit, <1>1, PTL DEF Spec

\* A request whose cancellation was accepted is never answered with a result,
\* for any number of request.cancel calls and through the shutdown.
THEOREM CancellationWins == Spec => []CancelWins
<1>1. TypeOK /\ CancelInv => CancelWins
  <2> SUFFICES ASSUME TypeOK, CancelInv, NEW r \in Req, reply[r] = "result"
               PROVE  cancels[r] = 0
    BY DEF CancelWins
  <2>1. pc[r] = "done" /\ ~(cancels[r] > 0)
    BY DEF CancelInv, Suspended
  <2>2. cancels[r] \in Nat
    BY RequestsAssumption DEF TypeOK
  <2>3. QED BY <2>1, <2>2
<1>2. QED BY CancelAlways, <1>1, PTL

-----------------------------------------------------------------------------
\* What stops a request, and which tokens stay: for any number of cancellations.

\* A thread starts only once its request has the lock, a result follows a worker
\* that succeeded, and a token is registered by the handlers that may leave it.
RequestOK(r) ==
  /\ cancelPending[r] => pc[r] \in Suspended /\ (cancels[r] > 0 \/ phase = "stopping")
  /\ pc[r] \in Suspended => r \in tasks
  /\ pc[r] \in {"idle", "scheduled", "route"} => thread[r] = "none"
  /\ pc[r] = "waiting" => \/ thread[r] = "none"
                          \/ thread[r] = "ok" /\ LastStage(r) = 2
  /\ pc[r] \in {"running", "draining"} => thread[r] # "none"
  /\ reply[r] = "result" => pc[r] = "done" /\ thread[r] = "ok"
  /\ r \in active =>
       /\ Kind[r] = "open" \/ DecryptLike(r) \/ ExtractLike(r)
       /\ \/ pc[r] \in Suspended \ {"scheduled"}
          \/ /\ pc[r] = "done" /\ reply[r] # "result" /\ thread[r] = "none"
             /\ Kind[r] = "open" \/ ExtractLike(r)
  /\ Kind[r] = "mutate" /\ token[r] => cancels[r] > 0 \/ phase = "stopping"
  /\ pc[r] = "done" /\ reply[r] = "none" =>
       r \in tasks /\ thread[r] = "none" /\ (cancels[r] > 0 \/ phase = "stopping")

RequestInv == \A r \in Req : RequestOK(r)

\* A step of one request leaves what the invariant says of the others alone.
LEMMA RequestFrame ==
  ASSUME NEW q \in Req, RequestOK(q),
         pc'[q] = pc[q], cancelPending'[q] = cancelPending[q], cancels'[q] = cancels[q],
         thread'[q] = thread[q], reply'[q] = reply[q],
         token'[q] => token[q] \/ Kind[q] # "mutate",
         q \in tasks' <=> q \in tasks, q \in active' <=> q \in active,
         phase = "stopping" => phase' = "stopping"
  PROVE  RequestOK(q)'
BY DEF RequestOK, DecryptLike, ExtractLike, LastStage

LEMMA RequestInit == Init => RequestInv
BY DEF Init, RequestInv, RequestOK, Suspended

LEMMA RequestEnter ==
  ASSUME TypeOK, RequestInv, CancelInv, NEW r \in Req, NEW owner, NEW ws,
         EnterWorker(r, owner, ws), ~cancelPending[r],
         \/ pc[r] \in {"scheduled", "route"}
         \/ pc[r] = "running" /\ thread[r] = "ok" /\ LastStage(r) = 2,
         \/ UNCHANGED active
         \/ active' = active \cup {r} /\ ExtractLike(r),
         pc[r] = "scheduled" \/ UNCHANGED active,
         UNCHANGED <<tasks, cancelPending, cancels, reply, token, phase>>
  PROVE  RequestInv'
<1>1. CASE owner = NoReq /\ Overtakes(ws)
  <2>1. /\ pc' = [pc EXCEPT ![r] = "running"] /\ thread' = [thread EXCEPT ![r] = "run"]
    BY <1>1, Zenon DEF EnterWorker
  <2>2. ASSUME NEW q \in Req, q # r PROVE RequestOK(q)'
    BY <2>1, <2>2, RequestFrame DEF RequestInv, TypeOK
  <2>3. RequestOK(r)'
    BY <2>1 DEF RequestInv, RequestOK, CancelInv, TypeOK, Suspended, DecryptLike,
                ExtractLike, LastStage
  <2>4. QED BY <2>2, <2>3 DEF RequestInv
<1>2. CASE ~(owner = NoReq /\ Overtakes(ws))
  <2>1. /\ pc' = [pc EXCEPT ![r] = "waiting"] /\ thread' = thread
    BY <1>2, Zenon DEF EnterWorker
  <2>2. ASSUME NEW q \in Req, q # r PROVE RequestOK(q)'
    BY <2>1, <2>2, RequestFrame DEF RequestInv, TypeOK
  <2>3. RequestOK(r)'
    BY <2>1 DEF RequestInv, RequestOK, CancelInv, TypeOK, Suspended, DecryptLike,
                ExtractLike, LastStage
  <2>4. QED BY <2>2, <2>3 DEF RequestInv
<1>3. QED BY <1>1, <1>2

LEMMA RequestSettle ==
  ASSUME TypeOK, RequestInv, CancelInv, NEW r \in Req, NEW answer \in Replies,
         \/ Settle(r, answer)
         \/ /\ SettleOutsideTry(r, answer) /\ answer # "result"
            /\ pc[r] \in {"scheduled", "route"}
            /\ Kind[r] = "open" \/ ExtractLike(r),
         pc[r] \in Suspended,
         answer = "result" => thread[r] = "ok",
         token'[r] => token[r] \/ cancelPending[r],
         \A q \in Req : q # r => token'[q] = token[q],
         UNCHANGED <<thread, phase>>
  PROVE  RequestInv'
<1>1. /\ pc' = [pc EXCEPT ![r] = "done"]
      /\ reply' = [reply EXCEPT ![r] = answer]
      /\ tasks' = tasks \ {r}
      /\ cancelPending' = [cancelPending EXCEPT ![r] = FALSE]
      /\ UNCHANGED cancels
  BY DEF Settle, SettleOutsideTry
<1>2. ASSUME NEW q \in Req, q # r PROVE RequestOK(q)'
  <2>1. q \in active' <=> q \in active
    BY <1>2 DEF Settle, SettleOutsideTry
  <2>2. QED BY <1>1, <1>2, <2>1, RequestFrame DEF RequestInv, TypeOK
<1>3. RequestOK(r)'
  <2>1. r \notin active' \/ (/\ r \in active' /\ answer # "result" /\ thread[r] = "none"
                             /\ Kind[r] = "open" \/ ExtractLike(r))
    BY DEF Settle, SettleOutsideTry, RequestInv, RequestOK
  <2>2. /\ pc'[r] = "done" /\ reply'[r] = answer /\ ~cancelPending'[r]
        /\ thread'[r] = thread[r] /\ cancels'[r] = cancels[r] /\ answer # "none"
    BY <1>1 DEF TypeOK, Replies
  <2>3. Kind[r] = "mutate" /\ token'[r] => cancels[r] > 0 \/ phase = "stopping"
    BY DEF RequestInv, RequestOK
  <2>4. QED BY <2>1, <2>2, <2>3 DEF RequestOK, Suspended, DecryptLike, ExtractLike
<1>4. QED BY <1>2, <1>3 DEF RequestInv

LEMMA RequestTaskStep ==
  ASSUME TypeOK, RequestInv, CancelInv, NEW r \in Req, TaskStep(r)
  PROVE  RequestInv'
<1> USE DEF taskVars, lockVars, workerVars, previewVars, sweepVars
<1>1. CASE NeverStart(r)
  <2>0. /\ pc[r] = "scheduled" /\ cancelPending[r] /\ pc' = [pc EXCEPT ![r] = "done"]
        /\ cancelPending' = [cancelPending EXCEPT ![r] = FALSE]
        /\ UNCHANGED <<tasks, cancels, reply, thread, token, active, phase>>
    BY <1>1 DEF NeverStart
  <2>1. ASSUME NEW q \in Req, q # r PROVE RequestOK(q)'
    BY <2>0, <2>1, RequestFrame DEF RequestInv, TypeOK
  <2>2. RequestOK(r)'
    BY <2>0 DEF RequestInv, RequestOK, TypeOK, Suspended, DecryptLike, ExtractLike
  <2>3. QED BY <2>1, <2>2 DEF RequestInv
<1>2. CASE StartMutate(r)
  BY <1>2, RequestEnter DEF StartMutate
<1>3. CASE StartRoute(r)
  <2>0. /\ pc[r] = "scheduled" /\ ~cancelPending[r] /\ pc' = [pc EXCEPT ![r] = "route"]
        /\ active' = active \cup {r} /\ (DecryptLike(r) \/ Kind[r] = "open")
        /\ UNCHANGED <<tasks, cancelPending, cancels, reply, thread, token, phase>>
    BY <1>3 DEF StartRoute
  <2>1. ASSUME NEW q \in Req, q # r PROVE RequestOK(q)'
    BY <2>0, <2>1, RequestFrame DEF RequestInv, TypeOK
  <2>2. RequestOK(r)'
    BY <2>0 DEF RequestInv, RequestOK, CancelInv, TypeOK, Suspended, DecryptLike, ExtractLike
  <2>3. QED BY <2>1, <2>2 DEF RequestInv
<1>4. CASE StartExtract(r)
  <2>0. pc[r] = "scheduled" /\ ~cancelPending[r] /\ ExtractLike(r) /\ UNCHANGED phase
    BY <1>4 DEF StartExtract
  <2>1. CASE /\ EnterWorker(r, lockOwner, waiters) /\ active' = active \cup {r}
             /\ UNCHANGED <<tasks, cancelPending, cancels, reply, token>>
    BY <2>0, <2>1, RequestEnter
  <2>2. CASE SettleOutsideTry(r, "error") /\ UNCHANGED <<lockVars, workerVars>>
    BY <2>0, <2>2, RequestSettle DEF Suspended, Replies
  <2>3. QED BY <1>4, <2>1, <2>2 DEF StartExtract
<1>5. CASE ReturnRoute(r)
  <2>0. pc[r] = "route" /\ UNCHANGED phase
    BY <1>5 DEF ReturnRoute
  <2>1. CASE /\ ~cancelPending[r] /\ EnterWorker(r, lockOwner, waiters)
             /\ UNCHANGED <<tasks, cancelPending, cancels, reply, token, active>>
    BY <2>0, <2>1, RequestEnter
  <2>2. CASE /\ \E answer \in {"cancelled", "error"} :
                  IF Kind[r] = "open" THEN SettleOutsideTry(r, answer) ELSE Settle(r, answer)
             /\ UNCHANGED <<lockVars, workerVars>>
    BY <2>0, <2>2, RequestSettle DEF Suspended, Replies
  <2>3. QED BY <1>5, <2>1, <2>2 DEF ReturnRoute
<1>6. CASE Grant(r)
  <2>0. /\ pc[r] = "waiting" /\ ~cancelPending[r] /\ pc' = [pc EXCEPT ![r] = "running"]
        /\ thread' = [thread EXCEPT ![r] = "run"]
        /\ UNCHANGED <<tasks, cancelPending, cancels, reply, active, token, phase>>
    BY <1>6 DEF Grant
  <2>1. ASSUME NEW q \in Req, q # r PROVE RequestOK(q)'
    BY <2>0, <2>1, RequestFrame DEF RequestInv, TypeOK
  <2>2. RequestOK(r)'
    BY <2>0 DEF RequestInv, RequestOK, CancelInv, TypeOK, Suspended, DecryptLike, ExtractLike
  <2>3. QED BY <2>1, <2>2 DEF RequestInv
<1>7. CASE AbandonWait(r)
  <2>1. /\ pc[r] = "waiting" /\ cancelPending[r] /\ Settle(r, "cancelled")
        /\ token' = [token EXCEPT ![r] = TRUE] /\ UNCHANGED <<thread, phase>>
    BY <1>7 DEF AbandonWait, ExitCancelled
  <2>2. QED BY <2>1, RequestSettle DEF Suspended, Replies, TypeOK
<1>8. CASE ResumeOk(r)
  <2>0. pc[r] = "running" /\ ~cancelPending[r] /\ thread[r] = "ok" /\ UNCHANGED <<token, phase>>
    BY <1>8 DEF ResumeOk
  <2>1. CASE /\ stage[r] < LastStage(r) /\ EnterWorker(r, NoReq, waiters)
             /\ UNCHANGED <<tasks, cancelPending, cancels, reply, active>>
    <3>1. LastStage(r) = 2
      <4>1. stage[r] \in 1..2 /\ stage[r] < LastStage(r)
        BY <2>1 DEF TypeOK
      <4>2. QED BY <4>1 DEF LastStage
    <3>2. QED BY <2>0, <2>1, <3>1, RequestEnter
  <2>2. CASE (Settle(r, "result") \/ Settle(r, "error")) /\ UNCHANGED thread
    BY <2>0, <2>2, RequestSettle DEF Suspended, Replies
  <2>3. QED BY <1>8, <2>1, <2>2 DEF ResumeOk
<1>9. CASE ResumeFailed(r)
  BY <1>9, RequestSettle DEF ResumeFailed, Suspended, Replies
<1>10. CASE Interrupt(r)
  <2>0. /\ pc[r] = "running" /\ cancelPending[r] /\ token' = [token EXCEPT ![r] = TRUE]
        /\ UNCHANGED <<thread, phase>>
    BY <1>10 DEF Interrupt
  <2>1. CASE /\ pc' = [pc EXCEPT ![r] = "draining"]
             /\ cancelPending' = [cancelPending EXCEPT ![r] = FALSE]
             /\ UNCHANGED <<tasks, cancels, reply, active>>
    <3>1. ASSUME NEW q \in Req, q # r PROVE RequestOK(q)'
      BY <2>0, <2>1, <3>1, RequestFrame DEF RequestInv, TypeOK
    <3>2. RequestOK(r)'
      BY <2>0, <2>1 DEF RequestInv, RequestOK, CancelInv, TypeOK, Suspended, DecryptLike, ExtractLike
    <3>3. QED BY <3>1, <3>2 DEF RequestInv
  <2>2. CASE Settle(r, "cancelled")
    BY <2>0, <2>2, RequestSettle DEF Suspended, Replies, TypeOK
  <2>3. QED BY <1>10, <2>1, <2>2 DEF Interrupt, ExitCancelled
<1>11. CASE Drain(r)
  BY <1>11, RequestSettle DEF Drain, ExitCancelled, Suspended, Replies
<1>12. QED
  BY <1>1, <1>2, <1>3, <1>4, <1>5, <1>6, <1>7, <1>8, <1>9, <1>10, <1>11 DEF TaskStep

LEMMA RequestOtherStep ==
  ASSUME TypeOK, RequestInv, CancelInv,
         \/ \E r \in Req : Arrive(r) \/ RequestCancel(r) \/ CleanupSession(r)
         \/ \E r \in Req : WorkerStep(r)
         \/ PreviewCancel \/ StartCleanupAll \/ SweepStep \/ ShutDown
  PROVE  RequestInv'
<1> USE DEF taskVars, lockVars, workerVars, sweepVars
<1>1. ASSUME NEW r \in Req, Arrive(r) PROVE RequestInv'
  <2>0. /\ pc[r] = "idle" /\ pc' = [pc EXCEPT ![r] = "scheduled"] /\ tasks' = tasks \cup {r}
        /\ UNCHANGED <<cancelPending, cancels, reply, thread, token, active, phase>>
    BY <1>1 DEF Arrive
  <2>1. ASSUME NEW q \in Req, q # r PROVE RequestOK(q)'
    BY <2>0, <2>1, RequestFrame DEF RequestInv, TypeOK
  <2>2. RequestOK(r)'
    BY <2>0 DEF RequestInv, RequestOK, CancelInv, TypeOK, Suspended, DecryptLike, ExtractLike
  <2>3. QED BY <2>1, <2>2 DEF RequestInv
<1>2. ASSUME NEW r \in Req, RequestCancel(r) PROVE RequestInv'
  <2>0. /\ cancels' = [cancels EXCEPT ![r] = @ + 1] /\ cancels[r] \in Nat
        /\ cancelPending' = [cancelPending EXCEPT ![r] = pc[r] \in Suspended]
        /\ UNCHANGED <<pc, tasks, reply, thread, token, active, phase>>
    BY <1>2, RequestsAssumption DEF RequestCancel, TypeOK
  <2>1. ASSUME NEW q \in Req, q # r PROVE RequestOK(q)'
    BY <2>0, <2>1, RequestFrame DEF RequestInv, TypeOK
  <2>2. cancels'[r] > 0
    BY <2>0 DEF TypeOK
  <2>3. cancelPending'[r] => pc[r] \in Suspended
    BY <2>0 DEF TypeOK
  <2>4. RequestOK(r)'
    BY <2>0, <2>2, <2>3 DEF RequestInv, RequestOK, Suspended, DecryptLike, ExtractLike, LastStage
  <2>5. QED BY <2>1, <2>4 DEF RequestInv
<1>3. ASSUME NEW r \in Req, WorkerStep(r) PROVE RequestInv'
  <2>0. /\ Alive(r) /\ thread'[r] # "none" /\ \A q \in Req : q # r => thread'[q] = thread[q]
        /\ UNCHANGED <<pc, tasks, cancelPending, cancels, reply, token, active, phase>>
    BY <1>3 DEF WorkerStep, WorkerMakePreview, WorkerWrite, WorkerSucceed, WorkerRaise,
                Alive, AliveStates, TypeOK
  <2>1. ASSUME NEW q \in Req, q # r PROVE RequestOK(q)'
    BY <2>0, <2>1, RequestFrame DEF RequestInv, TypeOK
  <2>2. RequestOK(r)'
    BY <2>0 DEF RequestInv, RequestOK, Alive, AliveStates, Suspended, DecryptLike, ExtractLike
  <2>3. QED BY <2>1, <2>2 DEF RequestInv
<1>4. CASE PreviewCancel
  BY <1>4, RequestFrame DEF PreviewCancel, RequestInv, RequestOK, DecryptLike, ExtractLike
<1>5. CASE \/ \E r \in Req : CleanupSession(r)
           \/ StartCleanupAll \/ StartStaleSweep \/ ForgetSessions
           \/ \E r \in Req : SweepOne(r)
  <2>1. UNCHANGED <<pc, tasks, cancelPending, cancels, reply, thread, token, active, phase>>
    BY <1>5 DEF CleanupSession, StartCleanupAll, StartStaleSweep, ForgetSessions, SweepOne
  <2>2. QED BY <2>1, RequestFrame DEF RequestInv
<1>6. CASE BecomeReady
  BY <1>6, RequestFrame DEF BecomeReady, RequestInv
<1>7. CASE ShutDown
  <2>1. /\ phase' = "stopping" /\ cancelPending' = [r \in Req |-> pc[r] \in Suspended]
        /\ UNCHANGED <<pc, tasks, cancels, reply, thread, token, active>>
    BY <1>7 DEF ShutDown
  <2>2. QED BY <2>1 DEF RequestInv, RequestOK, DecryptLike, ExtractLike, LastStage
<1>8. QED BY <1>1, <1>2, <1>3, <1>4, <1>5, <1>6, <1>7 DEF SweepStep

LEMMA RequestAlways == Spec => [](TypeOK /\ CancelInv /\ RequestInv)
<1>1. TypeOK /\ CancelInv /\ RequestInv /\ [Next]_vars => RequestInv'
  <2> SUFFICES ASSUME TypeOK, CancelInv, RequestInv, [Next]_vars PROVE RequestInv'
    OBVIOUS
  <2>1. CASE UNCHANGED vars
    BY <2>1, RequestFrame DEF vars, taskVars, workerVars, sweepVars, RequestInv
  <2>2. CASE Next
    BY <2>2, RequestTaskStep, RequestOtherStep DEF Next
  <2>3. QED BY <2>1, <2>2
<1>2. QED BY CancelAlways, RequestInit, <1>1, PTL DEF Spec

\* No writer of an archive is stopped, and no request dropped without an answer,
\* but for its own request.cancel or the shutdown: for any mix of requests and
\* any number of cancellations (_run_crypto_worker, preview.cancel, run()).
THEOREM OnlyCancelStopsRequests == Spec => []OnlyCancelStops
<1>1. RequestInv => OnlyCancelStops
  BY DEF RequestInv, RequestOK, OnlyCancelStops
<1>2. QED BY RequestAlways, <1>1, PTL

\* A token outlives its request only where a handler fails outside its try.
THEOREM TokensAccountedFor == Spec => []TokensAccounted
<1>1. TypeOK /\ RequestInv => TokensAccounted
  BY DEF TypeOK, RequestInv, RequestOK, TokensAccounted
<1>2. QED BY RequestAlways, <1>1, PTL

-----------------------------------------------------------------------------
\* What a finished request leaves behind, until the core stops.  An extraction
\* that has started, and a decryption once its worker made the directory, have
\* their preview registered, or it was unregistered and is lost; before that,
\* and for every other method, there is no directory.
PreviewOK(r) ==
  /\ Kind[r] \in {"mutate", "open"} => dir[r] = "absent"
  /\ pc[r] \in {"idle", "scheduled", "route"} => dir[r] = "absent"
  /\ pc[r] = "route" => ~ExtractLike(r)
  /\ ExtractLike(r) /\ pc[r] \in {"waiting", "running", "draining"}
       => r \in registered \cup lost
  /\ DecryptLike(r) =>
       /\ thread[r] \in {"made", "wrote"} => r \in registered \cup lost
       /\ dir[r] # "absent" =>
            /\ \/ r \in lost
               \/ r \in registered /\ thread[r] \in {"made", "wrote", "ok"}
            /\ thread[r] \notin {"none", "run"} /\ pc[r] # "waiting"
            /\ stage[r] >= WritingStage(r)
  /\ r \in sessions => Kind[r] = "open" /\ thread[r] = "ok"
  /\ pc[r] = "done" /\ thread[r] = "ok" =>
       \/ reply[r] = "result" \/ cancels[r] > 0
       \/ reply[r] = "error" /\ ExtractLike(r)
  /\ pc[r] = "done" /\ dir[r] # "absent" =>
       \/ reply[r] = "result" /\ Kind[r] # "verify" /\ r \in registered
       \/ MayStrand(r)

PreviewInv == phase # "stopping" => \A r \in Req : PreviewOK(r)

\* Sweeps, and steps of other requests: a directory may go, and a preview that
\* is unregistered is lost.
LEMMA PreviewFrame ==
  ASSUME NEW q \in Req, PreviewOK(q), phase # "stopping", phase' # "stopping",
         pc'[q] = pc[q], cancels'[q] = cancels[q] \/ cancels'[q] > 0,
         cancels[q] > 0 => cancels'[q] > 0,
         thread'[q] = thread[q], stage'[q] = stage[q], reply'[q] = reply[q],
         dir'[q] = dir[q] \/ dir'[q] = "absent",
         q \in registered => q \in registered' \cup lost', q \in lost => q \in lost',
         q \in sessions' => q \in sessions
  PROVE  PreviewOK(q)'
<1>1. /\ DecryptLike(q)' <=> DecryptLike(q)
      /\ ExtractLike(q)' <=> ExtractLike(q)
      /\ WritingStage(q)' = WritingStage(q)
      /\ MayStrand(q) => MayStrand(q)'
  BY DEF DecryptLike, ExtractLike, WritingStage, MayStrand
<1>2. reply[q] = "result" /\ Kind[q] # "verify" /\ q \in registered =>
        \/ reply'[q] = "result" /\ Kind[q] # "verify" /\ q \in registered'
        \/ MayStrand(q)'
  BY DEF MayStrand
<1>3. QED BY <1>1, <1>2 DEF PreviewOK

\* PreviewSessionStore.cleanup: a registered preview is gone, or lost.
LEMMA CleanupEffect ==
  ASSUME TypeOK, NEW r \in Req, CleanupPreview(r)
  PROVE  /\ dir'[r] = dir[r] \/ dir'[r] = "absent"
         /\ r \in registered => dir'[r] = "absent" \/ r \in lost'
         /\ r \notin registered => dir'[r] = dir[r]
         /\ r \in lost => r \in lost'
         /\ \A q \in Req : q # r => /\ dir'[q] = dir[q]
                                    /\ q \in registered' <=> q \in registered
                                    /\ q \in lost' <=> q \in lost
<1>1. CASE r \in registered
  BY <1>1 DEF CleanupPreview, TypeOK
<1>2. CASE r \notin registered
  BY <1>2 DEF CleanupPreview, TypeOK
<1>3. QED BY <1>1, <1>2

LEMMA PreviewEnter ==
  ASSUME TypeOK, PreviewInv, RequestInv, NEW r \in Req, NEW owner, NEW ws,
         EnterWorker(r, owner, ws), phase # "stopping",
         \/ /\ pc[r] \in {"scheduled", "route"} /\ stage' = stage
            /\ \/ UNCHANGED previewVars /\ (pc[r] = "scheduled" => ~ExtractLike(r))
               \/ /\ ExtractLike(r) /\ UNCHANGED lost
                  /\ registered' = registered \cup {r}
                  /\ dir' = [dir EXCEPT ![r] = "empty"]
         \/ /\ pc[r] = "running" /\ thread[r] = "ok" /\ stage[r] < LastStage(r)
            /\ stage' = [stage EXCEPT ![r] = @ + 1] /\ UNCHANGED previewVars,
         UNCHANGED <<cancels, reply, sessions, phase>>
  PROVE  PreviewInv'
<1> USE DEF previewVars
<1>1. \/ /\ pc' = [pc EXCEPT ![r] = "running"] /\ thread' = [thread EXCEPT ![r] = "run"]
      \/ /\ pc' = [pc EXCEPT ![r] = "waiting"] /\ thread' = thread
  BY Zenon DEF EnterWorker
<1>2. ASSUME NEW q \in Req, q # r PROVE PreviewOK(q)'
  BY <1>1, <1>2, PreviewFrame DEF PreviewInv, TypeOK
<1>3. /\ pc'[r] \in {"running", "waiting"}
      /\ thread'[r] = thread[r] \/ thread'[r] = "run"
  BY <1>1 DEF TypeOK
<1>4. PreviewOK(r)'
  <2>1. CASE pc[r] \in {"scheduled", "route"}
    <3>1. thread[r] = "none" /\ r \notin sessions
      BY <2>1 DEF RequestInv, RequestOK, PreviewInv, PreviewOK
    <3>2. CASE UNCHANGED previewVars
      BY <1>3, <2>1, <3>1, <3>2 DEF PreviewInv, PreviewOK, DecryptLike
    <3>3. CASE ExtractLike(r) /\ registered' = registered \cup {r}
      BY <1>3, <2>1, <3>1, <3>3 DEF PreviewOK, ExtractLike, DecryptLike
    <3>4. QED BY <2>1, <3>2, <3>3
  <2>2. CASE pc[r] = "running" /\ stage[r] < LastStage(r) /\ UNCHANGED previewVars
    <3>1. stage[r] = 1 /\ LastStage(r) = 2
      <4>1. stage[r] \in 1..2
        BY DEF TypeOK
      <4>2. QED BY <2>2, <4>1 DEF LastStage
    <3>2. Kind[r] \in {"capsule", "extractAll", "verify"}
      BY <3>1 DEF LastStage
    <3>3. DecryptLike(r) => dir[r] = "absent"
      BY <3>1, <3>2 DEF PreviewInv, PreviewOK, DecryptLike, WritingStage
    <3>4. r \notin sessions /\ (ExtractLike(r) => r \in registered \cup lost)
      BY <2>2, <3>2 DEF PreviewInv, PreviewOK
    <3>5. QED BY <1>3, <2>2, <3>2, <3>3, <3>4 DEF PreviewOK, ExtractLike, DecryptLike
  <2>3. QED BY <2>1, <2>2
<1>5. QED BY <1>2, <1>4 DEF PreviewInv

\* A request ends: before its worker, through a cancellation, with its worker's
\* result, or with its worker's failure.
LEMMA PreviewLeave ==
  ASSUME TypeOK, PreviewInv, RequestInv, NEW r \in Req, NEW answer \in Replies \cup {"none"},
         phase # "stopping", ~Alive(r),
         pc' = [pc EXCEPT ![r] = "done"],
         reply' = [reply EXCEPT ![r] = answer],
         UNCHANGED <<stage, cancels, thread, sessions, phase>>,
         \/ pc[r] \in {"scheduled", "route"} /\ UNCHANGED previewVars
         \/ /\ pc[r] \in {"waiting", "running", "draining"}
            /\ CleanupInFinally(r) /\ cancels[r] > 0
         \/ /\ pc[r] = "running" /\ thread[r] = "ok" /\ CleanupInFinally(r)
            /\ answer = "result" \/ (answer = "error" /\ ExtractLike(r))
         \/ /\ pc[r] = "running" /\ thread[r] = "other" /\ CleanupInFinally(r)
         \/ /\ pc[r] = "running" /\ thread[r] \in {"cancelled", "value"}
            /\ CleanupInExcept(r)
  PROVE  PreviewInv'
<1> DEFINE Cleaned == CleanupPreview(r) /\ ExtractLike(r)
<1>1. \/ UNCHANGED previewVars
      \/ Cleaned /\ pc[r] \in {"waiting", "running", "draining"}
  BY DEF CleanupInFinally, CleanupInExcept, ExtractLike
<1>2. /\ dir'[r] = dir[r] \/ dir'[r] = "absent"
      /\ r \in lost => r \in lost'
      /\ \A q \in Req : q # r => /\ dir'[q] = dir[q]
                                 /\ q \in registered' <=> q \in registered
                                 /\ q \in lost' <=> q \in lost
  BY <1>1, CleanupEffect DEF previewVars
<1>3. /\ pc'[r] = "done" /\ reply'[r] = answer /\ stage'[r] = stage[r]
      /\ cancels'[r] = cancels[r] /\ thread'[r] = thread[r] /\ Kind[r] \in Kinds
  BY RequestsAssumption DEF TypeOK
<1>4. ASSUME NEW q \in Req, q # r PROVE PreviewOK(q)'
  BY <1>2, <1>4, PreviewFrame DEF PreviewInv, TypeOK
<1>5. PreviewOK(r)
  BY DEF PreviewInv
<1>6. ASSUME dir'[r] # "absent"
      PROVE  \/ answer = "result" /\ Kind[r] # "verify" /\ r \in registered'
             \/ MayStrand(r)'
  <2>1. CASE Cleaned /\ pc[r] \in {"waiting", "running", "draining"}
    <3>1. r \in registered \cup lost
      BY <1>5, <2>1 DEF PreviewOK
    <3>2. r \in lost'
      BY <1>6, <2>1, <3>1, CleanupEffect
    <3>3. QED BY <3>2 DEF MayStrand
  <2>2. CASE UNCHANGED previewVars
    <3>1. dir[r] # "absent" /\ registered' = registered /\ lost' = lost
      BY <1>6, <2>2 DEF previewVars
    <3>2. pc[r] \notin {"scheduled", "route"} /\ Kind[r] \notin {"mutate", "open"}
      BY <1>5, <3>1 DEF PreviewOK
    <3>3. CASE DecryptLike(r)
      <4>1. r \in lost \/ (r \in registered /\ thread[r] = "ok")
        BY <1>5, <3>1, <3>3 DEF PreviewOK, Alive, AliveStates
      <4>2. Kind[r] # "verify" /\ ~ExtractLike(r)
        BY <3>3 DEF DecryptLike, ExtractLike
      <4>3. QED BY <1>3, <3>1, <3>2, <4>1, <4>2 DEF MayStrand
    <3>4. CASE Kind[r] \in {"extract", "extractAll"}
      <4>1. r \in registered \cup lost
        BY <1>5, <3>2, <3>4 DEF PreviewOK, ExtractLike
      <4>2. CASE CleanupInExcept(r)
        BY <1>6, <3>4, <4>1, <4>2, CleanupEffect DEF CleanupInExcept, ExtractLike, MayStrand
      <4>3. CASE ~CleanupInExcept(r)
        BY <1>3, <3>1, <3>2, <3>4, <4>1, <4>3 DEF MayStrand
      <4>4. QED BY <4>2, <4>3
    <3>5. CASE Kind[r] = "verify"
      <4>1. CleanupPreview(r) /\ r \in registered \cup lost
        BY <1>5, <3>2, <3>5 DEF PreviewOK, ExtractLike, CleanupInFinally, CleanupInExcept
      <4>2. QED BY <1>6, <4>1, CleanupEffect DEF MayStrand
    <3>6. QED BY <1>3, <3>2, <3>3, <3>4, <3>5 DEF DecryptLike, Kinds
  <2>3. QED BY <1>1, <2>1, <2>2
<1>7. thread[r] = "ok" => \/ answer = "result" \/ cancels[r] > 0
                          \/ answer = "error" /\ ExtractLike(r)
  BY DEF RequestInv, RequestOK
<1>8. DecryptLike(r) => UNCHANGED previewVars
  BY <1>1 DEF DecryptLike, ExtractLike
<1>9. PreviewOK(r)'
  BY <1>2, <1>3, <1>5, <1>6, <1>7, <1>8
     DEF PreviewOK, previewVars, ExtractLike, DecryptLike, WritingStage, Alive, AliveStates
<1>10. QED BY <1>4, <1>9 DEF PreviewInv

LEMMA PreviewTaskStep ==
  ASSUME TypeOK, PreviewInv, RequestInv, SerialInv, NEW r \in Req, TaskStep(r)
  PROVE  PreviewInv'
<1> SUFFICES ASSUME phase' # "stopping" PROVE PreviewInv'
  BY DEF PreviewInv
<1> USE DEF taskVars, lockVars, workerVars, sweepVars
<1>0. phase # "stopping" /\ UNCHANGED phase
  BY DEF TaskStep, NeverStart, StartMutate, StartRoute, StartExtract, ReturnRoute, Grant,
         AbandonWait, ResumeOk, ResumeFailed, Interrupt, Drain
<1>1. CASE NeverStart(r)
  <2>1. /\ pc[r] = "scheduled" /\ pc' = [pc EXCEPT ![r] = "done"]
        /\ UNCHANGED <<stage, cancels, thread, sessions, reply, previewVars>>
    BY <1>1 DEF NeverStart
  <2>2. ~Alive(r) /\ reply' = [reply EXCEPT ![r] = reply[r]] /\ reply[r] \in Replies \cup {"none"}
    BY <2>1 DEF RequestInv, RequestOK, Alive, AliveStates, TypeOK
  <2>3. QED BY <1>0, <2>1, <2>2, PreviewLeave
<1>2. CASE StartMutate(r)
  BY <1>0, <1>2, PreviewEnter DEF StartMutate, ExtractLike
<1>3. CASE StartRoute(r)
  <2>0. /\ pc[r] = "scheduled" /\ pc' = [pc EXCEPT ![r] = "route"]
        /\ (DecryptLike(r) \/ Kind[r] = "open")
        /\ UNCHANGED <<cancels, stage, reply, thread, previewVars, sessions>>
    BY <1>3 DEF StartRoute
  <2>1. ASSUME NEW q \in Req, q # r PROVE PreviewOK(q)'
    BY <1>0, <2>0, <2>1, PreviewFrame DEF PreviewInv, TypeOK, previewVars
  <2>2. PreviewOK(r)'
    BY <1>0, <2>0 DEF PreviewInv, PreviewOK, TypeOK, DecryptLike, ExtractLike, previewVars
  <2>3. QED BY <2>1, <2>2 DEF PreviewInv
<1>4. CASE StartExtract(r)
  <2>0. pc[r] = "scheduled" /\ ExtractLike(r) /\ UNCHANGED sessions
    BY <1>4 DEF StartExtract
  <2>1. CASE /\ EnterWorker(r, lockOwner, waiters) /\ registered' = registered \cup {r}
             /\ dir' = [dir EXCEPT ![r] = "empty"]
             /\ UNCHANGED <<cancels, stage, reply, lost>>
    BY <1>0, <2>0, <2>1, PreviewEnter
  <2>2. CASE SettleOutsideTry(r, "error") /\ UNCHANGED <<workerVars, previewVars>>
    <3>1. ~Alive(r)
      BY <2>0 DEF RequestInv, RequestOK, Alive, AliveStates
    <3>2. QED BY <1>0, <2>0, <2>2, <3>1, PreviewLeave DEF SettleOutsideTry, Replies
  <2>3. QED BY <1>4, <2>1, <2>2 DEF StartExtract
<1>5. CASE ReturnRoute(r)
  <2>0. pc[r] = "route" /\ UNCHANGED <<sessions, previewVars>>
    BY <1>5 DEF ReturnRoute
  <2>1. CASE /\ EnterWorker(r, lockOwner, waiters)
             /\ UNCHANGED <<cancels, stage, reply>>
    BY <1>0, <2>0, <2>1, PreviewEnter
  <2>2. CASE /\ \E answer \in Replies : Settle(r, answer) \/ SettleOutsideTry(r, answer)
             /\ UNCHANGED workerVars
    <3>1. ~Alive(r)
      BY <2>0 DEF RequestInv, RequestOK, Alive, AliveStates
    <3>2. QED BY <1>0, <2>0, <2>2, <3>1, PreviewLeave DEF Settle, SettleOutsideTry
  <2>3. QED BY <1>5, <2>1, <2>2 DEF ReturnRoute
<1>6. CASE Grant(r)
  <2>0. /\ pc[r] = "waiting" /\ pc' = [pc EXCEPT ![r] = "running"]
        /\ thread' = [thread EXCEPT ![r] = "run"]
        /\ UNCHANGED <<cancels, stage, reply, previewVars, sessions>>
    BY <1>6 DEF Grant
  <2>1. ASSUME NEW q \in Req, q # r PROVE PreviewOK(q)'
    BY <1>0, <2>0, <2>1, PreviewFrame DEF PreviewInv, TypeOK, previewVars
  <2>2. r \notin sessions
    BY <1>0, <2>0 DEF PreviewInv, PreviewOK, RequestInv, RequestOK, LastStage
  <2>3. PreviewOK(r)'
    BY <1>0, <2>0, <2>2
       DEF PreviewInv, PreviewOK, TypeOK, DecryptLike, ExtractLike, previewVars
  <2>4. QED BY <2>1, <2>3 DEF PreviewInv
<1>7. CASE AbandonWait(r)
  <2>1. /\ pc[r] = "waiting" /\ cancelPending[r] /\ Settle(r, "cancelled")
        /\ CleanupInFinally(r) /\ UNCHANGED <<thread, sessions>>
    BY <1>7 DEF AbandonWait, ExitCancelled
  <2>2. ~Alive(r) /\ cancels[r] > 0
    BY <1>0, <2>1 DEF RequestInv, RequestOK, Alive, AliveStates
  <2>3. QED BY <1>0, <2>1, <2>2, PreviewLeave DEF Settle, Replies
<1>8. CASE ResumeOk(r)
  <2>0. pc[r] = "running" /\ thread[r] = "ok" /\ ~Alive(r) /\ UNCHANGED sessions
    BY <1>8 DEF ResumeOk, Alive, AliveStates
  <2>1. CASE /\ stage[r] < LastStage(r) /\ EnterWorker(r, NoReq, waiters)
             /\ stage' = [stage EXCEPT ![r] = @ + 1]
             /\ UNCHANGED <<cancels, reply, previewVars>>
    BY <1>0, <2>0, <2>1, PreviewEnter
  <2>2. CASE /\ Settle(r, "result") \/ (Settle(r, "error") /\ ExtractLike(r))
             /\ CleanupInFinally(r) /\ UNCHANGED thread
    BY <1>0, <2>0, <2>2, PreviewLeave DEF Settle, Replies
  <2>3. QED BY <1>8, <2>1, <2>2 DEF ResumeOk
<1>9. CASE ResumeFailed(r)
  <2>1. pc[r] = "running" /\ Settle(r, "error") /\ UNCHANGED <<thread, sessions>>
        /\ (\/ thread[r] = "other" /\ CleanupInFinally(r)
            \/ thread[r] \in {"cancelled", "value"} /\ CleanupInExcept(r))
    BY <1>9 DEF ResumeFailed
  <2>2. ~Alive(r)
    BY <2>1 DEF Alive, AliveStates
  <2>3. QED BY <1>0, <2>1, <2>2, PreviewLeave DEF Settle, Replies
<1>10. CASE Interrupt(r)
  <2>0. /\ pc[r] = "running" /\ cancelPending[r] /\ UNCHANGED <<thread, sessions>>
        /\ cancels[r] > 0
    BY <1>0, <1>10 DEF Interrupt, RequestInv, RequestOK
  <2>1. CASE /\ pc' = [pc EXCEPT ![r] = "draining"]
             /\ UNCHANGED <<cancels, stage, reply, previewVars>>
    <3>1. ASSUME NEW q \in Req, q # r PROVE PreviewOK(q)'
      BY <1>0, <2>0, <2>1, <3>1, PreviewFrame DEF PreviewInv, TypeOK, previewVars
    <3>2. PreviewOK(r)'
      BY <1>0, <2>0, <2>1
         DEF PreviewInv, PreviewOK, TypeOK, DecryptLike, ExtractLike, WritingStage, previewVars
    <3>3. QED BY <3>1, <3>2 DEF PreviewInv
  <2>2. CASE ~Alive(r) /\ Settle(r, "cancelled") /\ CleanupInFinally(r)
    BY <1>0, <2>0, <2>2, PreviewLeave DEF Settle, Replies
  <2>3. QED BY <1>10, <2>1, <2>2 DEF Interrupt, ExitCancelled
<1>11. CASE Drain(r)
  <2>1. /\ pc[r] = "draining" /\ Settle(r, "cancelled") /\ CleanupInFinally(r)
        /\ UNCHANGED <<thread, sessions>> /\ (~Alive(r) \/ cancelPending[r])
    BY <1>0, <1>11 DEF Drain, ExitCancelled
  <2>2. ~Alive(r) /\ cancels[r] > 0
    BY <1>0, <2>1 DEF SerialInv, DrainUndisturbed
  <2>3. QED BY <1>0, <2>1, <2>2, PreviewLeave DEF Settle, Replies
<1>12. QED
  BY <1>1, <1>2, <1>3, <1>4, <1>5, <1>6, <1>7, <1>8, <1>9, <1>10, <1>11 DEF TaskStep

LEMMA PreviewWorkerStep ==
  ASSUME TypeOK, PreviewInv, SerialInv, NEW r \in Req, WorkerStep(r)
  PROVE  PreviewInv'
<1> SUFFICES ASSUME phase' # "stopping" PROVE PreviewInv'
  BY DEF PreviewInv
<1> USE DEF taskVars, sweepVars
<1>0. /\ phase # "stopping"
      /\ UNCHANGED <<pc, cancels, stage, reply>>
      /\ Alive(r) /\ pc[r] \in {"running", "draining"} /\ PreviewOK(r)
      /\ \A q \in Req : q # r => thread'[q] = thread[q]
  <2>1. UNCHANGED <<pc, cancels, stage, reply, phase>> /\ Alive(r)
        /\ \A q \in Req : q # r => thread'[q] = thread[q]
    BY DEF WorkerStep, WorkerMakePreview, WorkerWrite, WorkerSucceed, WorkerRaise,
           Alive, AliveStates, TypeOK
  <2>2. QED BY <2>1 DEF SerialInv, WorkerWithinRequest, PreviewInv
<1>1. CASE WorkerMakePreview(r)
  <2>0. /\ thread[r] = "run" /\ DecryptLike(r) /\ stage[r] = WritingStage(r)
        /\ thread' = [thread EXCEPT ![r] = "made"] /\ dir' = [dir EXCEPT ![r] = "empty"]
        /\ registered' = registered \cup {r} /\ UNCHANGED <<lost, sessions>>
    BY <1>1 DEF WorkerMakePreview, WritesFiles
  <2>1. ASSUME NEW q \in Req, q # r PROVE PreviewOK(q)'
    BY <1>0, <2>0, <2>1, PreviewFrame DEF PreviewInv, TypeOK
  <2>2. stage[r] \in 1..2 /\ stage[r] = WritingStage(r)
    BY <2>0 DEF TypeOK
  <2>3. PreviewOK(r)'
    BY <1>0, <2>0, <2>2 DEF PreviewOK, TypeOK, DecryptLike, ExtractLike, WritingStage
  <2>4. QED BY <2>1, <2>3 DEF PreviewInv
<1>2. CASE WorkerWrite(r)
  <2>0. /\ WritesFiles(r) /\ (DecryptLike(r) => thread[r] = "made")
        /\ thread' = [thread EXCEPT ![r] = "wrote"]
        /\ \A q \in Req : q # r => dir'[q] = dir[q]
        /\ UNCHANGED <<registered, lost, sessions>>
    BY <1>2 DEF WorkerWrite, TypeOK
  <2>1. ASSUME NEW q \in Req, q # r PROVE PreviewOK(q)'
    BY <1>0, <2>0, <2>1, PreviewFrame DEF PreviewInv
  <2>2. stage[r] \in 1..2 /\ stage[r] = WritingStage(r)
    BY <2>0 DEF WritesFiles, TypeOK
  <2>3. PreviewOK(r)'
    BY <1>0, <2>0, <2>2
       DEF PreviewOK, TypeOK, WritesFiles, DecryptLike, ExtractLike, WritingStage, Alive, AliveStates
  <2>4. QED BY <2>1, <2>3 DEF PreviewInv
<1>3. CASE WorkerSucceed(r)
  <2>0. /\ thread[r] = IF WritesFiles(r) THEN "wrote" ELSE "run"
        /\ thread' = [thread EXCEPT ![r] = "ok"]
        /\ sessions' = IF Kind[r] = "open" THEN sessions \cup {r} ELSE sessions
        /\ UNCHANGED <<dir, registered, lost>>
    BY <1>3 DEF WorkerSucceed, previewVars
  <2>1. ASSUME NEW q \in Req, q # r PROVE PreviewOK(q)'
    BY <1>0, <2>0, <2>1, PreviewFrame DEF PreviewInv, TypeOK
  <2>2. PreviewOK(r)'
    BY <1>0, <2>0
       DEF PreviewOK, TypeOK, DecryptLike, ExtractLike, WritingStage, Alive, AliveStates
  <2>3. QED BY <2>1, <2>2 DEF PreviewInv
<1>4. CASE WorkerRaise(r)
  <2>0. /\ thread'[r] \in {"cancelled", "value", "other"} /\ UNCHANGED sessions
        /\ IF DecryptLike(r) /\ thread[r] \in {"made", "wrote"}
           THEN CleanupPreview(r) ELSE UNCHANGED previewVars
    <3>1. PICK outcome \in {"cancelled", "value", "other"} :
            thread' = [thread EXCEPT ![r] = outcome]
      BY <1>4 DEF WorkerRaise
    <3>2. QED BY <1>4, <3>1 DEF WorkerRaise, TypeOK
  <2>1. ASSUME NEW q \in Req, q # r PROVE PreviewOK(q)'
    <3>1. /\ dir'[q] = dir[q]
          /\ q \in registered' <=> q \in registered
          /\ q \in lost' <=> q \in lost
      BY <2>0, <2>1, CleanupEffect DEF previewVars
    <3>2. QED BY <1>0, <2>0, <2>1, <3>1, PreviewFrame DEF PreviewInv
  <2>2. /\ dir'[r] = dir[r] \/ dir'[r] = "absent"
        /\ DecryptLike(r) /\ dir'[r] # "absent" => r \in lost'
    <3>1. CASE DecryptLike(r) /\ thread[r] \in {"made", "wrote"}
      <4>1. CleanupPreview(r) /\ r \in registered \cup lost
        BY <1>0, <2>0, <3>1 DEF PreviewOK
      <4>2. QED BY <4>1, CleanupEffect
    <3>2. CASE ~(DecryptLike(r) /\ thread[r] \in {"made", "wrote"})
      BY <1>0, <2>0, <3>2 DEF PreviewOK, previewVars, Alive, AliveStates
    <3>3. QED BY <3>1, <3>2
  <2>3. ~DecryptLike(r) => UNCHANGED previewVars
    BY <2>0
  <2>4. r \notin sessions
    BY <1>0 DEF PreviewOK, Alive, AliveStates
  <2>5. PreviewOK(r)'
    BY <1>0, <2>0, <2>2, <2>3, <2>4
       DEF PreviewOK, TypeOK, DecryptLike, ExtractLike, WritingStage, previewVars
  <2>6. QED BY <2>1, <2>5 DEF PreviewInv
<1>5. QED BY <1>1, <1>2, <1>3, <1>4 DEF WorkerStep

LEMMA PreviewOtherStep ==
  ASSUME TypeOK, PreviewInv, RequestInv,
         \/ \E r \in Req : Arrive(r) \/ RequestCancel(r) \/ CleanupSession(r)
         \/ PreviewCancel \/ StartCleanupAll \/ SweepStep \/ ShutDown
  PROVE  PreviewInv'
<1> SUFFICES ASSUME phase' # "stopping" PROVE PreviewInv'
  BY DEF PreviewInv
<1> USE DEF taskVars, workerVars, previewVars, sweepVars
<1>1. ASSUME NEW r \in Req, Arrive(r) PROVE PreviewInv'
  <2>0. /\ pc[r] = "idle" /\ pc' = [pc EXCEPT ![r] = "scheduled"] /\ phase # "stopping"
        /\ UNCHANGED <<cancels, stage, reply, thread, dir, registered, lost, sessions, phase>>
    BY <1>1 DEF Arrive
  <2>1. ASSUME NEW q \in Req, q # r PROVE PreviewOK(q)'
    BY <2>0, <2>1, PreviewFrame DEF PreviewInv, TypeOK
  <2>2. PreviewOK(r)'
    BY <2>0 DEF PreviewInv, PreviewOK, TypeOK, DecryptLike, ExtractLike, WritingStage
  <2>3. QED BY <2>1, <2>2 DEF PreviewInv
<1>2. ASSUME NEW r \in Req, RequestCancel(r) PROVE PreviewInv'
  <2>0. /\ cancels' = [cancels EXCEPT ![r] = @ + 1] /\ phase # "stopping"
        /\ \A q \in Req : cancels[q] \in Nat
        /\ UNCHANGED <<pc, stage, reply, thread, dir, registered, lost, sessions, phase>>
    BY <1>2, RequestsAssumption DEF RequestCancel, TypeOK
  <2>1. ASSUME NEW q \in Req
        PROVE  cancels'[q] = cancels[q] \/ cancels'[q] > 0
    BY <2>0 DEF TypeOK
  <2>2. ASSUME NEW q \in Req, cancels[q] > 0 PROVE cancels'[q] > 0
    BY <2>0, <2>2 DEF TypeOK
  <2>3. QED BY <2>0, <2>1, <2>2, PreviewFrame DEF PreviewInv
<1>3. ASSUME NEW r \in Req, CleanupSession(r) PROVE PreviewInv'
  <2>0. /\ phase # "stopping" /\ reply[r] = "result" /\ CleanupPreview(r)
        /\ UNCHANGED <<pc, cancels, stage, reply, thread, sessions, phase>>
        /\ pc[r] = "done" /\ thread[r] = "ok"
    BY <1>3 DEF CleanupSession, RequestInv, RequestOK
  <2>1. ASSUME NEW q \in Req, q # r PROVE PreviewOK(q)'
    BY <2>0, <2>1, CleanupEffect, PreviewFrame DEF PreviewInv
  <2>2. PreviewOK(r)'
    <3>1. CASE r \in registered
      <4>1. dir'[r] = "absent" \/ (dir'[r] = dir[r] /\ r \in lost')
        BY <2>0, <3>1, CleanupEffect
      <4>2. QED BY <2>0, <4>1 DEF PreviewInv, PreviewOK, MayStrand, DecryptLike,
                                  ExtractLike, WritingStage
    <3>2. CASE r \notin registered
      BY <2>0, <3>2, CleanupEffect, PreviewFrame DEF PreviewInv
    <3>3. QED BY <3>1, <3>2
  <2>3. QED BY <2>1, <2>2 DEF PreviewInv
<1>4. CASE PreviewCancel \/ StartCleanupAll \/ StartStaleSweep \/ BecomeReady
  <2>1. /\ phase # "stopping"
        /\ UNCHANGED <<pc, cancels, stage, reply, thread, dir, registered, lost, sessions>>
    BY <1>4 DEF PreviewCancel, StartCleanupAll, StartStaleSweep, BecomeReady
  <2>2. QED BY <2>1, PreviewFrame DEF PreviewInv
<1>5. CASE ForgetSessions
  <2>1. /\ registered' = {} /\ lost' = lost \cup registered
        /\ UNCHANGED <<pc, cancels, stage, reply, thread, dir, sessions, phase>>
    BY <1>5 DEF ForgetSessions
  <2>2. QED BY <2>1, PreviewFrame DEF PreviewInv
<1>6. ASSUME NEW r \in Req, SweepOne(r) PROVE PreviewInv'
  <2>1. UNCHANGED <<pc, cancels, stage, reply, thread, registered, lost, sessions, phase>>
    BY <1>6 DEF SweepOne
  <2>2. \A q \in Req : dir'[q] = dir[q] \/ dir'[q] = "absent"
    BY <1>6 DEF SweepOne, TypeOK
  <2>3. QED BY <2>1, <2>2, PreviewFrame DEF PreviewInv
<1>7. QED BY <1>1, <1>2, <1>3, <1>4, <1>5, <1>6 DEF SweepStep, ShutDown

LEMMA PreviewInit == Init => PreviewInv
BY DEF Init, PreviewInv, PreviewOK, DecryptLike, WritingStage

LEMMA PreviewAlways ==
  ASSUME AtMostOneCancel
  PROVE  Spec => [](TypeOK /\ SerialInv /\ RequestInv /\ PreviewInv)
<1>1. TypeOK /\ SerialInv /\ RequestInv /\ PreviewInv /\ [Next]_vars => PreviewInv'
  <2> SUFFICES ASSUME TypeOK, SerialInv, RequestInv, PreviewInv, [Next]_vars PROVE PreviewInv'
    OBVIOUS
  <2>1. CASE UNCHANGED vars
    BY <2>1, PreviewFrame DEF vars, taskVars, workerVars, previewVars, sweepVars, PreviewInv
  <2>2. CASE Next
    BY <2>2, PreviewTaskStep, PreviewWorkerStep, PreviewOtherStep DEF Next
  <2>3. QED BY <2>1, <2>2
<1>2. QED BY SerialAlways, RequestAlways, PreviewInit, <1>1, PTL DEF Spec

\* A token, decrypted files or an archive session that a finished request leaves
\* behind was handed to the client, or is one of the named cases: for any mix of
\* requests, faults, sweeps and shutdowns, if no request is cancelled twice.
THEOREM NothingIsStranded ==
  ASSUME AtMostOneCancel
  PROVE  Spec => []NothingStranded
<1>1. TypeOK /\ RequestInv => TokensAccounted
  BY DEF TypeOK, RequestInv, RequestOK, TokensAccounted
<1>2. PreviewInv => PreviewsAccounted
  BY DEF PreviewInv, PreviewOK, PreviewsAccounted, MayStrand
<1>3. TypeOK /\ PreviewInv => SessionsAccounted
  <2> SUFFICES ASSUME TypeOK, PreviewInv, NEW r \in sessions, pc[r] = "done",
                      phase # "stopping"
               PROVE  reply[r] = "result" \/ cancels[r] > 0
    BY DEF SessionsAccounted
  <2>1. r \in Req /\ PreviewOK(r)
    BY DEF TypeOK, PreviewInv
  <2>2. Kind[r] = "open" /\ thread[r] = "ok"
    BY <2>1 DEF PreviewOK
  <2>3. QED BY <2>1, <2>2 DEF PreviewOK, ExtractLike
<1>4. TypeOK /\ RequestInv /\ PreviewInv => NothingStranded
  BY <1>1, <1>2, <1>3 DEF NothingStranded
<1>5. QED BY PreviewAlways, <1>4, PTL

-----------------------------------------------------------------------------
\* Who takes a preview from a running worker.

\* The startup sweep is over when the core is ready, and a sweep that is not
\* under way removes nothing.
SweepInv ==
  /\ sweep.mode = "idle" => sweep.todo = {}
  /\ sweep.mode = "stale" => phase = "starting"

LEMMA SweepStepInv ==
  ASSUME TypeOK, SweepInv, [Next]_vars
  PROVE  SweepInv'
<1> USE DEF vars, taskVars, lockVars, workerVars, previewVars, sweepVars
<1>1. CASE UNCHANGED sweepVars
  BY <1>1 DEF SweepInv
<1>2. CASE StartStaleSweep \/ StartCleanupAll
  BY <1>2 DEF StartStaleSweep, StartCleanupAll, ListPreviews, SweepInv
<1>3. CASE BecomeReady \/ ForgetSessions
  BY <1>3 DEF BecomeReady, ForgetSessions, NoSweep, SweepInv
<1>4. ASSUME NEW r \in Req, SweepOne(r) PROVE SweepInv'
  BY <1>4 DEF SweepOne, SweepInv, TypeOK
<1>5. CASE ShutDown
  BY <1>5 DEF ShutDown, SweepInv
<1>6. ASSUME NEW r \in Req, TaskStep(r) \/ WorkerStep(r) PROVE UNCHANGED sweepVars
  BY <1>6 DEF TaskStep, NeverStart, StartMutate, StartRoute, StartExtract, ReturnRoute, Grant,
         AbandonWait, ResumeOk, ResumeFailed, Interrupt, Drain,
         WorkerStep, WorkerMakePreview, WorkerWrite, WorkerSucceed, WorkerRaise
<1>7. ASSUME NEW r \in Req, Arrive(r) \/ RequestCancel(r) \/ CleanupSession(r)
      PROVE  UNCHANGED sweepVars
  BY <1>7 DEF Arrive, RequestCancel, CleanupSession
<1>8. PreviewCancel => UNCHANGED sweepVars
  BY DEF PreviewCancel
<1>9. QED BY <1>1, <1>2, <1>3, <1>4, <1>5, <1>6, <1>7, <1>8 DEF Next, SweepStep

LEMMA SweepInit == Init => SweepInv
BY DEF Init, SweepInv, NoSweep

\* Without a shutdown the core is never stopping.
LEMMA NeverStopping ==
  ASSUME ~MayShutDown
  PROVE  Spec => [](phase # "stopping")
<1> DEFINE Up == phase # "stopping"
<1>1. Init => Up
  BY DEF Init
<1>2. Up /\ [Next]_vars => Up'
  <2> USE DEF vars, taskVars, lockVars, workerVars, previewVars, sweepVars
  <2> SUFFICES ASSUME phase # "stopping", [Next]_vars PROVE phase' # "stopping"
    OBVIOUS
  <2>1. ASSUME NEW r \in Req, TaskStep(r) \/ WorkerStep(r) PROVE UNCHANGED phase
    BY <2>1 DEF TaskStep, NeverStart, StartMutate, StartRoute, StartExtract, ReturnRoute, Grant,
         AbandonWait, ResumeOk, ResumeFailed, Interrupt, Drain,
         WorkerStep, WorkerMakePreview, WorkerWrite, WorkerSucceed, WorkerRaise
  <2>2. ASSUME NEW r \in Req,
               Arrive(r) \/ RequestCancel(r) \/ CleanupSession(r) \/ SweepOne(r)
        PROVE  UNCHANGED phase
    BY <2>2 DEF Arrive, RequestCancel, CleanupSession, SweepOne
  <2>3. PreviewCancel \/ StartCleanupAll \/ StartStaleSweep \/ ForgetSessions => UNCHANGED phase
    BY DEF PreviewCancel, StartCleanupAll, StartStaleSweep, ForgetSessions
  <2>4. BecomeReady => phase' = "ready"
    BY DEF BecomeReady
  <2>5. ~ShutDown
    BY DEF ShutDown
  <2>6. QED BY <2>1, <2>2, <2>3, <2>4, <2>5 DEF Next, SweepStep
<1>3. QED BY <1>1, <1>2, PTL DEF Spec

\* No step takes the directory of a worker that goes on running, but for a sweep
\* of an entry it listed and the finally of verifyAll in a task that ends.
LivePreviewTaken(r) ==
  \/ r \in sweep.todo
  \/ Kind[r] = "verify" /\ pc[r] = "draining" /\ (cancelPending[r] \/ phase = "stopping")

LEMMA LiveStep ==
  ASSUME TypeOK, RequestInv, [Next]_vars, NEW r \in Req,
         Alive(r), Alive(r)', dir[r] # "absent", dir'[r] = "absent"
  PROVE  LivePreviewTaken(r)
<1> USE DEF vars, taskVars, lockVars, workerVars, previewVars, sweepVars
<1>0. RequestOK(r)
  BY DEF RequestInv
<1>1. CASE UNCHANGED dir
  BY <1>1
<1>2. ASSUME NEW q \in Req, TaskStep(q), ~UNCHANGED dir PROVE LivePreviewTaken(r)
  <2>1. q = r \/ dir'[r] = dir[r]
    <3>1. StartExtract(q) => UNCHANGED dir \/ dir' = [dir EXCEPT ![q] = "empty"]
      BY DEF StartExtract
    <3>2. AbandonWait(q) \/ ResumeOk(q) \/ ResumeFailed(q) \/ Interrupt(q) \/ Drain(q)
            => UNCHANGED dir \/ CleanupPreview(q)
      BY DEF AbandonWait, ResumeOk, ResumeFailed, Interrupt, Drain, ExitCancelled,
             CleanupInFinally, CleanupInExcept
    <3>3. NeverStart(q) \/ StartMutate(q) \/ StartRoute(q) \/ ReturnRoute(q) \/ Grant(q)
            => UNCHANGED dir
      BY DEF NeverStart, StartMutate, StartRoute, ReturnRoute, Grant
    <3>4. CASE dir' = [dir EXCEPT ![q] = "empty"]
      BY <3>4 DEF TypeOK
    <3>5. CASE CleanupPreview(q)
      BY <3>5, CleanupEffect
    <3>6. QED BY <1>2, <3>1, <3>2, <3>3, <3>4, <3>5 DEF TaskStep
  <2>2. CASE q # r
    BY <2>1, <2>2
  <2>3. CASE q = r
    <3>1. ~StartExtract(r) /\ ~AbandonWait(r)
      BY <1>0 DEF StartExtract, AbandonWait, RequestOK, Alive, AliveStates
    <3>2. ~ResumeOk(r) /\ ~ResumeFailed(r)
      BY DEF ResumeOk, ResumeFailed, Alive, AliveStates
    <3>3. ~Interrupt(r)
      BY <1>2, <2>3 DEF Interrupt
    <3>4. Drain(r) => LivePreviewTaken(r)
      BY <1>2, <2>3 DEF Drain, ExitCancelled, CleanupInFinally, LivePreviewTaken
    <3>5. ~NeverStart(r) /\ ~StartMutate(r) /\ ~StartRoute(r) /\ ~ReturnRoute(r) /\ ~Grant(r)
      BY <1>2, <2>3 DEF NeverStart, StartMutate, StartRoute, ReturnRoute, Grant
    <3>6. QED BY <1>2, <2>3, <3>1, <3>2, <3>3, <3>4, <3>5 DEF TaskStep
  <2>4. QED BY <2>2, <2>3
<1>3. ASSUME NEW q \in Req, WorkerStep(q) PROVE LivePreviewTaken(r)
  <2>1. ~WorkerMakePreview(q)
    BY DEF WorkerMakePreview, TypeOK
  <2>2. ~WorkerWrite(q)
    <3>1. ASSUME WorkerWrite(q) PROVE dir'[r] # "absent"
      BY <3>1 DEF WorkerWrite, TypeOK
    <3>2. QED BY <3>1
  <2>3. ~WorkerSucceed(q)
    BY DEF WorkerSucceed
  <2>4. ~WorkerRaise(q)
    <3>1. ASSUME WorkerRaise(q) PROVE FALSE
      <4>1. q # r
        <5>1. thread'[q] \notin AliveStates
          BY <3>1 DEF WorkerRaise, TypeOK, AliveStates
        <5>2. QED BY <5>1 DEF Alive
      <4>2. dir'[r] = dir[r]
        BY <3>1, <4>1, CleanupEffect DEF WorkerRaise
      <4>3. QED BY <4>2
    <3>2. QED BY <3>1
  <2>5. QED BY <1>3, <2>1, <2>2, <2>3, <2>4 DEF WorkerStep
<1>4. ASSUME NEW q \in Req, CleanupSession(q) PROVE LivePreviewTaken(r)
  <2>1. q # r
    BY <1>0, <1>4 DEF CleanupSession, RequestOK, Alive, AliveStates
  <2>2. dir'[r] = dir[r]
    BY <1>4, <2>1, CleanupEffect DEF CleanupSession
  <2>3. QED BY <2>2
<1>5. ASSUME NEW q \in Req, SweepOne(q) PROVE LivePreviewTaken(r)
  <2>1. q = r
    BY <1>5 DEF SweepOne, TypeOK
  <2>2. QED BY <1>5, <2>1 DEF SweepOne, LivePreviewTaken
<1>6. ASSUME \/ \E q \in Req : Arrive(q) \/ RequestCancel(q)
             \/ PreviewCancel \/ StartCleanupAll \/ StartStaleSweep \/ BecomeReady
             \/ ForgetSessions \/ ShutDown
      PROVE  UNCHANGED dir
  BY <1>6 DEF Arrive, RequestCancel, PreviewCancel, StartCleanupAll, StartStaleSweep,
              BecomeReady, ForgetSessions, ShutDown
<1>7. QED BY <1>1, <1>2, <1>3, <1>4, <1>5, <1>6 DEF Next, SweepStep

\* cleanup_all, and for an early client the startup sweep, are the only ones to
\* remove a preview under a running worker: if no request is cancelled twice and
\* the core does not stop, or else if there is no verifyAll, the one handler whose
\* finally cleans up whether or not its worker is over.
THEOREM LivePreviewsAreKept ==
  ASSUME \/ AtMostOneCancel /\ ~MayShutDown
         \/ \A r \in Req : Kind[r] # "verify"
  PROVE  Spec => LivePreviewsKept
<1> DEFINE Undisturbed == \A r \in Req : Kind[r] = "verify" /\ pc[r] = "draining" =>
                                    ~cancelPending[r] /\ phase # "stopping"
<1>1. TypeOK /\ RequestInv /\ SweepInv /\ Undisturbed /\ [Next]_vars =>
        \A r \in Req : Alive(r) /\ Alive(r)' /\ dir[r] # "absent" /\ dir'[r] = "absent"
                         => sweep.mode = "all" \/ phase = "starting"
  <2> SUFFICES ASSUME TypeOK, RequestInv, SweepInv, Undisturbed, [Next]_vars, NEW r \in Req,
                      Alive(r), Alive(r)', dir[r] # "absent", dir'[r] = "absent"
               PROVE  sweep.mode = "all" \/ phase = "starting"
    OBVIOUS
  <2>1. r \in sweep.todo
    BY LiveStep DEF LivePreviewTaken
  <2>2. sweep.mode \in {"idle", "stale", "all"}
    BY DEF TypeOK
  <2>3. QED BY <2>1, <2>2 DEF SweepInv
<1>2. Spec => []Undisturbed
  <2>1. CASE AtMostOneCancel /\ ~MayShutDown
    <3>1. SerialInv /\ phase # "stopping" => Undisturbed
      BY DEF SerialInv, DrainUndisturbed
    <3>2. Spec => []SerialInv /\ [](phase # "stopping")
      BY <2>1, SerialAlways, NeverStopping, PTL
    <3>3. QED BY <3>1, <3>2, PTL
  <2>2. CASE \A r \in Req : Kind[r] # "verify"
    <3>1. Undisturbed
      BY <2>2
    <3>2. QED BY <3>1, PTL
  <2>3. QED BY <2>1, <2>2
<1>3. Spec => []SweepInv
  BY TypeCorrect, SweepInit, SweepStepInv, PTL DEF Spec
<1>4. QED BY RequestAlways, <1>1, <1>2, <1>3, PTL DEF Spec, LivePreviewsKept

-----------------------------------------------------------------------------
\* CoreRequests implements RequestPromise, for any set of requests: every step of a task,
\* a worker thread or the client is a step of the promise or leaves it alone.

StaysUp == phase # "stopping"

\* What a step of the core may look like to the client.
PromiseStep == Promise!Serve \/ UNCHANGED Promise!serveVars

\* Status of one request under the refinement mapping.
Seen(q) == IF pc[q] = "idle" THEN "idle" ELSE IF reply[q] = "none" THEN "live" ELSE reply[q]

LEMMA StutterSeen ==
  ASSUME \A q \in Req : /\ Seen(q)' = Seen(q)
                        /\ Alive(q)' <=> Alive(q)
                        /\ cancels'[q] = cancels[q]
  PROVE  PromiseStep
BY DEF PromiseStep, Promise!serveVars, Seen

\* A task enters a worker, or queues for the lock.
LEMMA EnterSeen ==
  ASSUME TypeOK, SerialInv, CancelInv, StaysUp, NEW r \in Req, NEW owner, NEW ws,
         EnterWorker(r, owner, ws),
         \/ owner = lockOwner /\ pc[r] \in {"scheduled", "route"}
         \/ owner = NoReq /\ pc[r] = "running" /\ ~Alive(r),
         UNCHANGED <<cancels, reply>>
  PROVE  PromiseStep
<1>1. \A q \in Req : Alive(q) => q # r /\ lockOwner = q
  BY DEF SerialInv, WorkerWithinRequest, OwnerRuns, StaysUp
<1>2. reply[r] = "none"
  BY DEF CancelInv
<1>3. CASE owner = NoReq /\ Overtakes(ws)
  <2>1. thread' = [thread EXCEPT ![r] = "run"] /\ pc' = [pc EXCEPT ![r] = "running"]
    BY <1>3, Zenon DEF EnterWorker
  <2>2. \A q \in Req : ~Alive(q)
    BY <1>1, <1>3, RequestsAssumption DEF SerialInv, OwnerRuns
  <2>3. {q \in Req : Alive(q)} = {} /\ {q \in Req : Alive(q)}' = {r}
    BY <2>1, <2>2 DEF Alive, AliveStates, TypeOK
  <2>4. \A q \in Req : Seen(q)' = Seen(q)
    BY <2>1, <1>2 DEF Seen, TypeOK
  <2>5. Promise!BeginWork(r)
    BY <2>3, <2>4, <1>2 DEF Promise!BeginWork, Seen
  <2>6. QED BY <2>5 DEF PromiseStep, Promise!Serve
<1>4. CASE ~(owner = NoReq /\ Overtakes(ws))
  <2>1. thread' = thread /\ pc' = [pc EXCEPT ![r] = "waiting"]
    BY <1>4, Zenon DEF EnterWorker
  <2>2. QED BY <2>1, <1>2, StutterSeen DEF Seen, TypeOK, Alive
<1>5. QED BY <1>3, <1>4

\* A request is answered: its own worker is over, and a result is due.
LEMMA AnswerSeen ==
  ASSUME TypeOK, SerialInv, CancelInv, StaysUp, NEW r \in Req, NEW answer \in Replies,
         Settle(r, answer) \/ SettleOutsideTry(r, answer),
         pc[r] \in Suspended, ~Alive(r),
         answer # "result" \/ (~cancelPending[r] /\ pc[r] # "draining"),
         UNCHANGED thread
  PROVE  PromiseStep
<1>1. /\ pc' = [pc EXCEPT ![r] = "done"]
      /\ reply' = [reply EXCEPT ![r] = answer]
      /\ UNCHANGED cancels
  BY DEF Settle, SettleOutsideTry
<1>2. reply[r] = "none" /\ Seen(r) = "live"
  BY DEF CancelInv, Suspended, Seen
<1>3. answer = "result" => ~(cancels[r] > 0)
  BY DEF CancelInv, Suspended
<1>4. [q \in Req |-> Seen(q)'] = [[q \in Req |-> Seen(q)] EXCEPT ![r] = answer]
  <2>1. \A q \in Req : q # r => Seen(q)' = Seen(q)
    BY <1>1 DEF Seen, TypeOK
  <2>2. Seen(r)' = answer
    BY <1>1 DEF Seen, TypeOK, Replies
  <2>3. QED BY <2>1, <2>2
<1>5. {q \in Req : Alive(q)}' = {q \in Req : Alive(q)}
  BY DEF Alive
<1>6. Promise!Answer(r, answer)
  BY <1>1, <1>2, <1>3, <1>4, <1>5 DEF Promise!Answer, Seen
<1>7. answer \in Promise!Answers
  BY DEF Promise!Answers, Replies
<1>8. QED BY <1>6, <1>7 DEF PromiseStep, Promise!Serve

LEMMA TaskStepSeen ==
  ASSUME TypeOK, SerialInv, CancelInv, StaysUp, NEW r \in Req, TaskStep(r)
  PROVE  PromiseStep
<1> USE DEF workerVars, Replies
<1>1. CASE NeverStart(r)
  <2>1. pc' = [pc EXCEPT ![r] = "done"] /\ UNCHANGED <<reply, thread, cancels>>
    BY <1>1 DEF NeverStart
  <2>2. QED BY <1>1, <2>1, StutterSeen DEF NeverStart, Seen, Alive, TypeOK
<1>2. CASE StartMutate(r)
  BY <1>2, EnterSeen DEF StartMutate
<1>3. CASE StartRoute(r)
  BY <1>3, StutterSeen DEF StartRoute, Seen, Alive, TypeOK
<1>4. CASE StartExtract(r)
  <2>1. ~Alive(r)
    BY <1>4 DEF StartExtract, SerialInv, WorkerWithinRequest, StaysUp
  <2>2. CASE EnterWorker(r, lockOwner, waiters) /\ UNCHANGED <<cancels, reply>>
    BY <1>4, <2>2, EnterSeen DEF StartExtract
  <2>3. CASE SettleOutsideTry(r, "error") /\ UNCHANGED thread
    BY <1>4, <2>1, <2>3, AnswerSeen DEF StartExtract, Suspended
  <2>4. QED BY <1>4, <2>2, <2>3 DEF StartExtract
<1>5. CASE ReturnRoute(r)
  <2>1. ~Alive(r)
    BY <1>5 DEF ReturnRoute, SerialInv, WorkerWithinRequest, StaysUp
  <2>2. CASE EnterWorker(r, lockOwner, waiters) /\ UNCHANGED <<cancels, reply>>
    BY <1>5, <2>2, EnterSeen DEF ReturnRoute
  <2>3. CASE /\ \E answer \in {"cancelled", "error"} :
                  Settle(r, answer) \/ SettleOutsideTry(r, answer)
             /\ UNCHANGED thread
    BY <1>5, <2>1, <2>3, AnswerSeen DEF ReturnRoute, Suspended
  <2>4. QED BY <1>5, <2>2, <2>3 DEF ReturnRoute
<1>6. CASE Grant(r)
  <2>1. /\ thread' = [thread EXCEPT ![r] = "run"] /\ pc' = [pc EXCEPT ![r] = "running"]
        /\ UNCHANGED <<cancels, reply>> /\ pc[r] = "waiting" /\ lockOwner = NoReq
    BY <1>6 DEF Grant
  <2>2. \A q \in Req : ~Alive(q)
    BY <2>1, RequestsAssumption DEF SerialInv, WorkerWithinRequest, StaysUp
  <2>3. {q \in Req : Alive(q)} = {} /\ {q \in Req : Alive(q)}' = {r}
    BY <2>1, <2>2 DEF Alive, AliveStates, TypeOK
  <2>4. \A q \in Req : Seen(q)' = Seen(q)
    BY <2>1 DEF Seen, TypeOK
  <2>5. Promise!BeginWork(r)
    BY <2>1, <2>3, <2>4 DEF Promise!BeginWork, Seen, CancelInv
  <2>6. QED BY <2>5 DEF PromiseStep, Promise!Serve
<1>7. CASE AbandonWait(r)
  <2>1. ~Alive(r)
    BY <1>7 DEF AbandonWait, SerialInv, WorkerWithinRequest, StaysUp
  <2>2. QED BY <1>7, <2>1, AnswerSeen DEF AbandonWait, ExitCancelled, Suspended
<1>8. CASE ResumeOk(r)
  <2>1. ~Alive(r)
    BY <1>8 DEF ResumeOk, Alive, AliveStates
  <2>2. CASE EnterWorker(r, NoReq, waiters) /\ UNCHANGED <<cancels, reply>>
    BY <1>8, <2>1, <2>2, EnterSeen DEF ResumeOk
  <2>3. CASE (Settle(r, "result") \/ Settle(r, "error")) /\ UNCHANGED thread
    BY <1>8, <2>1, <2>3, AnswerSeen DEF ResumeOk, Suspended
  <2>4. QED BY <1>8, <2>2, <2>3 DEF ResumeOk
<1>9. CASE ResumeFailed(r)
  <2>1. ~Alive(r)
    BY <1>9 DEF ResumeFailed, Alive, AliveStates
  <2>2. QED BY <1>9, <2>1, AnswerSeen DEF ResumeFailed, Suspended
<1>10. CASE Interrupt(r)
  <2>1. CASE pc' = [pc EXCEPT ![r] = "draining"] /\ UNCHANGED <<cancels, reply>>
    BY <1>10, <2>1, StutterSeen DEF Interrupt, Seen, Alive, TypeOK
  <2>2. CASE ~Alive(r) /\ ExitCancelled(r)
    BY <1>10, <2>2, AnswerSeen DEF Interrupt, ExitCancelled, Suspended
  <2>3. QED BY <1>10, <2>1, <2>2 DEF Interrupt
<1>11. CASE Drain(r)
  <2>1. ~Alive(r)
    BY <1>11 DEF Drain, SerialInv, DrainUndisturbed, StaysUp
  <2>2. QED BY <1>11, <2>1, AnswerSeen DEF Drain, ExitCancelled, Suspended
<1>12. QED
  BY <1>1, <1>2, <1>3, <1>4, <1>5, <1>6, <1>7, <1>8, <1>9, <1>10, <1>11 DEF TaskStep

LEMMA WorkerStepSeen ==
  ASSUME TypeOK, SerialInv, CancelInv, StaysUp, NEW r \in Req, WorkerStep(r)
  PROVE  PromiseStep
<1>1. UNCHANGED <<pc, reply, cancels>>
  BY DEF WorkerStep, WorkerMakePreview, WorkerWrite, WorkerSucceed, WorkerRaise, taskVars
<1>2. \A q \in Req : Seen(q)' = Seen(q)
  BY <1>1 DEF Seen
<1>3. Alive(r)
  BY DEF WorkerStep, WorkerMakePreview, WorkerWrite, WorkerSucceed, WorkerRaise,
         Alive, AliveStates
<1>4. \A q \in Req : q # r => ~Alive(q) /\ thread'[q] = thread[q]
  BY <1>3 DEF SerialInv, WorkersSerialized, WorkerStep, WorkerMakePreview, WorkerWrite,
              WorkerSucceed, WorkerRaise, TypeOK
<1>5. CASE Alive(r)'
  BY <1>1, <1>2, <1>3, <1>4, <1>5, StutterSeen DEF Alive
<1>6. CASE ~Alive(r)'
  <2>1. {q \in Req : Alive(q)} = {r} /\ {q \in Req : Alive(q)}' = {}
    BY <1>3, <1>4, <1>6 DEF Alive
  <2>2. Promise!EndWork(r)
    BY <1>1, <1>2, <2>1 DEF Promise!EndWork, Seen
  <2>3. QED BY <2>2 DEF PromiseStep, Promise!Serve
<1>7. QED BY <1>5, <1>6

LEMMA OtherStepSeen ==
  ASSUME TypeOK, SerialInv, CancelInv, StaysUp,
         \/ \E r \in Req : Arrive(r) \/ RequestCancel(r) \/ CleanupSession(r)
         \/ PreviewCancel \/ StartCleanupAll \/ SweepStep
  PROVE  PromiseStep
<1> USE DEF taskVars, workerVars
<1>1. ASSUME NEW r \in Req, Arrive(r) PROVE PromiseStep
  <2>1. /\ pc[r] = "idle" /\ pc' = [pc EXCEPT ![r] = "scheduled"] /\ reply[r] = "none"
        /\ UNCHANGED <<reply, thread, cancels>>
    BY <1>1 DEF Arrive, CancelInv
  <2>2. [q \in Req |-> Seen(q)'] = [[q \in Req |-> Seen(q)] EXCEPT ![r] = "live"]
    BY <2>1 DEF Seen, TypeOK
  <2>3. Promise!Accept(r)
    BY <2>1, <2>2 DEF Promise!Accept, Seen, Alive
  <2>4. QED BY <2>3 DEF PromiseStep, Promise!Serve
<1>2. ASSUME NEW r \in Req, RequestCancel(r) PROVE PromiseStep
  <2>1. /\ cancels' = [cancels EXCEPT ![r] = @ + 1] /\ cancels[r] \in Nat
        /\ UNCHANGED <<pc, reply, thread>>
    BY <1>2, RequestsAssumption DEF RequestCancel, TypeOK
  <2>2. Seen(r) = "live"
    BY <1>2 DEF RequestCancel, CancelInv, Seen
  <2>3. \A q \in Req : Seen(q)' = Seen(q)
    BY <2>1 DEF Seen
  <2>4. {q \in Req : cancels[q] > 0}' = {q \in Req : cancels[q] > 0} \cup {r}
    BY <2>1 DEF TypeOK
  <2>5. Promise!Doom(r)
    BY <2>1, <2>2, <2>3, <2>4 DEF Promise!Doom, Seen, Alive
  <2>6. QED BY <2>5 DEF PromiseStep, Promise!Serve
<1>3. ASSUME UNCHANGED <<pc, reply, thread, cancels>> PROVE PromiseStep
  BY <1>3, StutterSeen DEF Seen, Alive
<1>4. ASSUME NEW r \in Req, CleanupSession(r) \/ SweepOne(r)
      PROVE  UNCHANGED <<pc, reply, thread, cancels>>
  BY <1>4 DEF CleanupSession, SweepOne
<1>5. ASSUME PreviewCancel \/ StartCleanupAll \/ StartStaleSweep \/ BecomeReady
             \/ ForgetSessions
      PROVE  UNCHANGED <<pc, reply, thread, cancels>>
  BY <1>5 DEF PreviewCancel, StartCleanupAll, StartStaleSweep, BecomeReady, ForgetSessions
<1>6. QED BY <1>1, <1>2, <1>3, <1>4, <1>5 DEF SweepStep

\* A step that keeps phase where the promise sees no difference is a step of the
\* promise, and so is the shutdown, and whatever comes after it.
LEMMA NextSeen ==
  ASSUME TypeOK, SerialInv, CancelInv, [Next]_vars
  PROVE  [Promise!PromiseNext]_(Promise!promiseVars)
<1> USE DEF Promise!promiseVars, Promise!PromiseNext
<1>1. CASE ~StaysUp
  <2>1. phase' = phase
    BY <1>1 DEF StaysUp, Next, Arrive, RequestCancel, CleanupSession, TaskStep, NeverStart,
       StartMutate, StartRoute, StartExtract, ReturnRoute, Grant, AbandonWait, ResumeOk,
       ResumeFailed, Interrupt, Drain, WorkerStep, WorkerMakePreview, WorkerWrite,
       WorkerSucceed, WorkerRaise, PreviewCancel, StartCleanupAll, SweepStep,
       StartStaleSweep, BecomeReady, ForgetSessions, SweepOne, ShutDown, vars, sweepVars
  <2>2. QED BY <1>1, <2>1 DEF StaysUp
<1>2. CASE StaysUp /\ ShutDown
  <2>1. phase' = "stopping" /\ UNCHANGED <<pc, reply, thread, cancels>>
    BY <1>2 DEF ShutDown, workerVars
  <2>2. UNCHANGED Promise!serveVars
    BY <2>1 DEF Promise!serveVars, Seen, Alive
  <2>3. QED BY <1>2, <2>1, <2>2 DEF StaysUp, Promise!Close
<1>3. CASE StaysUp /\ ~ShutDown
  <2>1. PromiseStep
    <3>1. CASE UNCHANGED vars
      BY <3>1, StutterSeen DEF vars, taskVars, workerVars, Seen, Alive
    <3>2. CASE Next
      BY <1>3, <3>2, TaskStepSeen, WorkerStepSeen, OtherStepSeen DEF Next
    <3>3. QED BY <3>1, <3>2
  <2>2. StaysUp'
    BY <1>3 DEF StaysUp, Next, Arrive, RequestCancel, CleanupSession, TaskStep, NeverStart,
       StartMutate, StartRoute, StartExtract, ReturnRoute, Grant, AbandonWait, ResumeOk,
       ResumeFailed, Interrupt, Drain, WorkerStep, WorkerMakePreview, WorkerWrite,
       WorkerSucceed, WorkerRaise, PreviewCancel, StartCleanupAll, SweepStep,
       StartStaleSweep, BecomeReady, ForgetSessions, SweepOne, vars, sweepVars
  <2>3. QED BY <1>3, <2>1, <2>2 DEF PromiseStep, StaysUp
<1>4. QED BY <1>1, <1>2, <1>3

\* The request core keeps RequestPromise for a client that cancels a request at
\* most once, through every fault, until stdin ends.
THEOREM CoreKeepsPromise ==
  ASSUME AtMostOneCancel
  PROVE  Spec => KeepsPromise
<1>1. Init => Promise!PromiseInit
  BY DEF Init, Promise!PromiseInit, Alive, AliveStates
<1>2. TypeOK /\ SerialInv /\ CancelInv /\ [Next]_vars
        => [Promise!PromiseNext]_(Promise!promiseVars)
  BY NextSeen
<1>3. QED
  BY <1>1, <1>2, SerialAlways, CancelAlways, PTL
     DEF Spec, KeepsPromise, Promise!PromiseSpec
=============================================================================
