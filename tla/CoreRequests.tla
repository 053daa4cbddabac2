---------------------------- MODULE CoreRequests ----------------------------
(***************************************************************************)
(* The asyncio half of the Avikal core: the JSON-RPC server's request      *)
(* tasks (core/rpc_stdio.py), the archive handlers with their cancellation *)
(* tokens and the lock that admits one archive worker thread at a time     *)
(* (core/services.py), and the preview directories that hold decrypted     *)
(* files (core/preview_sessions.py).                                       *)
(*                                                                         *)
(* A step of an event-loop task runs from one await to the next without    *)
(* interruption, so each task action below is one such step: everything a  *)
(* handler does after it is resumed, up to its next await or its reply.    *)
(* Worker threads, the preview sweeper and the client interleave with it.  *)
(***************************************************************************)
EXTENDS Naturals, Sequences, FiniteSets, SequencesExt

CONSTANTS
  Req,          \* ids of the archive requests the client may send
  Kind,         \* the method each request calls
  NoReq,        \* the free lock's owner
  MaxCancels,   \* how often request.cancel may name one request
  MaxSweeps,    \* how often the client sends preview.cleanupAll
  Faults,       \* what may fail: see FaultNames
  EarlyClient,  \* may requests arrive before the core reports ready?
  MayShutDown   \* may stdin reach its end?

\* archive.encrypt, rekey, splitVolumes and joinVolumes: one worker, no token
\* in _active_decrypt_tokens.
\* archive.openSession, archive.decrypt of a regular archive and of a time
\* capsule, archive.extractSelection, extractAll and verifyAll.
Kinds == {"mutate", "open", "decrypt", "capsule", "extract", "extractAll", "verify"}

\* "route": the public route read before the worker raises; "create": no
\* preview root is usable; "value", "other": the worker raises ValueError or
\* something else; "report": the session's index was cleared while the reply
\* was built; "remove": a directory tree cannot be removed.
FaultNames == {"route", "create", "value", "other", "report", "remove"}

ASSUME RequestsAssumption ==
  /\ NoReq \notin Req
  /\ Kind \in [Req -> Kinds]
  /\ MaxCancels \in Nat
  /\ MaxSweeps \in Nat
  /\ Faults \subseteq FaultNames
  /\ EarlyClient \in BOOLEAN
  /\ MayShutDown \in BOOLEAN

VARIABLES
  pc,            \* where each request's task is suspended
  tasks,         \* StdioRpcServer.tasks: ids with an entry
  cancelPending, \* a CancelledError will be thrown at the task's next step
  cancels,       \* request.cancel calls accepted for each request
  lockOwner,     \* the crypto lock
  waiters,       \* tasks queued in asyncio.Lock.acquire, first come first served
  thread,        \* each request's current worker thread
  stage,         \* which of its workers a request has reached
  token,         \* its CancellationToken is set
  active,        \* _active_decrypt_tokens
  dir,           \* its preview directory on disk
  registered,    \* PreviewSessionStore._active_sessions
  lost,          \* history: previews unregistered while their directory stayed
  sessions,      \* archive sessions that open requests put in the store
  reply,         \* the reply queued for the client
  phase,         \* of the core process
  sweep,         \* the cleanup_stale or cleanup_all thread
  sweeps         \* cleanup_all calls so far

taskVars    == <<pc, tasks, cancelPending, cancels, stage, reply>>
lockVars    == <<lockOwner, waiters>>
workerVars  == <<thread, token>>
previewVars == <<dir, registered, lost>>
sweepVars   == <<phase, sweep, sweeps>>
vars == <<taskVars, lockVars, workerVars, active, previewVars, sessions, sweepVars>>

-----------------------------------------------------------------------------
Suspended == {"scheduled", "route", "waiting", "running", "draining"}
AliveStates == {"run", "made", "wrote"}
Outcomes == {"ok", "cancelled", "value", "other"}
Replies == {"result", "error", "cancelled"}
NoSweep == [mode |-> "idle", todo |-> {}]

Alive(r) == thread[r] \in AliveStates

\* decrypt handlers create their preview inside the worker and clean it up there
DecryptLike(r) == Kind[r] \in {"decrypt", "capsule"}
\* extract handlers create it on the event loop before the worker
ExtractLike(r) == Kind[r] \in {"extract", "extractAll", "verify"}
\* mutant of LastStage: one worker too many
LastStageOffByOne(r) == IF Kind[r] \in {"capsule", "extractAll", "verify"} THEN 3 ELSE 1
LastStage(r) == IF Kind[r] \in {"capsule", "extractAll", "verify"} THEN 2 ELSE 1
\* the worker that writes files: a capsule's first one only reads metadata, and
\* the second one of extractAll and verifyAll only hashes the payload
WritingStage(r) == IF Kind[r] = "capsule" THEN 2 ELSE 1
WritesFiles(r) == /\ DecryptLike(r) \/ ExtractLike(r)
                  /\ stage[r] = WritingStage(r)

TypeOK ==
  /\ pc \in [Req -> {"idle", "done"} \cup Suspended]
  /\ tasks \subseteq Req
  /\ cancelPending \in [Req -> BOOLEAN]
  /\ cancels \in [Req -> 0..MaxCancels]
  /\ lockOwner \in Req \cup {NoReq}
  /\ waiters \in Seq(Req)
  /\ thread \in [Req -> {"none"} \cup AliveStates \cup Outcomes]
  /\ stage \in [Req -> 1..2]
  /\ token \in [Req -> BOOLEAN]
  /\ active \subseteq Req
  /\ dir \in [Req -> {"absent", "empty", "plain"}]
  /\ registered \subseteq Req
  /\ lost \subseteq Req
  /\ sessions \subseteq Req
  /\ reply \in [Req -> {"none"} \cup Replies]
  /\ phase \in {"starting", "ready", "stopping"}
  /\ sweep \in [mode : {"idle", "stale", "all"}, todo : SUBSET Req]
  /\ sweeps \in 0..MaxSweeps

Init ==
  /\ pc = [r \in Req |-> "idle"]
  /\ tasks = {}
  /\ cancelPending = [r \in Req |-> FALSE]
  /\ cancels = [r \in Req |-> 0]
  /\ lockOwner = NoReq
  /\ waiters = <<>>
  /\ thread = [r \in Req |-> "none"]
  /\ stage = [r \in Req |-> 1]
  /\ token = [r \in Req |-> FALSE]
  /\ active = {}
  /\ dir = [r \in Req |-> "absent"]
  /\ registered = {}
  /\ lost = {}
  /\ sessions = {}
  /\ reply = [r \in Req |-> "none"]
  /\ phase = "starting"
  /\ sweep = NoSweep
  /\ sweeps = 0

-----------------------------------------------------------------------------
\* Pieces of a task step.

\* run() ends: it queues the reply and drops its entry.  The handler's finally
\* has discarded the token by then.
Settle(r, answer) ==
  /\ pc' = [pc EXCEPT ![r] = "done"]
  /\ reply' = [reply EXCEPT ![r] = answer]
  /\ tasks' = tasks \ {r}
  /\ cancelPending' = [cancelPending EXCEPT ![r] = FALSE]
  /\ active' = active \ {r}
  /\ UNCHANGED <<cancels, stage>>

\* An exception raised before the handler's try block: the reply is sent, but no
\* finally runs and the token stays in the set.
SettleOutsideTry(r, answer) ==
  /\ pc' = [pc EXCEPT ![r] = "done"]
  /\ reply' = [reply EXCEPT ![r] = answer]
  /\ tasks' = tasks \ {r}
  /\ cancelPending' = [cancelPending EXCEPT ![r] = FALSE]
  /\ active' = active \cup {r}
  /\ UNCHANGED <<cancels, stage>>

\* asyncio.Lock.acquire takes the fast path only if every queued waiter was
\* cancelled; the worker thread is started in the same step.
Overtakes(ws) == \A i \in DOMAIN ws : cancelPending[ws[i]]

\* mutant of EnterWorker: the worker is started without the lock
EnterWorkerUnlocked(r, owner, ws) ==
  /\ lockOwner' = r
  /\ waiters' = ws
  /\ thread' = [thread EXCEPT ![r] = "run"]
  /\ pc' = [pc EXCEPT ![r] = "running"]

EnterWorker(r, owner, ws) ==
  \/ /\ owner = NoReq
     /\ Overtakes(ws)
     /\ lockOwner' = r
     /\ waiters' = ws
     /\ thread' = [thread EXCEPT ![r] = "run"]
     /\ pc' = [pc EXCEPT ![r] = "running"]
  \/ /\ ~(owner = NoReq /\ Overtakes(ws))
     /\ lockOwner' = owner
     /\ waiters' = Append(ws, r)
     /\ pc' = [pc EXCEPT ![r] = "waiting"]
     /\ UNCHANGED thread

\* mutant of ReleaseLock: the lock is not given back
ReleaseForgotten == UNCHANGED lockVars

ReleaseLock == lockOwner' = NoReq /\ UNCHANGED waiters

LeaveQueue(r) ==
  \E i \in DOMAIN waiters : waiters[i] = r /\ waiters' = RemoveAt(waiters, i)

\* PreviewSessionStore.cleanup: only a registered session is removed, and it is
\* unregistered even when part of its tree could not be deleted.
CleanupPreview(r) ==
  /\ registered' = registered \ {r}
  /\ \/ /\ r \in registered
        /\ dir' = [dir EXCEPT ![r] = "absent"]
        /\ UNCHANGED lost
     \/ /\ r \in registered
        /\ "remove" \in Faults
        /\ lost' = lost \cup {r}
        /\ UNCHANGED dir
     \/ /\ r \notin registered
        /\ UNCHANGED <<dir, lost>>

\* verifyAll cleans up in its finally; the other handlers only in the except
\* clauses for OperationCancelled and ValueError, which a CancelledError and
\* any other exception pass by.
CleanupInFinally(r) ==
  IF Kind[r] = "verify" THEN CleanupPreview(r) ELSE UNCHANGED previewVars

\* mutant of CleanupInExcept: the except clauses only translate the error
CleanupInExceptForgotten(r) == UNCHANGED previewVars

CleanupInExcept(r) ==
  IF ExtractLike(r) THEN CleanupPreview(r) ELSE UNCHANGED previewVars

\* mutant of ExitCancelled: a finished worker's result is delivered after all
ExitWithResult(r) ==
  /\ Settle(r, IF thread[r] = "ok" THEN "result" ELSE "cancelled")
  /\ CleanupInFinally(r)

\* The CancelledError leaves _run_crypto_worker and the handler.
ExitCancelled(r) == Settle(r, "cancelled") /\ CleanupInFinally(r)

-----------------------------------------------------------------------------
\* Request tasks.

\* A frame is read and _handle_request runs: a task for run() is created and
\* entered under the request's id.  The reader thread starts before startup().
Arrive(r) ==
  /\ pc[r] = "idle"
  /\ phase = "ready" \/ (EarlyClient /\ phase = "starting")
  /\ pc' = [pc EXCEPT ![r] = "scheduled"]
  /\ tasks' = tasks \cup {r}
  /\ UNCHANGED <<cancelPending, cancels, stage, reply, lockVars, workerVars,
                 active, previewVars, sessions, sweepVars>>

\* request.cancel: the id is looked up in tasks; two calls before the task's
\* next step throw one CancelledError.
RequestCancel(r) ==
  /\ phase # "stopping"
  /\ r \in tasks
  /\ cancels[r] < MaxCancels
  /\ cancels' = [cancels EXCEPT ![r] = @ + 1]
  /\ cancelPending' = [cancelPending EXCEPT ![r] = pc[r] \in Suspended]
  /\ UNCHANGED <<pc, tasks, stage, reply, lockVars, workerVars, active,
                 previewVars, sessions, sweepVars>>

\* A task cancelled before its first step never enters run(): nothing is sent
\* and its entry stays in tasks.
NeverStart(r) ==
  /\ pc[r] = "scheduled"
  /\ cancelPending[r]
  /\ pc' = [pc EXCEPT ![r] = "done"]
  /\ cancelPending' = [cancelPending EXCEPT ![r] = FALSE]
  /\ UNCHANGED <<tasks, cancels, stage, reply, lockVars, workerVars, active,
                 previewVars, sessions, sweepVars>>

\* encrypt, rekey, split and join go straight to the worker.
StartMutate(r) ==
  /\ pc[r] = "scheduled"
  /\ ~cancelPending[r]
  /\ Kind[r] = "mutate"
  /\ EnterWorker(r, lockOwner, waiters)
  /\ UNCHANGED <<tasks, cancelPending, cancels, stage, reply, token, active,
                 previewVars, sessions, sweepVars>>

\* decrypt and openSession register their token, then await the route read.
StartRoute(r) ==
  /\ pc[r] = "scheduled"
  /\ ~cancelPending[r]
  /\ DecryptLike(r) \/ Kind[r] = "open"
  /\ active' = active \cup {r}
  /\ pc' = [pc EXCEPT ![r] = "route"]
  /\ UNCHANGED <<tasks, cancelPending, cancels, stage, reply, lockVars, workerVars,
                 previewVars, sessions, sweepVars>>

\* extractSelection, extractAll and verifyAll look the session up, register
\* their token and make the preview directory; if that fails the token stays.
StartExtract(r) ==
  /\ pc[r] = "scheduled"
  /\ ~cancelPending[r]
  /\ ExtractLike(r)
  /\ \/ /\ dir' = [dir EXCEPT ![r] = "empty"]
        /\ registered' = registered \cup {r}
        /\ active' = active \cup {r}
        /\ EnterWorker(r, lockOwner, waiters)
        /\ UNCHANGED <<tasks, cancelPending, cancels, stage, reply, token, lost>>
     \/ /\ "create" \in Faults
        /\ SettleOutsideTry(r, "error")
        /\ UNCHANGED <<lockVars, workerVars, previewVars>>
  /\ UNCHANGED <<sessions, sweepVars>>

\* The route read is over, or the task is cancelled while it waits for it.  Only
\* archive.decrypt awaits it inside its try block.
ReturnRoute(r) ==
  /\ pc[r] = "route"
  /\ \/ /\ ~cancelPending[r]
        /\ EnterWorker(r, lockOwner, waiters)
        /\ UNCHANGED <<tasks, cancelPending, cancels, stage, reply, token, active>>
     \/ \E answer \in Replies :
          /\ \/ cancelPending[r] /\ answer = "cancelled"
             \/ ~cancelPending[r] /\ answer = "error" /\ "route" \in Faults
          /\ IF Kind[r] = "open" THEN SettleOutsideTry(r, answer) ELSE Settle(r, answer)
          /\ UNCHANGED <<lockVars, workerVars>>
  /\ UNCHANGED <<previewVars, sessions, sweepVars>>

\* The released lock wakes the first waiter.
Grant(r) ==
  /\ pc[r] = "waiting"
  /\ ~cancelPending[r]
  /\ lockOwner = NoReq
  /\ waiters # <<>> /\ Head(waiters) = r
  /\ lockOwner' = r
  /\ waiters' = Tail(waiters)
  /\ thread' = [thread EXCEPT ![r] = "run"]
  /\ pc' = [pc EXCEPT ![r] = "running"]
  /\ UNCHANGED <<tasks, cancelPending, cancels, stage, reply, token, active,
                 previewVars, sessions, sweepVars>>

\* Cancelled while queued for the lock.
AbandonWait(r) ==
  /\ pc[r] = "waiting"
  /\ cancelPending[r]
  /\ LeaveQueue(r)
  /\ token' = [token EXCEPT ![r] = TRUE]
  /\ ExitCancelled(r)
  /\ UNCHANGED <<lockOwner, thread, sessions, sweepVars>>

\* The worker finished and the shield returns its result: the next worker of
\* the request, the reply, or the reply fails because the session was cleared.
ResumeOk(r) ==
  /\ pc[r] = "running"
  /\ ~cancelPending[r]
  /\ thread[r] = "ok"
  /\ \/ /\ stage[r] < LastStage(r)
        /\ stage' = [stage EXCEPT ![r] = @ + 1]
        /\ EnterWorker(r, NoReq, waiters)
        /\ UNCHANGED <<tasks, cancelPending, cancels, reply, active, previewVars>>
     \/ /\ stage[r] = LastStage(r)
        /\ Settle(r, "result")
        /\ CleanupInFinally(r)
        /\ ReleaseLock
        /\ UNCHANGED thread
     \/ /\ stage[r] = LastStage(r)
        /\ ExtractLike(r)
        /\ "report" \in Faults
        /\ Settle(r, "error")
        /\ CleanupInFinally(r)
        /\ ReleaseLock
        /\ UNCHANGED thread
  /\ UNCHANGED <<token, sessions, sweepVars>>

\* The worker raised: OperationCancelled and ValueError have an except clause.
ResumeFailed(r) ==
  /\ pc[r] = "running"
  /\ ~cancelPending[r]
  /\ thread[r] \in {"cancelled", "value", "other"}
  /\ Settle(r, "error")
  /\ IF thread[r] = "other" THEN CleanupInFinally(r) ELSE CleanupInExcept(r)
  /\ ReleaseLock
  /\ UNCHANGED <<workerVars, sessions, sweepVars>>

\* mutant of Interrupt: the task answers without waiting for its worker
InterruptAnswers(r) ==
  /\ pc[r] = "running"
  /\ cancelPending[r]
  /\ token' = [token EXCEPT ![r] = TRUE]
  /\ UNCHANGED lockVars
  /\ ExitCancelled(r)
  /\ UNCHANGED <<thread, sessions, sweepVars>>

\* CancelledError at the first shield: the token is set and the task waits for
\* the worker, unless that is already over and its outcome is dropped.
Interrupt(r) ==
  /\ pc[r] = "running"
  /\ cancelPending[r]
  /\ token' = [token EXCEPT ![r] = TRUE]
  /\ \/ /\ Alive(r)
        /\ pc' = [pc EXCEPT ![r] = "draining"]
        /\ cancelPending' = [cancelPending EXCEPT ![r] = FALSE]
        /\ UNCHANGED <<tasks, cancels, stage, reply, active, lockVars, previewVars>>
     \/ /\ ~Alive(r)
        /\ ReleaseLock
        /\ ExitCancelled(r)
  /\ UNCHANGED <<thread, sessions, sweepVars>>

\* mutant of Drain: the second shield is missing
DrainAtOnce(r) ==
  /\ pc[r] = "draining"
  /\ ReleaseLock
  /\ ExitCancelled(r)
  /\ UNCHANGED <<workerVars, sessions, sweepVars>>

\* The second shield returns when the worker is over.  A second CancelledError
\* is not an Exception: it leaves at once and the lock goes with it.  So does
\* the cancellation of the worker's own asyncio task when the loop shuts down.
Drain(r) ==
  /\ pc[r] = "draining"
  /\ ~Alive(r) \/ cancelPending[r] \/ phase = "stopping"
  /\ ReleaseLock
  /\ ExitCancelled(r)
  /\ UNCHANGED <<workerVars, sessions, sweepVars>>

TaskStep(r) ==
  \/ NeverStart(r) \/ StartMutate(r) \/ StartRoute(r) \/ StartExtract(r)
  \/ ReturnRoute(r) \/ Grant(r) \/ AbandonWait(r)
  \/ ResumeOk(r) \/ ResumeFailed(r) \/ Interrupt(r) \/ Drain(r)

-----------------------------------------------------------------------------
\* Worker threads.

\* The decrypt workers create their own preview directory.
WorkerMakePreview(r) ==
  /\ thread[r] = "run"
  /\ DecryptLike(r) /\ WritesFiles(r)
  /\ thread' = [thread EXCEPT ![r] = "made"]
  /\ dir' = [dir EXCEPT ![r] = "empty"]
  /\ registered' = registered \cup {r}
  /\ UNCHANGED <<taskVars, lockVars, token, active, lost, sessions, sweepVars>>

\* The extraction makes its output root if it is missing, then writes plaintext;
\* verify-only extraction writes nothing.
WorkerWrite(r) ==
  /\ WritesFiles(r)
  /\ thread[r] = IF DecryptLike(r) THEN "made" ELSE "run"
  /\ thread' = [thread EXCEPT ![r] = "wrote"]
  /\ dir' = [dir EXCEPT ![r] = IF Kind[r] # "verify" THEN "plain"
                               ELSE IF @ = "absent" THEN "empty" ELSE @]
  /\ UNCHANGED <<taskVars, lockVars, token, active, registered, lost, sessions, sweepVars>>

\* The worker returns.  An opened session is in the store from here on.
WorkerSucceed(r) ==
  /\ thread[r] = IF WritesFiles(r) THEN "wrote" ELSE "run"
  /\ thread' = [thread EXCEPT ![r] = "ok"]
  /\ sessions' = IF Kind[r] = "open" THEN sessions \cup {r} ELSE sessions
  /\ UNCHANGED <<taskVars, lockVars, token, active, previewVars, sweepVars>>

\* It raises: at a check_cancelled once its token is set, or for a fault.  The
\* decrypt workers remove the preview they made.
WorkerRaise(r) ==
  /\ Alive(r)
  /\ \E outcome \in {"cancelled", "value", "other"} :
       /\ IF outcome = "cancelled" THEN token[r] ELSE outcome \in Faults
       /\ thread' = [thread EXCEPT ![r] = outcome]
  /\ IF DecryptLike(r) /\ thread[r] \in {"made", "wrote"}
     THEN CleanupPreview(r)
     ELSE UNCHANGED previewVars
  /\ UNCHANGED <<taskVars, lockVars, token, active, sessions, sweepVars>>

WorkerStep(r) ==
  WorkerMakePreview(r) \/ WorkerWrite(r) \/ WorkerSucceed(r) \/ WorkerRaise(r)

-----------------------------------------------------------------------------
\* Other requests: preview.cancel, preview.cleanupSession, preview.cleanupAll.

\* mutant of PreviewCancel: it reaches the tokens of every running worker
PreviewCancelAll ==
  /\ phase # "stopping"
  /\ token' = [r \in Req |-> token[r] \/ Alive(r)]
  /\ UNCHANGED <<taskVars, lockVars, thread, active, previewVars, sessions, sweepVars>>

\* preview.cancel sets every registered token, whatever operation it is for.
PreviewCancel ==
  /\ phase # "stopping"
  /\ token' = [r \in Req |-> token[r] \/ r \in active]
  /\ UNCHANGED <<taskVars, lockVars, thread, active, previewVars, sessions, sweepVars>>

\* The client names a preview session it was told of; preview.cancel with a
\* session id ends the same way.
CleanupSession(r) ==
  /\ phase # "stopping"
  /\ reply[r] = "result"
  /\ DecryptLike(r) \/ Kind[r] \in {"extract", "extractAll"}
  /\ CleanupPreview(r)
  /\ UNCHANGED <<taskVars, lockVars, workerVars, active, sessions, sweepVars>>

\* cleanup_stale at startup and cleanup_all list the preview root ...
ListPreviews(mode) ==
  /\ sweep.mode = "idle"
  /\ sweep' = [mode |-> mode, todo |-> {r \in Req : dir[r] # "absent"}]

\* mutant of StartStaleSweep: startup does not wait for it
StartStaleSweepLate ==
  /\ phase # "stopping"
  /\ ListPreviews("stale")
  /\ UNCHANGED <<taskVars, lockVars, workerVars, active, previewVars, sessions,
                 phase, sweeps>>

StartStaleSweep ==
  /\ phase = "starting"
  /\ ListPreviews("stale")
  /\ UNCHANGED <<taskVars, lockVars, workerVars, active, previewVars, sessions,
                 phase, sweeps>>

StartCleanupAll ==
  /\ phase = "ready"
  /\ sweeps < MaxSweeps
  /\ sweeps' = sweeps + 1
  /\ ListPreviews("all")
  /\ UNCHANGED <<taskVars, lockVars, workerVars, active, previewVars, sessions, phase>>

\* ... and remove each entry they listed.  A tree that a worker is writing to
\* may survive.
SweepOne(r) ==
  /\ r \in sweep.todo
  /\ sweep' = [sweep EXCEPT !.todo = @ \ {r}]
  /\ \E left \in {"absent"} \cup (IF Alive(r) \/ "remove" \in Faults THEN {dir[r]} ELSE {}) :
       dir' = [dir EXCEPT ![r] = left]
  /\ UNCHANGED <<taskVars, lockVars, workerVars, active, registered, lost, sessions,
                 phase, sweeps>>

\* startup() returns and the ready notification is sent.
BecomeReady ==
  /\ phase = "starting"
  /\ sweep.mode = "stale" /\ sweep.todo = {}
  /\ sweep' = NoSweep
  /\ phase' = "ready"
  /\ UNCHANGED <<taskVars, lockVars, workerVars, active, previewVars, sessions, sweeps>>

\* cleanup_all ends by forgetting every session, those it never listed too.
ForgetSessions ==
  /\ sweep.mode = "all" /\ sweep.todo = {}
  /\ sweep' = NoSweep
  /\ registered' = {}
  /\ lost' = lost \cup registered
  /\ UNCHANGED <<taskVars, lockVars, workerVars, active, dir, sessions, phase, sweeps>>

SweepStep ==
  \/ StartStaleSweep \/ BecomeReady \/ ForgetSessions
  \/ \E r \in Req : SweepOne(r)

\* End of stdin: run() returns and asyncio.run cancels every task that is left.
ShutDown ==
  /\ MayShutDown
  /\ phase = "ready"
  /\ phase' = "stopping"
  /\ cancelPending' = [r \in Req |-> pc[r] \in Suspended]
  /\ UNCHANGED <<pc, tasks, cancels, stage, reply, lockVars, workerVars, active,
                 previewVars, sessions, sweep, sweeps>>

Next ==
  \/ \E r \in Req : Arrive(r) \/ RequestCancel(r) \/ CleanupSession(r)
  \/ \E r \in Req : TaskStep(r) \/ WorkerStep(r)
  \/ PreviewCancel
  \/ StartCleanupAll
  \/ SweepStep
  \/ ShutDown

Spec == Init /\ [][Next]_vars

\* The event loop runs every task that can run, worker threads work through a
\* finite archive, and startup is not held up.  The client owes nothing.
Fairness ==
  /\ \A r \in Req : WF_vars(TaskStep(r)) /\ WF_vars(WorkerStep(r))
  /\ WF_vars(SweepStep)

FairSpec == Spec /\ Fairness

-----------------------------------------------------------------------------
\* Properties.

\* services._run_crypto_worker, "Run one archive worker without blocking or
\* overlapping the event loop": two worker threads never run at once, not even
\* when a task is cancelled while its worker runs.
WorkersSerialized == \A q, r \in Req : Alive(q) /\ Alive(r) => q = r

\* Until the core shuts down a worker thread runs only while its own request
\* holds the lock and is suspended in _run_crypto_worker: no handler's finally
\* scrubs the passwords, or removes the preview, of a worker that still runs.
WorkerWithinRequest ==
  \A r \in Req : Alive(r) /\ phase # "stopping" =>
                   lockOwner = r /\ pc[r] \in {"running", "draining"}

\* A token outlives its request in _active_decrypt_tokens only if the request
\* failed outside its handler's try block: openSession before its worker, an
\* extraction that could not make its preview.  archive.decrypt never leaks one.
TokensAccounted ==
  \A r \in active :
    \/ pc[r] \in Suspended \ {"scheduled"}
    \/ /\ pc[r] = "done" /\ reply[r] # "result" /\ thread[r] = "none"
       /\ Kind[r] = "open" \/ ExtractLike(r)

\* Nothing but its own request.cancel, or the shutdown, stops a request: a worker
\* that writes an archive is never interrupted by preview.cancel, and a request
\* that gets no reply at all was cancelled before its first step (its id then
\* stays in tasks for good).
OnlyCancelStops ==
  \A r \in Req :
    /\ Kind[r] = "mutate" /\ token[r] => cancels[r] > 0 \/ phase = "stopping"
    /\ pc[r] = "done" /\ reply[r] = "none" =>
         r \in tasks /\ thread[r] = "none" /\ (cancels[r] > 0 \/ phase = "stopping")

\* A request.cancel that was accepted is never answered with a result.
CancelWins == \A r \in Req : reply[r] = "result" => cancels[r] = 0

\* What can leave a preview behind that no reply named: request.cancel, whose
\* CancelledError only verifyAll's finally handles; in an extraction, also an
\* exception other than ValueError or a reply that could not be built; cleanup_all forgetting its session or a tree
\* that could not be removed; the end of the process.
MayStrand(r) ==
  \/ cancels[r] > 0 /\ Kind[r] # "verify"
  \/ thread[r] = "other" /\ Kind[r] \in {"extract", "extractAll"}
  \/ thread[r] = "ok" /\ reply[r] = "error" /\ Kind[r] \in {"extract", "extractAll"}
  \/ r \in lost
  \/ phase = "stopping"

\* A finished request leaves a preview directory only together with the result
\* that tells the client its id, but for the cases of MayStrand.
PreviewsAccounted ==
  \A r \in Req :
    pc[r] = "done" /\ dir[r] # "absent" =>
      \/ reply[r] = "result" /\ Kind[r] # "verify" /\ r \in registered
      \/ MayStrand(r)

\* Likewise an archive session, with the payload key it holds: the client that
\* opened it knows its id, unless request.cancel dropped the answer.
SessionsAccounted ==
  \A r \in sessions :
    pc[r] = "done" => reply[r] = "result" \/ cancels[r] > 0 \/ phase = "stopping"

\* What a finished request leaves behind - a token, decrypted files, a session with
\* its payload key - was handed to the client, or is one of the cases above.
NothingStranded == TokensAccounted /\ PreviewsAccounted /\ SessionsAccounted

\* Nothing but cleanup_all removes a preview under a running worker; for a client
\* that does not wait for the ready notification, the startup sweep does too.
LivePreviewsKept ==
  [][\A r \in Req : Alive(r) /\ Alive(r)' /\ dir[r] # "absent" /\ dir'[r] = "absent"
                      => sweep.mode = "all" \/ phase = "starting"]_vars

\* Every request whose task took its first step is answered, whatever happens
\* to its worker, to the lock's other users and to itself.
StartedIsAnswered ==
  \A r \in Req : pc[r] \in Suspended \ {"scheduled"} ~> reply[r] # "none"

-----------------------------------------------------------------------------
\* Why they hold: inductive invariants.

OwnerRuns == \A r \in Req : lockOwner = r <=> pc[r] \in {"running", "draining"}

\* A CancelledError is on its way only to a suspended task, and has a sender.
CancelSent ==
  \A r \in Req : cancelPending[r] =>
    pc[r] \in Suspended /\ (cancels[r] > 0 \/ phase = "stopping")

\* A task drains its worker because of a cancellation, and the only one that
\* the client may send has been used up.
DrainUndisturbed ==
  \A r \in Req : pc[r] = "draining" =>
    (cancels[r] > 0 /\ ~cancelPending[r]) \/ phase = "stopping"

\* Once the shutdown has begun no task runs into a new worker.
StoppingHalts ==
  phase = "stopping" =>
    \A r \in Req : pc[r] \in {"idle", "done", "draining"} \/ cancelPending[r]

\* Inductive when a request is cancelled at most once: what the lock, the shield
\* and the drain of _run_crypto_worker maintain between them.
SerialInv ==
  /\ OwnerRuns
  /\ CancelSent
  /\ DrainUndisturbed
  /\ StoppingHalts
  /\ WorkerWithinRequest
  /\ WorkersSerialized

\* Inductive for any number of cancellations: an accepted request.cancel is on
\* its way to the task, or has already turned its answer.
CancelInv ==
  \A r \in Req :
    /\ reply[r] # "none" => pc[r] = "done"
    /\ cancelPending[r] => pc[r] \in Suspended
    /\ r \in tasks => pc[r] # "idle" /\ reply[r] = "none"
    /\ cancels[r] > 0 => \/ cancelPending[r]
                         \/ pc[r] = "draining"
                         \/ pc[r] = "done" /\ reply[r] # "result"

-----------------------------------------------------------------------------
\* Refinement: a request without a reply is live, also one that NeverStart
\* dropped and that will never get one.
Promise == INSTANCE RequestPromise WITH
  status <- [r \in Req |-> IF pc[r] = "idle" THEN "idle"
                           ELSE IF reply[r] = "none" THEN "live" ELSE reply[r]],
  busy   <- {r \in Req : Alive(r)},
  doomed <- {r \in Req : cancels[r] > 0},
  open   <- phase # "stopping"

\* The request tasks, the lock and the worker threads keep the promises of
\* RequestPromise to a client that cancels a request at most once.
KeepsPromise == Promise!PromiseSpec

=============================================================================
