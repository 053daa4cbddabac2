# TLA+ models of the Avikal core

Avikal packs files into encrypted `.avk` archives. A desktop shell (Electron)
starts one Python core process and talks JSON-RPC to it over its standard
streams; a command line runs the same archive code in processes of its own.
This directory holds TLA+ models of the parts of that system that are hard to
test - concurrency, cancellation, crashes, what is left behind, what may open an
archive and when, the codec that hides a keychain in a game of chess - with the
TLC configurations that check them and TLAPS proofs of the central results.

Paths are relative to `src/backend/src/avikal_backend/` unless they start with
`electron/`, `frontend/`, `native/` or `backend/` (then: relative to `src/`, and
`native/` to `src/backend/`).

Contents: [1 the system](#1-the-system), [2 how the parts
interact](#2-how-the-parts-interact), [3 the modules](#3-the-modules),
[4 the runs](#4-the-runs), [5 bounds](#5-bounds-and-why-they-are-enough),
[6 fairness](#6-fairness), [7 proofs](#7-proofs), [8 findings](#8-what-the-runs-found),
[9 what is left out](#9-what-is-left-out), [10 plan](#10-plan).

## 1. The system

| Component | Code | State | Operations | Model |
|---|---|---|---|---|
| JSON-RPC server | `core/rpc_stdio.py` | `tasks` by request id, outgoing queue, shutdown event | read a frame, run a request task, `request.cancel`, reply, shut down | `CoreRequests` |
| Archive handlers, crypto lock | `core/services.py` | the asyncio lock, `_active_decrypt_tokens`, request secrets | encrypt, decrypt, openSession, extractSelection, extractAll, verifyAll, rekey, split, join, closeSession, `preview.*` | `CoreRequests`; what each checks: `ArchiveGates` |
| Cancellation | `archive/pipeline/progress.py` | one `CancellationToken` per worker | `cancel`, `check_cancelled` | `CoreRequests` (`token`) |
| Preview sessions | `core/preview_sessions.py` | registered ids; directories with plaintext | create, cleanup, cleanup_all, cleanup_stale | `CoreRequests` |
| Archive session store | `core/archive_sessions.py` | sessions with payload key and index; a store lock and one lock per session | open, get, extract, verify, close, expire, evict | `ArchiveSessions` |
| Activity audit log | `audit/activity_audit.py` | a hash-chained JSONL file that processes share | record, load (with retention), summarise, export, clear | `ActivityAudit` |
| Archive publication | `archive/pipeline/multi_file_encoder.py`, `rekey.py`, `archive/format/multipart.py`, `container.py`, `archive/security/pqc_keyfile.py` | temporary artifacts, final names | create (with or without an external keyfile), rekey, split, join | `ArchivePublish`; the keys: `ArchiveKeys` |
| Temporary artifact janitor | `core/temp_janitor.py`, `core/secure_delete.py` | one registry file per process, a process lock | register, unregister, clean up at start (by registry and by age), secure removal | `ArchivePublish`, `ArchiveExtract` |
| Archive decoding gates | `archive/pipeline/multi_file_decoder.py`, `decoder.py`, `keychain_security.py`, `archive/security/time_lock.py` | temporary payload and output files | time, provider, PQC, password and signature gates; extraction | `ArchiveGates`, `ArchiveKeys`; `ArchiveExtract` |
| Indexed payload | `archive/format/indexed_payload.py`, `archive/pipeline/payload_streaming.py` | a bounded pool of encrypting workers; the payload index | write, read, extract a selection | extraction in `ArchiveExtract`, writing planned |
| Trusted time | `services/ntp_service.py` | 60 s cache of an NTP answer | fetch, interpolate, invalidate, warm up | `TrustedTime` |
| Desktop shell | `electron/main.js` | the core process, pending calls, timers | start, probe, call, time out, restart, quit | planned |
| Renderer | `frontend/src/pages/*.tsx`, `frontend/src/lib/*.ts` | the page's request and preview | cancel, discard, retry | planned in part |
| Aavrit sign-in | `core/aavrit_client.py`, `services.py` | server and mode globals | sign in, verify, commit, reveal | escrow, release and receipt in `ArchiveGates` |
| User preferences | `core/user_preferences.py` | one JSON document | load, update by atomic rename | not modelled |
| Diagnostics | `core/diagnostics.py`, `redaction.py` | an append-only log with rotation | record, export | not modelled |
| Chess codec | `chess_codec/`, `chess/`, `archive/chess_metadata.py` | none | metadata to legal moves and back | `ChessBoard`, `ChessEncoder`, `ChessDecoder` |
| Container format and metadata | `archive/format/*.py` | none | pack, unpack, validate | what is bound to what: `ArchiveKeys` |
| Cryptography | `archive/security/*.py` | none | derivation, wrapping, signatures, keyfiles | `ArchiveKeys`; the primitives are perfect |
| Native extension | `native/` | none | ciphers, accelerated codec | not modelled |
| Mnemonic, reports, packaging | `mnemonic/`, `archive/reporting.py`, `scripts/` | none | pure or build time | not modelled |

`PROJECT.json` lists the same components with their source files, and under
`hazards` what can go wrong in them, each at its line.

### What makes each component correct

* **Server and handlers.** Every request gets one reply. One archive worker at a
  time: the native code, the key buffers and the preview directories are shared.
  A request that is cancelled waits for its worker before it answers, because
  its `finally` scrubs passwords the worker may still read. The crypto lock is
  neither lost nor given twice when tasks are cancelled in its queue.
  `preview.cancel`, which a client may send at any time, does not stop an
  archive being written. Nothing stays behind without the client knowing its id:
  no token, no decrypted preview, no session with a payload key.
* **Archive sessions.** The payload key is not zeroed under a reader, is zeroed
  once nobody can reach the session, the store does not outgrow its capacity,
  and two levels of locks taken in both orders do not deadlock.
* **Audit log.** The chain verifies from the first line to the last; no recorded
  event disappears, although several processes append to and rewrite one file.
* **Publication.** What is under a final name is whole and opens; a keyfile is
  there before its archive; an archive is replaced only by someone who meant it;
  every temporary artifact with plaintext or key material is removed, by its
  process or by the next one that starts, and no clean-up takes an artifact that
  is in use.
* **Decoding and extraction.** No plaintext reaches its final place unless every
  gate - trusted time, provider, PQC key, password, signature, payload index -
  has passed and the whole payload is what the signature commits to; the user gets
  all entries or none and keeps what was there; plaintext in a temporary place is
  on record for the next clean-up, and no clean-up takes it from an extraction at
  work. A time capsule is not opened early, an archive opens to the credentials that
  are in force and to no others, whoever has them gets in, and everything one
  answer says is about one archive, although the path is opened several times.
* **Keys.** What one release of a secret opens, no other one does: the keychain, the
  wrapped payload key, the keyfile and the embedded bundle are each bound to their
  archive, and a rekeyed archive opens with its new credentials only.
* **Payload pipeline (planned).** Records are committed in input order with
  bounded memory whatever the workers' order; the Merkle root binds them.
* **Trusted time.** An answer is never older than the question nor ahead of the
  truth by more than one fetch takes, fetched or carried on from the cache, whatever
  three threads do to that cache meanwhile.
* **Chess codec.** Any number comes back from the game it was written into; it is
  refused only when the game is full; encoder, writer, reader and decoder agree on
  the rules of chess, the order of moves and the names they have.
* **Desktop shell (planned).** A late answer is not taken for another call's; a
  core that ends rejects its own calls and no others; previews do not survive
  the application.

### Which behaviours are hard

* Cancellation at any `await` of a handler, also in the lock's queue, before the
  first step, during the drain, and after the worker has finished.
* Threads beside the event loop: archive workers, the start-up sweep,
  `closeSession` in `asyncio.to_thread`.
* Checks and uses that are apart: the public route, the metadata, the provider's
  answer, the payload and a session's later reads each open the path anew, and the
  trusted clock is asked at each gate by another thread.
* Several operating-system processes on the same files with no lock between
  them: the audit log, output names, each other's registries.
* Death of a process between any two file operations, and clean-up by the next.
* One step of several failing: an artifact that cannot be unlinked, a preview
  tree that is removed in part, a reply that cannot be built.

## 2. How the parts interact

* *Calls over a pipe.* The shell writes frames; one reader thread hands them to
  the event loop, which makes a task per request. Replies go through a queue to
  one writer, in order, so a reply is modelled as sent when it is queued.
* *Shared lock.* All handlers that touch an archive pass through
  `_run_crypto_worker`, which holds one asyncio lock around one worker thread.
  `CoreRequests` models the lock; `ArchiveSessions` takes from it that at most
  one worker is running (`CryptoLockFree`), which is what `WorkersSerialized`
  says and `WorkersNeverOverlap` proves for clients that cancel once.
* *Shared file.* The core and each command line append to one audit log
  (`ActivityAudit`), publish under the same names and clean up each other's
  registries (`ArchivePublish`), and extract into the same folder while each
  process that starts sweeps the system's temporary directory (`ArchiveExtract`).
* *Shared clock.* Every gate of `ArchiveGates` asks `TrustedTime`, from the event
  loop or from the worker; `ArchiveGates` EXTENDS it, and `GatesImplementClock`
  proves that it uses it as specified.
* *Keys in a file.* `ArchiveGates` builds, rekeys and opens the records of
  `ArchiveKeys`; in the code their keychain is hidden in a game that `ChessEncoder`
  writes and `ChessDecoder` reads, which the round trip allows to leave out there.
* *Inside a worker.* What `CoreRequests` calls one worker thread is, for encrypt,
  rekey, split and join, one operation of `ArchivePublish`; for decrypt, one
  extraction of `ArchiveExtract`; for the session methods, one `WorkerStep`
  sequence of `ArchiveSessions`.

## 3. The modules

| Module | What it is |
|---|---|
| `RequestPromise` | Abstract: what a client of the archive methods is promised |
| `CoreRequests` | Request tasks, crypto lock, worker threads, previews; implements `RequestPromise` |
| `CoreRequests_proofs` | TLAPS proofs about it, and of the refinement |
| `ArchiveSessions`, `ArchiveSessions_proofs` | The session store and its two levels of locks; proofs about it |
| `ActivityAudit`, `ActivityAudit_proofs` | The log file, one action per file operation; proofs about it |
| `ArchivePublish`, `ArchivePublish_proofs` | Publication and the janitor, several processes and crashes; proofs about them |
| `ArchiveExtract` | Verified extraction into the user's folder, and clean-up by age |
| `ArchiveExtract_proofs` | TLAPS proofs about it |
| `TrustedTime`, `TrustedTime_proofs` | The clock: its cache, its lock, three threads that ask; proof about it |
| `ArchiveKeys` | Pure: which key opens what, what is bound to what, making, reading and rekeying |
| `ArchiveGates`, `ArchiveGates_proofs` | Requests that make, rekey and open archives, on `TrustedTime` and `ArchiveKeys`; proofs about the clock it uses, and about when, to whom and as what an archive opens |
| `ChessBoard` | Pure: the rules of chess, the numbering and the names of moves |
| `ChessEncoder`, `ChessEncoder_proofs` | The generator of a game; proofs about it and about the rules it relies on |
| `ChessDecoder` | Pure, recursive: writing the game out, reading it, decoding it |
| `MC...` | Instances for TLC |

Operators named as mutants in the modules are small wrong versions of a
definition; `PROJECT.json` names, for each checked property, the one that breaks
it. They are used by no specification.

### CoreRequests

A step of an asyncio task runs from one `await` to the next without
interruption, so a task action is exactly such a step, including everything the
handler and `run()` do before they are suspended or end: discarding the token,
removing a preview, releasing the lock, queueing the reply, dropping the entry.

| State | Code |
|---|---|
| `pc`, `stage` | the `await` a request's task is suspended at, and which of its workers it is at (a time capsule, `extractAll` and `verifyAll` use two) |
| `tasks` | `StdioRpcServer.tasks` |
| `cancelPending` | `Task.cancel()` was called: a `CancelledError` is thrown at the next step |
| `lockOwner`, `waiters` | `asyncio.Lock`, with its fast path and first-come queue |
| `thread`, `token` | the worker thread, its `CancellationToken` |
| `active` | `_active_decrypt_tokens` |
| `dir`, `registered` | the preview directory on disk; `PreviewSessionStore._active_sessions` |
| `sessions` | sessions an openSession left in the store |
| `phase`, `sweep` | start-up, service, shutdown; the thread of `cleanup_stale` or `cleanup_all` |

Actions: `Arrive` (`_handle_request`), `RequestCancel`, `NeverStart` (a task
cancelled before its first step), `StartMutate`, `StartRoute`, `StartExtract` (the
handlers up to their first `await`), `ReturnRoute`, `Grant`, `AbandonWait`
(`Lock.acquire`), `ResumeOk`, `ResumeFailed`, `Interrupt`, `Drain`
(`_run_crypto_worker` and the handlers' `except` and `finally`), `Worker*` (the
thread), `PreviewCancel`, `CleanupSession`, `StartStaleSweep`, `StartCleanupAll`,
`SweepOne`, `ForgetSessions`, `BecomeReady` (previews), `ShutDown`.

### ArchiveSessions

A call of the store is three steps: take the store lock and pop what is expired,
changed, evicted or asked for (`TakeStore`); close each popped session behind its
operation lock (`CloseOne`); do its own work and release the lock (`ReturnGet`,
`ReturnOpen`, `ReturnClose`). A worker reads under the operation lock between
`BeginRead` and `EndRead`. The event loop itself calls `get` before it submits a
worker, so while it waits for the store lock it does nothing else (`serving`).

### ActivityAudit

The lock of `ActivityAuditLog` excludes no other process, so every file operation
is a step: `ReadLastHash` and `AppendEntry` (record), `LoadEntries` with
`Truncate` and `Flush` (retention rewrite), `ReturnSummary`, `ReturnClear`, and
`Crash`, which may leave the first lines of a rewrite and half a line (`torn`).
A hash stands for the sequence of events it commits to.

### ArchivePublish

`Begin`, `Inspect`, `MakeTemp`, `OpenRegistry`, `Append`, `Copy`, `Complete`,
`MakeKeyTemp`, `LinkKeyfile`, `UnlinkKeyTemp`, `Recheck`, `Publish`,
`StartUnregister`, `EndUnregister`, and `Abort`, `Fail`, `Discard` for the error
paths, are the steps of create, rekey, split and join; `StartCleanup`,
`ReadRegistry`, `RemoveRecorded`, `FinishRegistry`, `EndCleanup` those of
`cleanup_startup_temp_artifacts`; `Crash` and `Damage` (a volume changes on disk)
come from outside. A file's contents are an *object* named by the operation that
built it, so that a keyfile's hard link or a wiped archive is the same object
under every name it has. `holds` records which archive's payload and which
archive's keychain an object contains.

### ArchiveExtract

| State | Code |
|---|---|
| `job`, `pc`, `index` | the kind of payload, its entries and whether it is sound; the place in `extract_multi_file_avk` or the single-file path of `extract_avk_file_enhanced`; the loop variable |
| `staged`, `committed` | what is in the private directory; `committed_outputs` |
| `mine`, `fresh`, `gone` | the temporary artifacts the Python frame will remove; the one between `mkdtemp` and `register_temp_artifact`; the one between its removal and `unregister_temp_artifact` |
| `owner`, `partial` | whose entry is under a name of the user's folder or of a preview, and whether it is still being copied |
| `temps`, `recorded`, `old` | artifacts on disk; those in a registry; those whose `st_mtime` is an hour back |
| `jpc`, `jTodo`, `jSafe`, `jOld` | a process's walk through the registries, the `active_paths` it collects, what it found old |

An artifact is named by its extraction and its role: the private directory
(`root`), the AVP2 container and the directory it is unpacked into (`container`,
`unpack`), and the file a decoder writes before its rename (`part`).

Actions: `Begin` (all the gates: nothing is on disk when one refuses), `MakeRoot`,
`NeedContainer` (`LegacyPayloadStreamingRequired`), `MakeContainer`, `MakePart`,
`Decode` (`stream_payload_to_file`), `ExtractEntry`, `Verify`, `DropContainer`,
`MakeOutput`, `Check` and `Move` (the loop around `shutil.move`), `StartCopy` and
`EndCopy` (the same across file systems, and the command line's
`_commit_core_preview_to_output`), `Undo`, `EndMove`, `EndDelivery`, `ClearPreview`,
`Fail` and `Discard` for the error paths; `Record` and `Unrecord`; `StartCleanup`,
`RemoveRecorded`, `StartSweep`, `Sweep`, `EndCleanup` for
`cleanup_startup_temp_artifacts`; `Age`, `LoseRecord` and `Crash` come from outside.

### TrustedTime

| State | Code |
|---|---|
| `cachedTime`, `cacheStamp`, `cacheHolder` | `_cached_time_ms`, `_cache_timestamp_ms`, `_cache_lock` |
| `pcOf`, `asked`, `startOf`, `answer` | each thread's call of `get_ntp_time_ms`: where it is, when it asked, its local `now`, what it is told |
| `now` | the true time; the monotonic clock runs with it |

`Ask`, `Enter`, `Use`, `Fetch`, `Store`, `FetchFails`, `Take` are a call: it takes the
lock, and carries a fresh pair on or fetches. `Fetch` is the moment the server writes
its `Date` header, `Store` that of its arrival; the pair is stamped with the time
before the request, which is why an answer may be ahead by a fetch and never more.
`Store` sets both halves of the pair at once: the only step that could come between,
an invalidation, leads to pairs that it also leads to before or after.
`ForgetTime` and `ForgetStamp` are `invalidate_cache`, two assignments without the
lock. `Prime` is the warm-up thread, allowed at any time although start-up calls it
once.

### ArchiveKeys

Cryptography is perfect: a key is the record of what it was derived from (its use,
the secret, the provider's half, the post-quantum secret, the salt), and a sealed box
opens with the key and associated data it was sealed with. What is random in one
archive has one number. `Build` is `create_multi_file_avk` from options to the signed
file, `UnlocksKeychain` every check of `unlock_archive_keychain` in one conjunction,
`OpensPayload` those of the payload, `CanRekey` and `Rekeyed` the two halves of
`rekey_avk_archive`.

### ArchiveGates

| State | Code |
|---|---|
| `disk`, `aside` | the archive at the path; another one that may take its place |
| `pc`, `req` | the request under way: where `archive.encrypt`, `archive.decrypt` or `archive.openSession` (with a later `extractSelection`) is, and its locals: the route, the metadata, the provider's key, the file held open, the file's measure |
| `calls`, `refreshes` | what a `time.ntp` request has yet to ask |
| `owner` | history: with which options an archive was made and which credentials are in force |
| `scene` | the choice of options, credentials and surroundings; constant |

Actions of making: `BeginCreate`, `CheckUnlockTime`, `CheckAligned`, `SealToRound`,
`CheckStillAhead`, `CheckNotTooFar` for drand, `CreateEscrow` for Aavrit, `Create`;
`Rekey`. Of opening: `ReadRoute`, `CheckInputs`, `CheckPublicLock`, `ReadMetadata`,
`CheckAligned`, `AskBeacon` for drand, `ReleaseEscrow` and `CheckReceipt` for Aavrit,
`OpenArchive`, `PassGate`, `OpenPayload`, `CheckCreator`, `SelectFromSession`,
`ReadSelection`, `Answer`. `AskClock` puts the question and each gate takes the answer;
between them other threads use the clock. `Swap`, `BeginRefresh` and the steps after
it, `WarmUpStarts`, `WarmUpEnds` and `TimePasses` are the surroundings. Each action that reads
the path reads what is there then, which is why a file may change between the
route, the metadata and the payload.

The drand network publishes round *r* at *r* times `Period`; the Aavrit authority
has a true clock of its own. Both are external and modelled by what
`drand_timelock_helper.mjs` and `aavrit_client.py` make of their answers.

### ChessBoard, ChessEncoder, ChessDecoder

`ChessBoard` is `chess/board.py`: pseudo-legal moves, attacks, making a move, legal
moves in the order of their UCI names, the name of a move (`San`) and the moves a
name may mean (`Meant`).

`ChessEncoder` is `chess_codec/encoder.py`, one action per move written or position
left: `MainPly`, `EndMainline` (`_encode_mainline`), `AddVariation`, `BranchPly`,
`EndBranch`, `NextPosition`, `NextRound`, `EndLevel`
(`_distribute_variations_recursive` and what it calls), `Descend`, `Finish` (its
recursion, as a stack of end points). A node of the game is the sequence of moves
that leads to it; `kids`, `boards` and `open` are what the code keeps at a node.
`value` and `capacity` are history: the digits so far as a number, and their weight.
The code starts every game from the standard position; the module takes any position
that is `Sound`, which is what the move generator relies on without checking it: one king
each, the side that has just moved not in check, no pawn on an edge rank, castling rights
only with king and rook at home, an en passant square behind a pawn. Its three limits are
at least 1 (`LimitsAssumption`; a round that deals nothing would end a level at once).
`DigitOf` is the decoder's reading of one move, and `DigitsReadBack` compares it with the
digit that was written, now and after every later move.

`ChessDecoder` writes the game out as moves and brackets (`WriteLine`), reads it back
(`Read`, `pgn.py`) and decodes it (`Decode`, `decoder.py`). Its definitions are
recursive and not proved about; the properties of the encoder that need none of them are
stated in `ChessEncoder`.

## 4. The runs

| Run | Question | Properties |
|---|---|---|
| `core_cancel` | Do the lock, the drain and the replies survive cancellation, faults and shutdown? | `WorkersSerialized`, `WorkerWithinRequest`, `CancelWins`, `OnlyCancelStops`, `StartedIsAnswered`, `KeepsPromise` |
| `core_strand` | What does a finished request leave behind, and who takes a preview from a running worker? | `NothingStranded`, `LivePreviewsKept` |
| `core_double_cancel` | Does one worker at a time survive a second cancellation? | `WorkersSerialized` - violated |
| `sessions_safe` | Can a key be zeroed in use or forgotten, can the capacity be passed, do two levels of locks deadlock the event loop? | `KeyKeptWhileReading`, `RemovedMeansZeroed`, `FailureAccounted`, `StoreCallsReturn`; the capacity is in `TypeOK` |
| `audit_shared` | Which events can two processes lose, and when does the chain hold? | `FileChains`, `LossAccounted` |
| `audit_retention` | Does the log the code wrote verify? | `SummaryVerified` - violated |
| `publish_safe` | Is what is under a final name whole, and is every leftover explained? | `PublishedOpens`, `KeyfileBesideArchive`, `LiveTempKept`, `LeftoversAccounted`, `ReplacedKnowingly` |
| `publish_keyfile` | Is a published keyfile ever wiped? | `KeyfilesIntact` - violated |
| `extract_safe` | Is what reaches the user's folder verified and whole, and is decrypted content always on record and never swept in use? | `NothingUnverified`, `AllOrNothing`, `UserFilesKept`, `WorkKept`, `PlaintextOnRecord` |
| `extract_tree` | Does an extraction refuse only what others put there? | `RefusesOnlyOthers` - violated |
| `gates` | Does an archive open at its time, to its credentials, to those alone, and as one archive? | `NeverEarly`, `OnlyEntitled`, `RefusedWithReason`, `OneArchive`, `AnswersTrue` |
| `chess_codec` | Does a number come back from its game, and is it refused only when it must be? | `Conserved`, `RoundTrip`, `NamesTellMovesApart`, `RefusedOnlyWhenFull`, `BoardSound`, `DigitsReadBack` |

Every module's `TypeOK` is checked by one of its passing runs, with two exceptions: that
of `ActivityAudit` is a theorem only (`AuditTypeCorrect`), and the codec has none,
`BoardSound` says more of its positions.

Some invariants state exactly when something goes wrong instead of that it never
does, because the code does let it happen. They are the most useful ones to a
maintainer, since each exception is a line to repair:

* `NothingStranded`, tokens: one stays in `_active_decrypt_tokens` if openSession
  fails at its route read (`services.py:1677` registers it before the `try`), or an
  extraction cannot make its preview. A later `preview.cancel` reaches it in vain.
* `NothingStranded`, previews (`MayStrand`): plaintext stays without its id being
  known after `request.cancel` (`CancelledError` passes the `except` clauses of the
  extract handlers; and a decrypt worker that finished before the cancellation),
  after an exception other than `ValueError` in an extraction, after `cleanup_all`
  forgot a session it had not listed, and at shutdown. The next start's
  `cleanup_stale` removes it.
* `NothingStranded`, sessions: a cancelled openSession leaves its session, with its
  key, in the store, where only expiry or eviction ends it.
* `OnlyCancelStops`: a writer is stopped by its own request's cancellation only; a
  request cancelled before its task's first step is never answered and keeps its
  entry in `tasks`, so its id cannot be used again.
* `LossAccounted`: an audit event is lost if it was appended while another process
  rewrote the file, if its rewrite was read half done, or by a crash in a rewrite.
* `FailureAccounted`: a read fails after its lookup succeeded if the session was
  closed by the client, evicted by another openSession, its archive replaced, or
  it idled past the limit *during the operation itself* (`last_access` is only
  taken at lookup).
* `LeftoversAccounted`: an artifact is in no registry if its process died before
  recording it, if `unregister`, which truncates the registry before it writes it
  back, was cut short or was overtaken by another process that found the file
  empty, or if it could not be unlinked.
* `AllOrNothing`: `os.path.exists` and `shutil.move` are two steps, so an entry
  another extraction moves in between is replaced, and either's roll-back, which
  goes by name, may remove the other's; a single file of the older formats
  replaces whatever is there without looking; a copy that fails half-way is not
  among `committed_outputs` and is left incomplete.
* `PlaintextOnRecord`: the private directory is on record except before it is
  recorded, if the record was lost, or if it cannot be unlinked. In particular it
  *stays*, with its record, when the output folder cannot be created
  (`multi_file_decoder.py:902` is outside every `try`): the next start removes it.
* `RefusedWithReason`: who has the credentials of an archive that is due is refused
  if the file was exchanged or rekeyed while the request ran, the provider is out of
  reach, the client is not signed in, the system's clock disagrees with the trusted
  one, the trusted clock cannot be had - or its cached pair was forgotten between two
  reads of it by `invalidate_cache`, which takes no lock (`Broken`, a `TypeError`).
* `NeverEarly` holds exactly, with no tolerance for the clock, which may be ahead by a
  fetch: the second half of the key does not come from the clock but from the
  provider, and a round of drand never comes before the time it was chosen for.
* `WorkKept`: an extraction that runs for more than an hour is protected by its
  record alone; without it the next process that starts sweeps its directory.

## 5. Bounds, and why they are enough

* `core_cancel`: three requests - one with a single worker and a token (decrypt),
  one with two workers and a preview made on the event loop (extractAll), one
  writer (encrypt, rekey, split, join) - so that one can hold the lock, one wait,
  and one be woken or abandon the queue between them. `MaxCancels = 1` is the
  assumption of the theorems; `core_double_cancel` shows why it is one. The
  faults that matter for tokens, locks and replies are on; those that only change
  what stays on disk (`report`, `remove`) are in the next run.
* `core_strand`: openSession, a time capsule and extractSelection cover the
  three ways a token, a preview or a session comes into being; all faults; one
  `cleanup_all`, one early client.
* `sessions_safe`: a store of one with two sessions opened makes every open
  evict; one idle tick over the limit; one closing thread; a job with one worker
  and one with two. The same run checks `StoreCallsReturn`, under fairness.
* `audit_shared`: two processes, four events, three loads, one crash: an
  append before, between and behind a rewrite's entries, two rewrites that find
  each other, and one event after a torn line. `audit_retention` needs one process
  and two events.
* `publish_safe`: one core (two clean-ups) and one command line, a stored archive,
  a volume set made of it, one free name; the command line may do any of six jobs
  and the core three, so that every two kinds meet on one name. One crash, one
  artifact that cannot be unlinked. A process runs one operation: a second one
  would only find the state the other process can produce as well.

* `extract_safe`: one process that extracts an indexed archive with an empty folder
  or an AVP2 one, sound or damaged; another that does one of four other kinds,
  into a folder that already holds one of the names. They share the name `f`, so
  they race; `g` is taken, so the second entry of one job fails after its first
  was moved. Each process cleans up once, at its start. One crash, one thing that
  cannot be unlinked, one record lost: 2 million states. `extract_tree` is one
  extraction with nothing going wrong.
* `chess_codec`: `MaxMainline = MaxVar = PerRound = 2` in place of 250, 40 and 5, so
  that a number of a few digits passes through mainline, rounds, branches and
  descents. Nine starting positions instead of the standard one alone: they are what
  long games come to, put first. The numbers are 1 to 30, which enumerate every first
  choice, and larger ones up to 198765432, which fill several levels.
* `gates`: every set of options (password, keyphrase, no provider, drand or Aavrit,
  four ways to keep post-quantum material) with each of 81 sets of credentials
  (`Matrix`); what may not be made (`Unmakeable`); one archive rekeyed again and again
  with every mix of secrets and signers (`Rekeying`); every two archives exchanged
  twice under a running request (`Exchanged`); and the clock's threads against each
  other, with failures, a forgotten cache and a wrong system clock (`Contended`).
  These do not multiply: a scene is one of them. `CacheLife = 2` and `FetchLimit = 1`
  let a pair be young, carried on and too old within four seconds; `Period = 2` gives a
  capsule a round at its time and a round after it. `TimePasses` does not let time
  pass between two instructions, and in calm scenes only between requests. 1.9
  million states.
* `Age` lets an hour pass anywhere except between creating an artifact and
  recording it, while a decoder is writing into its file, and during a walk through
  the registries, none of which takes that long; and not when no clean-up is to
  come, where it could make no difference.

Counters that the code does not have (`cancels`, `sweeps`, `events`, `loads`,
`crashes`) are bounded in the guards by the constants of the same name;
`stuck` by `MaxStuck`; `age` stops one tick above the limit, where nothing can
tell it from a larger one. Deadlock checking is off where the work is finite: a
client that sends nothing more, logs and operations that are done.

## 6. Fairness

`CoreRequests!Fairness`: weak fairness of each request's `TaskStep`, because the
event loop runs every ready task in turn; of each `WorkerStep`, because an archive
is finite and `check_cancelled` is only looked at between pieces of it; of
`SweepStep`, because `startup()` awaits the sweep. Nothing is assumed of the client:
`Arrive`, `RequestCancel`, `PreviewCancel`, `StartCleanupAll` and `ShutDown` may never
happen. Weak fairness is enough for the lock because its queue is first come
first served: once a waiter is at the head and the lock is free, `Grant` stays
enabled until it happens.

`ArchiveSessions!Fairness`: weak fairness of the store steps of the event loop and
of each closing thread, and of the worker jobs together, since the crypto lock
admits one at a time and a queued one owes nothing by itself. `threading.Lock`
makes no promise of order; the property holds all the same because lookups and
closes are finite in number here, so a waiting thread cannot be overtaken for
ever. It is a statement about deadlock rather than about starvation.

## 7. Proofs

Assumptions on constants: `RequestsAssumption` (`NoReq` is no request, `Kind` and
`Faults` are in range), evaluated by every run of `CoreRequests`; and, where said,
`AtMostOneCancel == MaxCancels <= 1` as a hypothesis of the theorem.

* `TypeCorrect`: `Spec => []TypeOK`.
* `WorkersNeverOverlap`, `WorkersStayWithinRequests`: under at most one cancellation
  per request. Neither invariant is inductive: that a worker overlaps nobody
  depends on its request holding the lock, which depends on its task staying in
  `_run_crypto_worker` until the thread is over. `SerialInv` adds what is needed:
  `OwnerRuns` (the lock's owner is the task in the critical section),
  `CancelSent` (a pending `CancelledError` has a sender and a suspended target),
  `DrainUndisturbed` (a draining task's only cancellation is used up, so `Drain`
  waits) and `StoppingHalts` (after shutdown has begun every suspended task meets
  its cancellation before it could start a worker; workers that drain then may
  outlive their requests, but nobody is left to overlap them).
* `CancellationWins`: for any number of cancellations. `CancelInv` says where an
  accepted cancellation is: pending, being drained, or already answered with
  something other than a result.
* `CoreKeepsPromise`: `AtMostOneCancel`, `Spec => KeepsPromise`, i.e. `CoreRequests`
  implements `RequestPromise` under the mapping written at its end. `NextSeen`
  shows that every step, from a state where the two invariants hold, is a step of
  the promise or a stutter; the promise ends when `phase` becomes `"stopping"`.
* `OnlyCancelStopsRequests`, `TokensAccountedFor`: for any number of cancellations.
  `RequestInv` says of each request, at each of its steps, whether its token may be set
  and whether it may be in `_active_decrypt_tokens`; `RequestFrame` is the one lemma that
  carries it past the steps of other requests.
* `NothingIsStranded`: under at most one cancellation per request. `PreviewInv` follows a
  preview directory through its life - created, registered, handed to the client,
  removed by the handler, swept - along with the worker that fills it; that the `finally`
  clause finds the worker gone is `SerialInv`, and fails if a request is cancelled twice.
* `LivePreviewsAreKept`: the action property that only a sweep takes a preview from a
  running worker. `verifyAll` removes its directory in a `finally` that does not wait for
  its worker, so the theorem assumes at most one cancellation and no shutdown, or else no
  request of that kind. `SweepInv` adds that a sweep that is idle has nothing left to do
  and that the one for stale previews runs before the core serves.

* `NeverUnverified`: `Spec => []NothingUnverified` for any set of archives, entries,
  processes and bounds on what goes wrong, under `ExtractAssumption`. The invariant
  `VerifiedInv` follows the payload's check along both orders the code has: an
  indexed or streamed payload is written out first and compared as a whole before
  the first entry moves (`PastIntact`), an AVP2 container is compared before it is
  unpacked and not again (`UnpackIntact`); `Placed` adds that whoever has a slot has
  begun. Clean-ups, crashes and lost records change nothing it speaks of.
* `TypeCorrect`: `Spec => []TypeOK` of `ArchiveExtract`. `StepInv` says what an extraction
  holds at each step - the artifacts it answers for, the ones it is about to record or
  forget, its position in the list of entries - and the three proofs below rest on it.
* `WorkIsKept`, `PlaintextIsOnRecord`: `RecordInv` relates the registries to the places. A
  clean-up has only records of dead processes (`DeadOnly`), what it is about to remove by
  age is not in the list of live work it collected (`Spared`), an artifact at work is in a
  registry from the step after its creation (`Registered`), one that was unrecorded is gone
  or cannot be unlinked (`GoneOrStuck`), and one that was just created is too young for the
  sweep by age (`FreshIsYoung`).
* `UserFilesAreKept`: `UserInv` says that what an extraction is filling or has committed, and so
  what it may roll back, is never the user's. A roll-back removes a directory with all that is
  below it, so the proof needs what `ExtractAssumption` says of the user's folder: whatever
  is below a folder that is there is there.
* `AllOrNothingHolds`: `PlaceInv` says what an extraction has put in place at each of its
  steps - what it committed is there and whole, the entries before its position are
  committed, and it has nothing else under a final name. The theorem assumes `Flat`, that no
  empty folder is inside another: such a pair is what `extract_tree` shows the code to
  refuse. Without the assumption the property fails: the roll-back of the outer folder takes
  along what another extraction, which has succeeded, has put below it, and an outer folder
  that cannot be unlinked keeps the inner one in place after its extraction has failed.

* `NumberConserved`: `Spec => []Conserved` for any numbers, sound starting positions and
  limits, under `GamesAssumption`. The invariant adds that `remaining`, `value` and
  `capacity` are numbers (`Numbers`), that every node has finitely many legal moves,
  of which the digit picks one (`Counted`, from the lemma that there are finitely
  many moves on a board whatever the position), and that the node where the game
  grows, the positions dealt to, the ends and the agenda are nodes of the game
  (`Known`).
* `PositionsAreSound`: `Spec => []BoardSound`, from the lemma `LegalMovesKeepSound`, which is
  about the rules alone: a legal move of a sound position leads to a sound position.
  It rests on what the code takes for granted. A piece that could take attacks the square
  it could take on - a ray seen from one end is seen from the other (`RaysBack`), a knight's
  or a pawn's step has its opposite (`BesideBack`) - so a king is never taken
  (`CaptureAttacks`) and each side keeps one; the piece a capture en passant removes is the
  other side's pawn; a king that moves two files castles (`CastlesOnly`), and the corner then
  holds its own rook. `TreeOK` carries this over the game: every node's position is sound
  and its list the legal moves of it, no move is tried twice at a node, and a node's
  position is its parent's after the move.
* `NamesMeanOneMove`: `Spec => []NamesTellMovesApart`, from `TreeOK`. Of two pieces of a kind
  that reach a square, what is shown of the origin tells one from the other
  (`PieceNames`); a pawn's move shows a file or nothing, and its origin follows
  (`PawnNames`): a pawn that captures comes from one rank, a pawn that advances crosses no
  piece, and no pawn advances to the en passant square, which has the other side's pawn
  behind it; and only one castling leads to a square.
* `DigitsComeBack`: `Spec => DigitsReadBack`, the step of the round trip that needs no
  recursion. The places of moves in the order of their UCI names are the digits 0 to k - 1,
  each of them once (`NthIs`, from `UciKeyTellsApart` and a count of finite sets), so the place of
  the move that was picked is the digit; and since a node's list only grows at its end,
  what was open when the move was picked can be told from it for ever.
* `RefusedWhenFull`: `Spec => []RefusedOnlyWhenFull`, under `LimitsAssumption` as well.
  `RefusedInv` says that while something remains, every node the encoder deals to is full or
  waits: in the positions of the level, at the end of a branch, or on the agenda
  (`Covered`); that in a round without progress the positions already passed are full
  (`Scanned`, which needs a round to deal at least one); and that the mainline grows at its
  tip only (`OffTip`, `Sidelines`, `Prefixed`), so that a branch never turns into mainline.

* `ClockAnswersTrue`: `ClockSpec => []AnswersTrue`, under `ClockAssumption`, for any
  life of the cache and any limit of a fetch. The invariant `ClockInv` follows the
  time through a call: the cached pair is not behind its stamp and ahead of it by at
  most a fetch (`PairTrue`), a call's local `now` lies between its question and the
  present (`InTime`), a pair in use is not younger than the look at it (`UseTrue`), an
  answer under way was given during the call (`ToldTrue`). `ClockTypeCorrect` is its type
  part: the lock is held by exactly the call that is inside, which needs the event loop,
  the worker and the warm-up to be three threads.
* `GatesImplementClock`: every behaviour of `ArchiveGates`, for any set of scenes, is
  one of `ClockSpec`; so `GatesToldTrue`: what a gate acts on is true to within one
  fetch.
* `CapsulesKeepTheirTime`: `Spec => []NeverEarly` for any scenes - options,
  credentials, rekeying, exchanged files, outages, answers of the clock - under
  `ScenesAssumption` (options and credentials have their fields, the other archive's
  options are ones an archive can be made with), `NoneAssumption` (`None` is no key,
  signature, keyfile or archive) and the assumptions of the clock. The argument does not rest on the clock, which may be
  ahead: the payload key of every capsule that was ever made, rekeyed or exchanged
  for another is wrapped with or derived from a half the provider keeps (`GoodMeta`,
  `GoodFile`); whatever credentials are given, the payload key comes of that half
  (`KeyNeedsTime`); Aavrit releases it no earlier than the time it was made for
  (`KeyDue`), and a round of drand that was chosen for a time does not come before it
  (`RoundReached`). `StageInv` carries this through the stages of a request.
* `AnswersAreOfOneArchive`, `OnlyTheEntitledOpen`, `GatesTypeCorrect`: `Spec => []` of
  `OneArchive`, `OnlyEntitled` and `TypeOK`, from the same assumptions. The lemma behind
  them is that rekeying leaves no trace (`RekeyedIs`): the rewritten archive is, but for its
  salt, the one its owner would have made with the new credentials. So every archive at the
  path or beside it is `FileOf` an owner's options and credentials of now, and no two are the
  same one (`KnownInv`), and what is needed to get past a gate can be read off them: without
  the whole secret the payload key does not come out (`SecretNeeded`), without the archive's
  own keyfile, and its password, the keychain stays shut (`KeyfileNeeded`). `HoldInv`
  carries the archive a request holds, the metadata it knows and what its credentials have
  shown through the stages, past exchanges of the file, to the later reads of a session.
* `RefusedOnlyWithReason`: `Spec => []RefusedWithReason`, the other direction, from the same
  assumptions. That every gate lets the right one through needs four things. Everything that
  goes into an archive is there (`Whole`), so what is sealed opens to the same credentials:
  the route's demands are met (`OwnersInputs`), the shared secret resolves
  (`OwnersResolve`), the keychain is decoded and found intact (`OwnersUnlock`), the payload
  opens (`OwnersPayload`). A request asks the clock after it has begun (`AskedInv`), so with
  `AnswersTrue` the answer is not before its beginning (`AnswerInTime`). By then the round
  the capsule was sealed to is out, and the authority releases its half (`DueBy`,
  `RoundIsOut`). And `WelcomeInv` follows a request that has nothing to be excused for and is
  entitled to get in: at each stage the route, the metadata, the half of the key and the
  archive it holds are those of the archive at the path, so the next condition holds and it
  is never refused. `MadeOrExcused` is the same for making an archive.

* `AuditTypeCorrect`, `LossesAreAccounted`, `LogStaysAChain`: `Spec => []` of `TypeOK` and
  of every invariant of `audit_shared`, for any processes and any numbers of events, loads and crashes, under
  `AuditAssumption` (the bounds are numbers). `LossInv` has two halves that need each other:
  what was recorded is in the file, or in the hands of a process that has emptied the file
  and not yet written it, or there is a reason; and who is about to rewrite the file has in
  hand all that is in it, and all that others about to rewrite it have, again but for what
  there is a reason for. So whatever order two rewrites take, the second loses nothing that
  the first had kept. `ChainInv`: without overlap at most one process is in a call, the hash
  it has read is still the last one, and a file it has emptied is still empty. That an
  expiry rewrite keeps what has not expired (`RetainedIs`) is about a loop over the
  entries; it is proved by induction on the position, from the least number principle
  (`Least`, `Counting`), which follows from the library's well-foundedness of the natural
  numbers without any theorem that takes an operator as a parameter.

* `CapacityAlwaysKept`, `KeyNeverClearedInUse`, `NoneForgotten`: `Spec => []TypeOK` (which
  bounds the store), `[]KeyKeptWhileReading` and `[]RemovedMeansZeroed` of
  `ArchiveSessions`, for any sessions, requests, closing threads, capacity and idle
  limit under `SessionsAssumption`. `SessionsInv` says who holds the store lock
  (`LockHeld`: exactly the thread inside a call), that a reader holds its session's
  operation lock and its key is there (`ReadLocked`, which `CloseOne` cannot disturb
  because it waits for that lock), that a thread owes a close only inside a call
  (`TodoHeld`), and that who opens has made room (`Room`, from the lemma that evicting
  leaves less than the capacity).
* `FailuresAccounted`: `Spec => []FailureAccounted`. `AccountInv` adds the argument over
  time: while a reading job is queued or at work, its session is in the store and no
  older there than the job's own last lookup, or there is an account of why it left
  (`LookedUp`); ids are handed out once (`FreshIds`) and what was popped does not come
  back (`PoppedGone`).

* `TypesKept`, `PublishedAlwaysOpens`, `KeyfileFirst`, `LiveTempsKept`,
  `LeftoversAlwaysAccounted`, `ReplacesKnowingly`: `Spec => []` of every invariant of
  `publish_safe`, for any processes, operations, names, clean-ups, crashes and artifacts
  that resist removal, under `PublishAssumption` (a process has one or two clean-ups;
  operations, names and `None` are apart). Three layers, each preserved given those
  below it:
  * `PublishInv`, what is published. A clean-up works only with records of dead
    processes (`Records`), so a live process's artifact stays (`Whole`, `LiveTempKept`);
    what is under a name was moved there (`Places`), and an archive that gave way never
    comes back, which is why finding the source as it was at the start is enough for
    split to know that nothing changed in between (`Snapshots`); every archive describes
    its own payload (`Described`); a keyfile is linked before its archive is renamed and
    does not leave (`KeysLinked`, `KeysThere`).
  * `RegistryInv`, the registries. Who holds a process's registry lock, and at which step
    (`LockUse`); lines are in the file or in memory, never in both (`LinesOnce`); every
    artifact has an owner at work on it or could not be unlinked (`TempsOwned`), and has
    a line or an account of why not (`LinesAccounted`).
  * `ReplaceInv`. Who has decided to use a name that is taken read what is there, was
    told to force, or decided before it came (`Aware`); whoever replaced an object has
    moved (`SuccessorMoved`), so the account given then stays true.

Out of the prover's reach: liveness (`StartedIsAnswered`, `StoreCallsReturn`), `ENABLED`, and
recursive operators (`RoundTrip`, for which `NumberConserved`, `NamesMeanOneMove` and
`DigitsComeBack` are the parts that need none), which stay with TLC. Every other invariant
and action property that a passing run checks is a theorem, some of them under the
hypotheses named above.

## 8. What the runs found

* `core_double_cancel`: a second `request.cancel` for a request that is draining
  its worker raises `CancelledError` out of the inner `await asyncio.shield(...)`
  (`services.py:144`); it is no `Exception`, the lock is released under the live
  worker and the next one starts beside it. The promise is in the function's
  docstring (`services.py:125`) and the test `backend/tests/test_core_rpc.py:83`.
* `audit_retention`: `load_entries` returns the retained entries with the hashes
  they had behind the expired ones, so the summary taken when the retention
  period first expires something reports a broken chain
  (`activity_audit.py:321`).
* `publish_keyfile`: if the temporary name of a keyfile cannot be unlinked after
  `os.link`, or the process dies in between, the error path or the next start
  wipes the published keyfile through the other link (`pqc_keyfile.py:444`),
  which the comment above (`pqc_keyfile.py:435-437`) says must not happen.
* `extract_tree`: an archive with an empty folder inside an otherwise empty folder
  cannot be extracted as a whole. Both are listed (the filter at
  `multi_file_decoder.py:687-693` only drops folders that contain a file); moving
  the outer one takes the inner one along, which is then refused as an existing
  file (`:909`) and everything is rolled back. The encoder collects "explicit
  logical directories, including empty directories" (`multi_file_encoder.py:154`),
  and `backend/tests/test_assured_archive_features.py:109` expects an empty folder to
  come back.

## 9. What is left out

* Framing and JSON: one reader and one writer, in order.
* The handlers with no state of their own (inspect, settings, diagnostics,
  keyphrase, `auth.*`, `time.ntp`).
* Bytes: encryption, signatures and hashes are perfect; header, manifest and
  keychain layouts are one object.
* Reuse of a process id by the janitor, which only delays a clean-up.
* In `ArchiveGates`: archives of the single-file path, untagged and unsigned ones of
  earlier versions, and the public timestamp that a signature may carry; what a file
  that was altered by hand would do (an archive is exchanged as a whole). The gates
  are one step of `ArchiveExtract`, which succeeds or refuses with nothing on disk;
  races of two processes on one file are `ArchivePublish`'s.
* In the codec: the native implementation, the limit on depth, statistics, PGN
  headers, signs of check (which the reader strips) and move counters.
* A directory moved across file systems is moved in one step in `ArchiveExtract`;
  files are copied in two. How a registry file is written is `ArchivePublish`'s:
  in `ArchiveExtract` a record is there, or lost.
* Notifications of progress, which no state depends on.

## 10. Plan

Order: the behaviour that the most other code depends on first.

1. *Done*: `RequestPromise`, `CoreRequests`, its proofs and refinement.
2. *Done*: `ArchiveSessions`, `ActivityAudit`, `ArchivePublish`, each with its proofs.
3. *Done*: `ArchiveExtract` and its proof; `TrustedTime`, `ArchiveKeys` and
   `ArchiveGates`, with the proofs about the clock and the capsules; the proofs about
   `ArchiveSessions` and `ArchivePublish`; `ChessBoard`, `ChessEncoder`,
   `ChessDecoder`, with the proofs about the rules, the names and the encoder.
4. `PayloadPipeline`: the bounded pool of encrypting workers with its in-order
   commit, shown to implement a sequential writer by refinement; the Merkle root
   and chunk index as functions against a reference.
5. `DesktopShell`: `CoreRpcClient`, start, slow start, crash, restart and quit of the
   core, and a page that discards the answer to a request it cancelled.
6. Aavrit sign-in: handlers that change the server and mode globals across awaits.

Runs: at most one of safety and one of a disagreement per module; bounds as small as
one actor of each role plus one rival.

Theorems still worth proving: that the reader's brackets lead back to the node the writer left,
stated over the tokens without recursion; in-order commit of the payload pipeline as a
refinement.
