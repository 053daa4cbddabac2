---------------------------- MODULE ArchiveGates ----------------------------
(***************************************************************************)
(* The gates an archive is behind (core/services.py): a client makes an     *)
(* archive, changes its credentials, and opens it, at once (archive.decrypt)*)
(* or as a session (archive.openSession).  A time capsule asks its provider *)
(* for the second half of its key, and the trusted clock of TrustedTime     *)
(* where the code asks it.  ArchiveKeys says which keys open what.          *)
(*                                                                         *)
(* A scene is a choice of options, credentials and surroundings.  The file  *)
(* may be exchanged for another archive at its path while a request runs.   *)
(* External: the drand network, and the Aavrit authority with its own clock.*)
(***************************************************************************)
EXTENDS TrustedTime, FiniteSets

CONSTANTS
  Scenes,     \* the choices
  Period,     \* seconds between two rounds of drand
  MaxLock,    \* 5 * 365 * 24 * 60 * 60
  SkewLimit   \* CLOCK_SKEW_WARNING_SECONDS

ASSUME GatesAssumption ==
  Period \in Nat \ {0} /\ MaxLock \in Nat /\ SkewLimit \in Nat

INSTANCE ArchiveKeys

Ours == 1     \* the numbers of the archive the client makes, and of the other one
Theirs == 5

\* EncryptRequest, as far as it decides what is made.
IsOptions(o) ==
  /\ o = [pw |-> o.pw, kp |-> o.kp, provider |-> o.provider, unlock |-> o.unlock, pqc |-> o.pqc,
          kfpw |-> o.kfpw, signer |-> o.signer, message |-> o.message]
  /\ o.provider \in {None, "drand", "aavrit"} /\ o.unlock \in Nat
  /\ o.pqc \in {None, "embedded", "external", "dual"}

ASSUME ScenesAssumption ==
  \A s \in Scenes :
    /\ IsOptions(s.opts) /\ (s.rival = None \/ (IsOptions(s.rival) /\ ValidOptions(s.rival)))
    /\ \A c \in s.reads : c = [pw |-> c.pw, kp |-> c.kp, keyfile |-> c.keyfile, kfpw |-> c.kfpw]
    /\ s.kinds \subseteq {"decrypt", "session"} /\ None \notin s.revoked
    /\ s.swaps \in Nat /\ s.refreshes \in Nat

NoRequest ==
  [kind |-> None, began |-> 0, cred |-> None, given |-> None, route |-> None,
   meta |-> None, timeKey |-> None, held |-> None, stat |-> None,
   excused |-> {}, opened |-> None]

VARIABLES
  scene,
  disk,       \* the archive at the path, None before it is made
  aside,      \* the one it may be exchanged for
  owner,      \* by number: the options an archive was made with, credentials as of now
  pc,         \* where the request is
  req,        \* the request's locals
  swaps,      \* exchanges so far
  refreshes,  \* time.ntp requests with force_refresh so far
  calls       \* what the one that runs has yet to ask the clock

envVars   == <<aside, swaps, refreshes, calls>>
gateVars  == <<scene, disk, owner, pc, req, envVars>>
vars      == <<clockVars, gateVars>>

Stages ==
  {"new", "unlockTime", "aligned", "seal", "stillAhead", "written", "escrow", "build",
   "ready", "inputs", "publicLock", "metadata", "inTime", "beacon", "release", "receipt",
   "open", "gate", "payload", "trust", "opened", "selected", "delivered", "refused"}

\* Where a request asks the trusted clock, and on which thread.
ClockStages == {"unlockTime", "aligned", "stillAhead", "written", "publicLock", "inTime", "gate"}
Asker(stage) == IF stage = "publicLock" THEN Loop ELSE Worker

KeyOf(id) == <<"key", id>>

Failures == {Unreachable, Broken}

-----------------------------------------------------------------------------
\* drand_timelock_helper.mjs.  Round r is published at r * Period.

\* mutant of RoundFor: the round that is current at the time
RoundForFloor(time) == time \div Period

\* firstRoundAtOrAfter
RoundFor(time) ==
  LET at == time \div Period IN IF at * Period < time THEN at + 1 ELSE at

Published(round) == now \div Period >= round

SealedTo(time, key) == [round |-> RoundFor(time), key |-> key]
BeaconOpens(sealed) == sealed # None /\ Published(sealed.round)

\* aavrit_client.py: what the authority keeps, when it gives it back, and what the
\* metadata must agree with.
EscrowFor(id, time) == [id |-> id, unlock |-> time]

Releases(route) ==
  LET escrow == route.escrow IN
  escrow # None /\ route.gated /\ escrow.unlock <= now /\ route.unlock = escrow.unlock

BoundToReceipt(meta, route) == meta.escrow = route.escrow

\* The provider's half for a new archive: sealed by the helper, or in escrow.
GivenFor(opts, id) ==
  [timeKey |-> IF opts.provider = None THEN None ELSE KeyOf(id),
   sealed |-> IF opts.provider = "drand" THEN SealedTo(opts.unlock, KeyOf(id)) ELSE None,
   escrow |-> IF opts.provider = "aavrit" THEN EscrowFor(id, opts.unlock) ELSE None]

\* What is there is never mistaken for none: a key, a name, an archive and its parts.
ASSUME NoneAssumption ==
  /\ None \notin {"drand", "aavrit", "embedded", "external", "dual", "decrypt", "session"}
  /\ \A i \in {Ours, Theirs} :
       None \notin {KeyOf(i), Key("dek", NoSecret, i), TimeOnlyKey(KeyOf(i), i)}
  /\ LET Made(o, i) == Build(o, GivenFor(o, i), i)
         Whole(o, i) ==
           /\ None \notin {Made(o, i), Made(o, i).signature, KeyfileFor(o, i), OuterKey(o.kfpw, i)}
           /\ o.pqc = None \/ Bootstrap(o, i) # None
           /\ o.pqc = "embedded" => EmbeddedBlob(o, i, HeaderOf(o)) # None
           /\ None \notin {SealedTo(o.unlock, KeyOf(i)), EscrowFor(i, o.unlock)}
     IN \A s \in Scenes :
          /\ Whole(s.opts, Ours) /\ (s.rival = None \/ Whole(s.rival, Theirs))
          /\ HasUserSecret(SecretOf(s.opts)) =>
               \A r \in s.rekeys, n \in 1..2 :
                 LET file == Rekeyed(Made(s.opts, Ours), r.new, r.signer, Ours + n) IN
                 None \notin {file, file.signature}

-----------------------------------------------------------------------------
TypeOK ==
  /\ ClockTypeOK
  /\ scene \in Scenes /\ pc \in Stages
  /\ DOMAIN req = DOMAIN NoRequest
  /\ req.kind \in {None, "create", "decrypt", "session"}
  /\ req.excused \subseteq Failures \cup {"swap", "rekey", "outage", "skew", "signedOut"}
  /\ swaps \in 0..scene.swaps /\ refreshes \in 0..scene.refreshes /\ calls \in 0..3
  /\ disk = None <=> (pc \in {"new", "unlockTime", "aligned", "seal", "stillAhead", "written",
                              "escrow", "build"}
                      \/ (pc = "refused" /\ req.kind = "create"))

Init ==
  /\ ClockInit
  /\ scene \in Scenes
  /\ disk = None
  /\ aside = IF scene.rival = None THEN None
             ELSE Build(scene.rival, GivenFor(scene.rival, Theirs), Theirs)
  /\ owner = [i \in {Ours, Theirs} |-> IF i = Ours THEN scene.opts ELSE scene.rival]
  /\ pc = "new" /\ req = NoRequest
  /\ swaps = 0 /\ refreshes = 0 /\ calls = 0

Goto(stage) == pc' = stage

\* A step of the request itself, without the clock.
Keeps == UNCHANGED <<clockVars, scene, owner, envVars>>

\* A step whose condition, if it fails, ends the request.
Requires(condition, next) == Goto(IF condition THEN next ELSE "refused")

\* The request takes the clock's answer and goes on if it passes.
Clocked(stage, Passes(_), next) ==
  LET t == Asker(stage)  a == answer[t] IN
  /\ pc = stage /\ pcOf[t] = "done" /\ (t = Loop => calls = 0)
  /\ Take(t)
  /\ Requires(Passes(a), next)
  /\ req' = IF a \in Failures /\ ~Passes(a) THEN [req EXCEPT !.excused = @ \cup {a}] ELSE req
  /\ UNCHANGED <<scene, disk, owner, envVars>>

AskClock ==
  /\ pc \in ClockStages /\ calls = 0
  /\ Ask(Asker(pc))
  /\ UNCHANGED gateVars

\* get_clock_skew_warning: a clock that cannot be had is no warning.
Aligned(a) ==
  LET local == now + scene.skew IN
  a = Unreachable \/ (a # Broken /\ local <= a + SkewLimit /\ a <= local + SkewLimit)

CheckAligned(stage, next) ==
  LET t == Asker(stage)  a == answer[t]  skewed == a \notin Failures /\ ~Aligned(a) IN
  /\ pc = stage /\ pcOf[t] = "done"
  /\ Take(t)
  /\ Requires(Aligned(a), next)
  /\ req' = [req EXCEPT !.excused = @ \cup (IF a = Broken THEN {a} ELSE IF skewed THEN {"skew"} ELSE {})]
  /\ UNCHANGED <<scene, disk, owner, envVars>>

Reached(a, unlock) == a \notin Failures /\ unlock <= a

-----------------------------------------------------------------------------
\* archive.encrypt

BeginCreate ==
  /\ pc = "new"
  /\ req' = [NoRequest EXCEPT !.kind = "create", !.began = now]
  /\ Requires(ValidOptions(scene.opts),
              CASE scene.opts.provider = None -> "build"
                [] scene.opts.provider = "drand" -> "unlockTime"
                [] scene.opts.provider = "aavrit" -> "escrow")
  /\ Keeps /\ UNCHANGED disk

\* _validate_unlock_datetime_against_ntp
CheckUnlockTime ==
  LET unlock == scene.opts.unlock
      Allowed(a) == a \notin Failures /\ unlock > a /\ unlock - a <= MaxLock
  IN Clocked("unlockTime", Allowed, "aligned")

\* _run_drand_helper: the helper may fail, or outlast its time and be killed.
SealToRound ==
  /\ pc = "seal"
  /\ \/ /\ req' = [req EXCEPT !.given = GivenFor(scene.opts, Ours)] /\ Goto("stillAhead")
     \/ /\ scene.outages
        /\ req' = [req EXCEPT !.excused = @ \cup {"outage"}] /\ Goto("refused")
  /\ Keeps /\ UNCHANGED disk

\* create_multi_file_avk asks the clock again, after the helper's seconds.
CheckStillAhead ==
  LET Ahead(a) == a \notin Failures /\ scene.opts.unlock > a
  IN Clocked("stillAhead", Ahead, "written")

\* datetime_to_timestamp asks once more, when the payload has been written.
CheckNotTooFar ==
  LET unlock == scene.opts.unlock
      Near(a) == a \notin Failures /\ unlock <= a + MaxLock /\ a <= unlock + MaxLock
  IN Clocked("written", Near, "build")

\* create_escrow: the authority takes no time that has passed; a private one
\* wants the client signed in.
CreateEscrow ==
  /\ pc = "escrow"
  /\ \/ /\ ~scene.signedOut
        /\ req' = [req EXCEPT !.given = GivenFor(scene.opts, Ours)]
        /\ Requires(scene.opts.unlock > now, "build")
     \/ /\ scene.outages \/ scene.signedOut
        /\ req' = [req EXCEPT !.excused = @ \cup {IF scene.signedOut THEN "signedOut" ELSE "outage"}]
        /\ Goto("refused")
  /\ Keeps /\ UNCHANGED disk

Create ==
  /\ pc = "build"
  /\ disk' = Build(scene.opts, IF req.given = None THEN GivenFor(scene.opts, Ours) ELSE req.given, Ours)
  /\ req' = NoRequest /\ Goto("ready")
  /\ Keeps

-----------------------------------------------------------------------------
\* archive.rekey, in place.  The finished file is opened once more before it
\* replaces the old one: its keychain, not its payload.
Rekey ==
  /\ pc \in {"ready", "inputs", "open"} /\ disk.id = Ours
  /\ \E r \in scene.rekeys :
       LET fresh == IF disk.keychain.plain.salt = Ours + 1 THEN Ours + 2 ELSE Ours + 1
           file == Rekeyed(disk, r.new, r.signer, fresh)
       IN /\ CanRekey(disk, r.old, r.new, r.signer)
          /\ UnlocksKeychain(file, r.new, None)
          /\ disk' = file
          /\ owner' = [owner EXCEPT ![Ours].pw = r.new.pw, ![Ours].kp = r.new.kp, ![Ours].signer = r.signer]
  /\ req' = IF pc = "ready" THEN req ELSE [req EXCEPT !.excused = @ \cup {"rekey"}]
  /\ UNCHANGED <<clockVars, scene, envVars, pc>>

-----------------------------------------------------------------------------
\* archive.decrypt and archive.openSession

\* The credentials as the user means them: a keyfile is this archive's, that of
\* another archive of the same owner, or none.
Credentials(c) ==
  [c EXCEPT !.keyfile = CASE c.keyfile = "mine" -> KeyfileFor(scene.opts, Ours)
                          [] c.keyfile = "other" -> KeyfileFor(scene.opts, Theirs + 1)
                          [] OTHER -> None]

\* _read_avk_public_route, on a thread of its own.
ReadRoute ==
  /\ pc = "ready"
  /\ \E k \in scene.kinds, c \in scene.reads :
       req' = [NoRequest EXCEPT !.kind = k, !.began = now, !.cred = Credentials(c),
                                !.route = PublicRoute(disk)]
  /\ Goto("inputs")
  /\ Keeps /\ UNCHANGED disk

\* Back on the event loop: what the route asks for has to be there.
CheckInputs ==
  /\ pc = "inputs"
  /\ Requires(RouteInputs(req.route, req.cred),
              CASE req.route.provider = "drand" -> "publicLock"
                [] req.route.provider = "aavrit" -> "release"
                [] OTHER -> "open")
  /\ Keeps /\ UNCHANGED <<disk, req>>

\* _validate_public_timecapsule_lock asks the clock on the event loop.
CheckPublicLock ==
  LET Passed(a) == Reached(a, req.route.unlock) IN Clocked("publicLock", Passed, "metadata")

\* _read_avk_metadata_only, which opens the file by its path.
ReadMetadata ==
  /\ pc = "metadata"
  /\ LET meta == disk.keychain.plain IN
     /\ Requires(UnlocksKeychain(disk, req.cred, None) /\ (req.kind = "decrypt" => meta.provider = "drand"),
                 "inTime")
     /\ req' = [req EXCEPT !.meta = meta]
  /\ Keeps /\ UNCHANGED disk

\* The helper's "open", and what each caller does with the key it returns: a
\* decryption compares it with the hash in the metadata.
AskBeacon ==
  /\ pc = "beacon"
  /\ \/ LET sealed == req.meta.sealed IN
        IF BeaconOpens(sealed)
        THEN /\ req' = [req EXCEPT !.timeKey = sealed.key]
             /\ Requires(req.kind = "session" \/ req.meta.timeHash \in {None, sealed.key}, "open")
        ELSE Goto("refused") /\ UNCHANGED req
     \/ /\ scene.outages
        /\ req' = [req EXCEPT !.excused = @ \cup {"outage"}] /\ Goto("refused")
  /\ Keeps /\ UNCHANGED disk

\* release_escrow.  A decryption reads the route once more, by the path.
ReleaseEscrow ==
  /\ pc = "release"
  /\ \/ LET route == IF req.kind = "decrypt" THEN PublicRoute(disk) ELSE req.route
        IN IF Releases(route)
           THEN /\ req' = [req EXCEPT !.route = route, !.timeKey = KeyOf(route.escrow.id)]
                /\ Goto(IF req.kind = "decrypt" THEN "receipt" ELSE "open")
           ELSE Goto("refused") /\ UNCHANGED req
     \/ /\ scene.outages
        /\ req' = [req EXCEPT !.excused = @ \cup {"outage"}] /\ Goto("refused")
  /\ Keeps /\ UNCHANGED disk

\* The metadata, now that the key is there, and verify_protected_receipt.
CheckReceipt ==
  /\ pc = "receipt"
  /\ LET meta == disk.keychain.plain IN
     /\ Requires(/\ UnlocksKeychain(disk, req.cred, req.timeKey)
                 /\ BoundToReceipt(meta, req.route)
                 /\ meta.timeHash \in {None, req.timeKey}, "open")
     /\ req' = [req EXCEPT !.meta = meta]
  /\ Keeps /\ UNCHANGED disk

\* mutant of SameMetadata: the archive is taken for the one that was looked at
SameMetadataAssumed(meta) == TRUE

\* metadata_override: what was read before must be what is in the file now.
SameMetadata(meta) == meta = req.meta

FromCapsule == req.kind = "decrypt" /\ req.meta # None

\* extract_multi_file_avk and open_indexed_archive_metadata: header, keychain and
\* payload come from one open file.  Who has not been at the provider for a
\* decryption has the capsule's time checked.
OpenArchive ==
  /\ pc = "open"
  /\ LET meta == disk.keychain.plain IN
     Requires(/\ UnlocksKeychain(disk, req.cred, req.timeKey)
              /\ FromCapsule => SameMetadata(meta),
              IF FromCapsule \/ meta.provider = None THEN "payload" ELSE "gate")
  /\ req' = [req EXCEPT !.held = disk, !.meta = IF FromCapsule THEN @ ELSE disk.keychain.plain]
  /\ Keeps /\ UNCHANGED disk

\* validate_unlock_time
PassGate ==
  LET Passed(a) == Reached(a, req.held.keychain.plain.unlock) IN Clocked("gate", Passed, "payload")

\* The payload.  A session keeps its key, and takes the file's size and time.
OpenPayload ==
  /\ pc = "payload"
  /\ Requires(OpensPayload(req.held, req.cred, req.timeKey),
              IF req.kind = "session" THEN "trust" ELSE "opened")
  /\ req' = [req EXCEPT !.opened = [file |-> req.held, at |-> now],
                        !.stat = IF req.kind = "session" THEN disk ELSE None]
  /\ Keeps /\ UNCHANGED disk

\* _enforce_creator_trust_policy
CheckCreator ==
  /\ pc = "trust"
  /\ Requires(req.held.signature.by = None \/ req.held.signature.by \notin scene.revoked, "opened")
  /\ Keeps /\ UNCHANGED <<disk, req>>

\* archive.extractSelection: ArchiveSessionStore.get compares the file by size and
\* time with the one that was measured, ...
SelectFromSession ==
  /\ pc = "opened" /\ req.kind = "session"
  /\ Requires(disk = req.stat, "selected")
  /\ req' = [req EXCEPT !.opened = None]
  /\ Keeps /\ UNCHANGED disk

\* ... and then opens the path: the chunks are opened with the session's key and
\* header, and compared with its index.
ReadSelection ==
  /\ pc = "selected"
  /\ Requires(/\ Opens(disk.payload, PayloadKey(req.held, req.meta, req.cred, req.timeKey), req.held.header)
              /\ disk.payload.plain = req.meta.id, "delivered")
  /\ req' = [req EXCEPT !.opened = [file |-> disk, at |-> now]]
  /\ Keeps /\ UNCHANGED disk

Answer ==
  /\ pc \in {"opened", "delivered", "refused"}
  /\ Goto(IF disk = None THEN "new" ELSE "ready")
  /\ req' = NoRequest
  /\ Keeps /\ UNCHANGED disk

-----------------------------------------------------------------------------
\* Surroundings.

Swap ==
  /\ aside # None /\ req.kind \in {"decrypt", "session"} /\ swaps < scene.swaps
  /\ disk' = aside /\ aside' = disk /\ swaps' = swaps + 1
  /\ req' = [req EXCEPT !.excused = @ \cup {"swap"}]
  /\ UNCHANGED <<clockVars, scene, owner, pc, refreshes, calls>>

\* time.ntp with force_refresh: the clock is asked three times, with the event
\* loop waiting.
BeginRefresh ==
  /\ refreshes < scene.refreshes /\ calls = 0
  /\ ForgetTime
  /\ refreshes' = refreshes + 1 /\ calls' = 3
  /\ UNCHANGED <<scene, disk, aside, owner, pc, req, swaps>>

Refreshing == ForgetStamp /\ UNCHANGED gateVars

RefreshAsks == calls \in 1..2 /\ Ask(Loop) /\ UNCHANGED gateVars

RefreshTold ==
  /\ calls > 0 /\ pcOf[Loop] = "done"
  /\ Take(Loop)
  /\ calls' = IF answer[Loop] \in Failures THEN 0 ELSE calls - 1
  /\ UNCHANGED <<scene, disk, aside, owner, pc, req, swaps, refreshes>>

WarmUpStarts == ~scene.calm /\ Prime /\ UNCHANGED gateVars
WarmUpEnds == pcOf[WarmUp] = "done" /\ Take(WarmUp) /\ UNCHANGED gateVars

\* A call is under way at the clock.  Only a scene with outages has it fail.
ClockWorks ==
  /\ \E t \in Clients : Enter(t) \/ Use(t) \/ Fetch(t) \/ Store(t) \/ (scene.outages /\ FetchFails(t))
  /\ UNCHANGED gateVars

\* Time passes while something is waited for, not between two instructions of a
\* thread; in a calm scene only between requests.
TimePasses ==
  /\ now < scene.horizon
  /\ scene.calm => pc \in {"new", "ready"}
  /\ \A t \in Clients : pcOf[t] \notin {"use", "done", "clear"}
  /\ Tick
  /\ UNCHANGED gateVars

Next ==
  \/ BeginCreate \/ CheckUnlockTime \/ CheckAligned("aligned", "seal") \/ SealToRound
  \/ CheckStillAhead \/ CheckNotTooFar \/ CreateEscrow \/ Create
  \/ Rekey
  \/ ReadRoute \/ CheckInputs \/ CheckPublicLock \/ ReadMetadata \/ CheckAligned("inTime", "beacon")
  \/ AskBeacon \/ ReleaseEscrow \/ CheckReceipt \/ OpenArchive \/ PassGate \/ OpenPayload
  \/ CheckCreator \/ SelectFromSession \/ ReadSelection \/ Answer
  \/ AskClock \/ ClockWorks
  \/ Swap \/ BeginRefresh \/ Refreshing \/ RefreshAsks \/ RefreshTold
  \/ WarmUpStarts \/ WarmUpEnds \/ TimePasses

Spec == Init /\ [][Next]_vars

-----------------------------------------------------------------------------
\* Properties.

Opened == pc \in {"opened", "delivered"} /\ req.opened # None
MakerOf(file) == owner[file.id]

\* No time capsule is opened before the time its maker asked for, although the
\* trusted clock may be ahead by a fetch and a round of drand lasts a while.
NeverEarly ==
  Opened /\ MakerOf(req.opened.file).provider # None =>
    req.opened.at >= MakerOf(req.opened.file).unlock

\* What has post-quantum material is never rekeyed, so its keyfile is still its maker's.
Fits(file, c) ==
  LET maker == MakerOf(file) IN
  /\ maker.pqc \in {"external", "dual"} => c.keyfile = KeyfileFor(maker, file.id)
  /\ maker.pqc = "dual" => c.kfpw = maker.kfpw

\* Only the credentials that are in force open a protected archive: the whole
\* secret, the archive's own keyfile and its second password; and no session
\* is given on an archive of a creator the user has revoked.
OnlyEntitled ==
  Opened =>
    LET maker == MakerOf(req.opened.file) IN
    /\ HasUserSecret(SecretOf(maker)) => SecretOf(req.cred) = SecretOf(maker)
    /\ Fits(req.opened.file, req.cred)
    /\ req.kind = "session" => maker.signer \notin scene.revoked

Due(maker, at) ==
  CASE maker.provider = None -> TRUE
    [] maker.provider = "drand" -> RoundFor(maker.unlock) * Period <= at
    [] maker.provider = "aavrit" -> maker.unlock <= at

\* Who has the credentials of an archive that is due gets in, however it was made
\* and however often it was rekeyed, unless the surroundings got in the way; and
\* an archive that may be made is made.
RefusedWithReason ==
  pc = "refused" /\ req.excused = {} =>
    IF req.kind = "create"
    THEN \/ ~ValidOptions(scene.opts)
         \/ scene.opts.unlock <= now + FetchLimit \/ scene.opts.unlock > req.began + MaxLock
    ELSE LET maker == MakerOf(disk) IN
         \/ SecretOf(req.cred) # SecretOf(maker) \/ ~Fits(disk, req.cred)
         \/ ~Due(maker, req.began)
         \/ req.kind = "session" /\ maker.signer \in scene.revoked

\* What is reported about an archive and the files that come out of it are of
\* one archive, whatever becomes of the path between the route, the metadata, the
\* provider, the payload, and the later reads of a session.
OneArchive ==
  Opened => req.opened.file.payload.plain = req.meta.id
=============================================================================
