------------------------ MODULE ArchiveGates_proofs ------------------------
(***************************************************************************)
(* The requests, the refreshing event loop and the warm-up thread use the   *)
(* trusted clock the way TrustedTime allows, so what is proved of the clock *)
(* holds for every scene of ArchiveGates.  No time capsule is opened before *)
(* its time: any options and credentials, exchanged files, rekeying, and    *)
(* whatever the trusted clock answers.  And what is opened is one archive,  *)
(* and opened by whom its owner means it for: the argument is that every    *)
(* archive there is is what its owner would make with the options and the   *)
(* credentials of now, so that what a request needed to get past a gate can *)
(* be read off them.  The other way round, who has that gets past them all: *)
(* at every stage such a request knows what the next gate wants.            *)
(***************************************************************************)
EXTENDS ArchiveGates, TrustedTime_proofs

LEMMA Askers == ASSUME NEW stage PROVE Asker(stage) \in Clients
  BY DEF Asker, Clients

LEMMA LoopAndWarmUp == Loop \in Clients /\ WarmUp \in Clients
  BY DEF Clients

\* A request that goes on with the clock's answer has taken it.
LEMMA QuestionsTaken ==
  CheckUnlockTime \/ CheckStillAhead \/ CheckNotTooFar \/ CheckPublicLock \/ PassGate
  \/ CheckAligned("aligned", "seal") \/ CheckAligned("inTime", "beacon")
  => \E t \in Clients : Take(t)
<1>1. CheckUnlockTime => \E t \in Clients : Take(t)
  BY Askers DEF CheckUnlockTime, Clocked
<1>2. CheckStillAhead => \E t \in Clients : Take(t)
  BY Askers DEF CheckStillAhead, Clocked
<1>3. CheckNotTooFar => \E t \in Clients : Take(t)
  BY Askers DEF CheckNotTooFar, Clocked
<1>4. CheckPublicLock => \E t \in Clients : Take(t)
  BY Askers DEF CheckPublicLock, Clocked
<1>5. PassGate => \E t \in Clients : Take(t)
  BY Askers DEF PassGate, Clocked
<1>6. ASSUME NEW stage, NEW next, CheckAligned(stage, next) PROVE \E t \in Clients : Take(t)
  BY Askers, <1>6 DEF CheckAligned
<1> QED
  BY <1>1, <1>2, <1>3, <1>4, <1>5, <1>6

\* The steps of a request that leave the clock alone.
LEMMA Elsewhere ==
  BeginCreate \/ SealToRound \/ CreateEscrow \/ Create \/ Rekey \/ ReadRoute \/ CheckInputs
  \/ ReadMetadata \/ AskBeacon \/ ReleaseEscrow \/ CheckReceipt \/ OpenArchive \/ OpenPayload
  \/ CheckCreator \/ SelectFromSession \/ ReadSelection \/ Answer \/ Swap
  => UNCHANGED clockVars
<1>1. Keeps => UNCHANGED clockVars
  BY DEF Keeps
<1>2. BeginCreate \/ SealToRound \/ CreateEscrow \/ Create => Keeps
  BY DEF BeginCreate, SealToRound, CreateEscrow, Create
<1>3. ReadRoute \/ CheckInputs \/ ReadMetadata \/ AskBeacon \/ ReleaseEscrow \/ CheckReceipt => Keeps
  BY DEF ReadRoute, CheckInputs, ReadMetadata, AskBeacon, ReleaseEscrow, CheckReceipt
<1>4. OpenArchive \/ OpenPayload \/ CheckCreator => Keeps
  BY DEF OpenArchive, OpenPayload, CheckCreator
<1>5. SelectFromSession \/ ReadSelection \/ Answer => Keeps
  BY DEF SelectFromSession, ReadSelection, Answer
<1>6. Rekey \/ Swap => UNCHANGED clockVars
  BY DEF Rekey, Swap
<1> QED
  BY <1>1, <1>2, <1>3, <1>4, <1>5, <1>6

LEMMA StepsOfTheClock == Next => ClockNext \/ UNCHANGED clockVars
<1>1. AskClock => ClockNext
  BY Askers DEF AskClock, ClockNext
<1>2. ClockWorks => ClockNext
  BY DEF ClockWorks, ClockNext, CallStep
<1>3. BeginRefresh \/ Refreshing => ClockNext
  BY DEF BeginRefresh, Refreshing, ClockNext
<1>4. RefreshAsks \/ RefreshTold \/ WarmUpEnds => ClockNext
  BY LoopAndWarmUp DEF RefreshAsks, RefreshTold, WarmUpEnds, ClockNext
<1>5. WarmUpStarts \/ TimePasses => ClockNext
  BY DEF WarmUpStarts, TimePasses, ClockNext
<1>6. (\E t \in Clients : Take(t)) => ClockNext
  BY DEF ClockNext
<1> QED
  BY <1>1, <1>2, <1>3, <1>4, <1>5, <1>6, QuestionsTaken, Elsewhere DEF Next

-----------------------------------------------------------------------------
\* The gates implement the clock: for every choice of scenes, every behaviour of
\* the core and its archives is one of TrustedTime.
THEOREM GatesImplementClock == Spec => ClockSpec
<1>1. Init => ClockInit
  BY DEF Init
<1>2. [Next]_vars => [ClockNext]_clockVars
  BY StepsOfTheClock DEF vars
<1> QED
  BY <1>1, <1>2, PTL DEF Spec, ClockSpec

\* So no answer any request acts on (get_trusted_now, get_clock_skew_warning) is
\* older than its question or further ahead of the truth than a fetch takes.
THEOREM GatesToldTrue == Spec => []AnswersTrue
  BY GatesImplementClock, ClockAnswersTrue, PTL

-----------------------------------------------------------------------------
LEMMA Quotient == ASSUME NEW n \in Nat, NEW p \in Nat \ {0}
                  PROVE  n \div p \in Nat /\ (n \div p) * p <= n /\ n < ((n \div p) + 1) * p
  OBVIOUS

LEMMA TimesGrows == ASSUME NEW a \in Nat, NEW b \in Nat, NEW p \in Nat, a <= b PROVE a * p <= b * p
  OBVIOUS

LEMMA TimesNat == ASSUME NEW a \in Nat, NEW p \in Nat PROVE a * p \in Nat
  OBVIOUS

\* The round a key is sealed to never comes before the time it was chosen for.
LEMMA RoundReached == ASSUME NEW time \in Nat, now \in Nat, Published(RoundFor(time)) PROVE time <= now
<1> DEFINE q == now \div Period
           at == time \div Period
           r == IF at * Period < time THEN at + 1 ELSE at
<1>1. Period \in Nat \ {0}
  BY GatesAssumption
<1>2. q \in Nat /\ q * Period <= now
  BY <1>1, Quotient
<1>3. at \in Nat /\ at * Period <= time /\ time < (at + 1) * Period
  BY <1>1, Quotient
<1>4. at * Period \in Nat /\ (at + 1) * Period \in Nat
  <2>1. at + 1 \in Nat /\ Period \in Nat
    BY <1>1, <1>3
  <2> HIDE DEF at
  <2> QED
    BY <2>1, <1>3, TimesNat
<1>5. r <= q
  BY DEF Published, RoundFor
<1> HIDE DEF at, q
<1>6. r \in Nat /\ time <= r * Period
  <2>1. CASE at * Period < time
    <3>1. r = at + 1
      BY <2>1
    <3> HIDE DEF r
    <3> QED
      BY <1>3, <1>4, <3>1
  <2>2. CASE ~(at * Period < time)
    <3>1. r = at
      BY <2>2
    <3> HIDE DEF r
    <3> QED
      BY <1>3, <1>4, <2>2, <3>1
  <2> QED
    BY <2>1, <2>2
<1> HIDE DEF r
<1>7. r * Period <= q * Period
  BY <1>1, <1>2, <1>5, <1>6, TimesGrows
<1>8. r * Period \in Nat /\ q * Period \in Nat
  BY <1>1, <1>2, <1>6, TimesNat
<1> QED
  BY <1>2, <1>6, <1>7, <1>8

-----------------------------------------------------------------------------
\* What the archives of a scene have in common, however they were made, rekeyed
\* and exchanged.
Ids == {Ours, Theirs}
Maker(s, i) == IF i = Ours THEN s.opts ELSE s.rival

MetaFields == {"id", "salt", "provider", "unlock", "method", "keyphrase", "wrapped", "timeHash",
               "sealed", "escrow", "storage", "keyId", "message"}
FileFields == {"id", "header", "tags", "bootstrap", "keychain", "blob", "payload", "signature"}

DataKeyOf(i) == Key("dek", NoSecret, i)

\* The payload's key is wrapped with the provider's half, if there is one, which is
\* sealed to the time the maker chose.
GoodMeta(m, s) ==
  LET maker == Maker(s, m.id) IN
  /\ DOMAIN m = MetaFields
  /\ m.id \in Ids /\ IsOptions(maker) /\ m.provider = maker.provider
  /\ m.method \in {"stream", "timekey", "plaintext"}
  /\ m.method = "stream" => /\ m.wrapped.plain = DataKeyOf(m.id)
                            /\ maker.provider # None => m.wrapped.key.time = KeyOf(m.id)
  /\ m.method = "timekey" => maker.provider # None
  /\ m.sealed \in {None, SealedTo(maker.unlock, KeyOf(m.id))}

GoodFile(f, s) ==
  LET maker == Maker(s, f.id) IN
  /\ DOMAIN f = FileFields
  /\ GoodMeta(f.keychain.plain, s) /\ f.keychain.plain.id = f.id
  /\ f.tags.escrow \in {None, EscrowFor(f.id, maker.unlock)}
  /\ maker.provider # None =>
       f.payload.key \in {DataKeyOf(f.id), TimeOnlyKey(KeyOf(f.id), f.id)}

LEMMA AccessTime == ASSUME NEW secret, NEW timeKey, NEW shared, NEW salt
                    PROVE  AccessKey(secret, timeKey, shared, salt).time = timeKey
<1> DEFINE k == Key("payload", secret, salt)
           h == SplitKey(k, timeKey)
<1>1. h.time = timeKey /\ DOMAIN h = {"use", "secret", "time", "pqc", "salt"}
  BY DEF SplitKey, WithTime, Key
<1> HIDE DEF h
<1>2. HybridKey(h, shared).time = timeKey
  BY <1>1 DEF HybridKey, WithPqc
<1> QED
  BY <1>2 DEF AccessKey, h

LEMMA TimeOnlyIs == ASSUME NEW timeKey, NEW salt
                    PROVE  /\ TimeOnlyKey(timeKey, salt).time = timeKey
                           /\ TimeOnlyKey(timeKey, salt).use = "timeOnly"
  BY DEF TimeOnlyKey, WithTime, Key

LEMMA BuildGood ==
  ASSUME NEW s, NEW i \in Ids, IsOptions(Maker(s, i))
  PROVE  GoodFile(Build(Maker(s, i), GivenFor(Maker(s, i), i), i), s)
<1> DEFINE opts == Maker(s, i)
           given == GivenFor(opts, i)
           meta == Metadata(opts, given, i)
           file == Build(opts, given, i)
<1>1. GoodMeta(meta, s) /\ meta.id = i
  <2>1. DOMAIN meta = MetaFields /\ meta.id = i /\ meta.provider = opts.provider /\ meta.method = Method(opts)
        /\ meta.sealed = given.sealed
    BY DEF Metadata, MetaFields
  <2>2. meta.method \in {"stream", "timekey", "plaintext"} /\ (meta.method = "timekey" => opts.provider # None)
    BY <2>1 DEF Method
  <2>3. ASSUME meta.method = "stream"
        PROVE  meta.wrapped.plain = DataKeyOf(i) /\ (opts.provider # None => meta.wrapped.key.time = KeyOf(i))
    <3>1. meta.wrapped = Seal(AccessKey(SecretOf(opts), given.timeKey, meta.keyId, i), HeaderOf(opts), DataKeyOf(i))
      BY <2>1, <2>3 DEF Metadata, DataKeyOf
    <3>2. meta.wrapped.plain = DataKeyOf(i) /\ meta.wrapped.key.time = given.timeKey
      BY <3>1, AccessTime DEF Seal
    <3>3. opts.provider # None => given.timeKey = KeyOf(i)
      BY DEF GivenFor
    <3> HIDE DEF opts, given, meta
    <3> QED
      BY <3>2, <3>3
  <2>4. given.sealed \in {None, SealedTo(opts.unlock, KeyOf(i))}
    BY DEF GivenFor
  <2> HIDE DEF given, meta
  <2> QED
    BY <2>1, <2>2, <2>3, <2>4 DEF GoodMeta
<1>2. /\ DOMAIN file = FileFields /\ file.id = i
      /\ file.keychain.plain = meta /\ file.tags.escrow = given.escrow
      /\ file.payload.key = DataKey(opts, given, i)
  <2> DEFINE unsigned ==
        [id |-> i, header |-> HeaderOf(opts),
         tags |-> RouteTags(SecretOf(opts), StorageOf(opts), IF opts.provider = None THEN None ELSE opts.unlock,
                           given.escrow),
         bootstrap |-> Bootstrap(opts, i),
         keychain |-> Enclose(meta, SecretOf(opts), IF opts.provider = "aavrit" THEN given.timeKey ELSE None,
                              Bootstrap(opts, i), HeaderOf(opts)),
         blob |-> IF opts.pqc = "embedded" THEN EmbeddedBlob(opts, i, HeaderOf(opts)) ELSE None,
         payload |-> Seal(DataKey(opts, given, i), HeaderOf(opts), i), signature |-> None]
  <2>1. file = Sign(unsigned, opts.signer)
    BY DEF Build
  <2>2. DOMAIN unsigned = FileFields /\ unsigned.id = i
    BY DEF FileFields
  <2>3. unsigned.keychain.plain = meta
    BY DEF Enclose, Seal
  <2>4. unsigned.tags.escrow = given.escrow
    BY DEF RouteTags
  <2>5. unsigned.payload.key = DataKey(opts, given, i)
    BY DEF Seal
  <2> HIDE DEF unsigned, file, meta, given, opts
  <2> QED
    BY <2>1, <2>2, <2>3, <2>4, <2>5 DEF Sign, FileFields
<1>3. given.escrow \in {None, EscrowFor(i, opts.unlock)}
  BY DEF GivenFor
<1>4. opts.provider # None => DataKey(opts, given, i) \in {DataKeyOf(i), TimeOnlyKey(KeyOf(i), i)}
  BY DEF DataKey, Method, DataKeyOf, GivenFor
<1>5. GoodFile(file, s)
  <2> HIDE DEF file, meta, given
  <2> QED
    BY <1>1, <1>2, <1>3, <1>4 DEF GoodFile
<1> QED
  BY <1>5

\* Only what no provider guards is rekeyed, and its payload's key stays what it is.
LEMMA RekeyedGood ==
  ASSUME NEW s, NEW f, GoodFile(f, s), NEW old, NEW new, NEW signer, NEW salt,
         CanRekey(f, old, new, signer)
  PROVE  GoodFile(Rekeyed(f, new, signer, salt), s) /\ Rekeyed(f, new, signer, salt).id = f.id
<1> DEFINE was == f.keychain.plain
           meta == [was EXCEPT !.salt = salt, !.keyphrase = SecretOf(new).kp # None,
                      !.wrapped = Seal(AccessKey(SecretOf(new), None, None, salt), f.header, @.plain)]
           file == Rekeyed(f, new, signer, salt)
<1>1. GoodMeta(was, s) /\ DOMAIN was = MetaFields /\ was.id = f.id
  BY DEF GoodFile, GoodMeta
<1>2. was.provider = None /\ Maker(s, f.id).provider = None
  BY <1>1 DEF CanRekey, GoodMeta
<1>3. /\ DOMAIN meta = MetaFields /\ meta.id = f.id /\ meta.provider = was.provider
      /\ meta.method = was.method /\ meta.sealed = was.sealed
      /\ meta.wrapped.plain = was.wrapped.plain
  BY <1>1 DEF MetaFields, Seal
<1>4. GoodMeta(meta, s)
  <2> HIDE DEF meta, was
  <2> QED
    BY <1>1, <1>2, <1>3 DEF GoodMeta
<1>5. /\ DOMAIN file = FileFields /\ file.id = f.id /\ file.keychain.plain = meta
      /\ file.tags.escrow = None
  <2> DEFINE unsigned == [f EXCEPT !.keychain = Enclose(meta, SecretOf(new), None, None, f.header),
                                   !.tags = RouteTags(SecretOf(new), None, None, None)]
  <2>1. file = Sign(unsigned, signer)
    BY DEF Rekeyed
  <2>2. DOMAIN f = FileFields
    BY DEF GoodFile
  <2>3. DOMAIN unsigned = FileFields /\ unsigned.id = f.id
    BY <2>2 DEF FileFields
  <2>4. unsigned.keychain = Enclose(meta, SecretOf(new), None, None, f.header)
        /\ unsigned.tags = RouteTags(SecretOf(new), None, None, None)
    BY <2>2 DEF FileFields
  <2>5. unsigned.keychain.plain = meta
    BY <2>4 DEF Enclose, Seal
  <2>6. unsigned.tags.escrow = None
    BY <2>4 DEF RouteTags
  <2> HIDE DEF unsigned, file, meta, was
  <2> QED
    BY <2>1, <2>3, <2>5, <2>6 DEF Sign, FileFields
<1>6. GoodFile(file, s)
  <2> HIDE DEF file, meta, was
  <2> QED
    BY <1>2, <1>3, <1>4, <1>5, <1>1 DEF GoodFile
<1> QED
  BY <1>5, <1>6

-----------------------------------------------------------------------------
\* The time an archive was made for has come.
DueNow(s, i) == Maker(s, i).unlock \in Nat /\ Maker(s, i).unlock <= now

\* A provider's half of a key is not given away before the time.
KeyDue(k, s) == k = None \/ \E i \in Ids : k = KeyOf(i) /\ DueNow(s, i)

LEMMA KeyDueIs == ASSUME NEW s, NEW i \in Ids, KeyDue(KeyOf(i), s) PROVE DueNow(s, i)
  BY NoneAssumption DEF KeyDue, KeyOf, Ids, Ours, Theirs

\* Whatever the metadata says and the credentials are: the key of a time capsule's
\* payload comes of the provider's half.
LEMMA KeyNeedsTime ==
  ASSUME NEW s, NEW f, NEW held, NEW meta, NEW c, NEW k, NEW aad,
         GoodFile(f, s), GoodMeta(meta, s), Maker(s, f.id).provider # None, KeyDue(k, s),
         Opens(f.payload, PayloadKey(held, meta, c, k), aad)
  PROVE  DueNow(s, f.id)
<1> DEFINE key == PayloadKey(held, meta, c, k)
           access == AccessKey(SecretOf(c), k, SharedOf(held), meta.salt)
<1>1. f.id \in Ids /\ key \in {DataKeyOf(f.id), TimeOnlyKey(KeyOf(f.id), f.id)}
  BY DEF GoodFile, GoodMeta, Opens
<1>2. DataKeyOf(f.id).use = "dek" /\ DataKeyOf(f.id).salt = f.id /\ DataKeyOf(f.id) # None
  BY <1>1, NoneAssumption DEF DataKeyOf, Key, Ids
<1>3. /\ TimeOnlyKey(KeyOf(f.id), f.id).use = "timeOnly" /\ TimeOnlyKey(KeyOf(f.id), f.id).time = KeyOf(f.id)
      /\ TimeOnlyKey(KeyOf(f.id), f.id) # None
  BY <1>1, NoneAssumption, TimeOnlyIs DEF Ids
<1>4. CASE meta.method = "plaintext"
  <2>1. key.use = "public"
    BY <1>4 DEF PayloadKey, PublicKey, Key
  <2> HIDE DEF key
  <2> QED
    BY <1>1, <1>2, <1>3, <2>1
<1>5. CASE meta.method = "timekey"
  <2>1. key.use = "timeOnly" /\ key.time = k
    BY <1>5, TimeOnlyIs DEF PayloadKey
  <2> HIDE DEF key
  <2>2. k = KeyOf(f.id)
    BY <1>1, <1>2, <1>3, <2>1
  <2> QED
    BY <1>1, <2>2, KeyDueIs
<1>6. CASE meta.method = "stream"
  <2>1. key = IF Opens(meta.wrapped, access, held.header) THEN meta.wrapped.plain ELSE None
    BY <1>6 DEF PayloadKey
  <2>2. meta.wrapped.key = access /\ key = DataKeyOf(meta.id)
    <3> HIDE DEF key, access
    <3> QED
      BY <1>1, <1>2, <1>3, <1>6, <2>1 DEF Opens, GoodMeta
  <2>3. DataKeyOf(meta.id).use = "dek" /\ DataKeyOf(meta.id).salt = meta.id
    BY DEF DataKeyOf, Key
  <2>4. meta.id = f.id
    <3> HIDE DEF key
    <3> QED
      BY <1>1, <1>2, <1>3, <2>2, <2>3
  <2>5. k = KeyOf(f.id)
    BY <1>6, <2>2, <2>4, AccessTime DEF GoodMeta
  <2> QED
    BY <1>1, <2>5, KeyDueIs
<1> QED
  BY <1>4, <1>5, <1>6 DEF GoodMeta

-----------------------------------------------------------------------------
ReqFields == {"kind", "began", "cred", "given", "route", "meta", "timeKey", "held", "stat",
              "excused", "opened"}
OptionFields == {"pw", "kp", "provider", "unlock", "pqc", "kfpw", "signer", "message"}

\* Stages at which there is an archive at the path; those at which one is held open.
Reading == {"ready", "inputs", "publicLock", "metadata", "inTime", "beacon", "release", "receipt",
            "open", "gate", "payload", "trust", "opened", "selected", "delivered"}
Holding == {"gate", "payload", "trust", "opened", "selected"}

\* Credentials change, the provider and the time do not.
OwnersKept ==
  /\ DOMAIN owner = Ids /\ DOMAIN owner[Ours] = OptionFields
  /\ \A i \in Ids : owner[i].provider = Maker(scene, i).provider /\ owner[i].unlock = Maker(scene, i).unlock

GoodRoute(r, s) ==
  \/ r.escrow = None
  \/ \E i \in Ids : IsOptions(Maker(s, i)) /\ r.escrow = EscrowFor(i, Maker(s, i).unlock)

OpenedDue(o, s) ==
  o.file.id \in Ids /\ (Maker(s, o.file.id).provider # None => Maker(s, o.file.id).unlock <= o.at)

\* What holds at every stage, ...
SceneInv ==
  /\ now \in Nat /\ scene \in Scenes
  /\ OwnersKept
  /\ disk = None \/ GoodFile(disk, scene)
  /\ aside = None \/ GoodFile(aside, scene)
  /\ DOMAIN req = ReqFields
  /\ req.given \in {None, GivenFor(scene.opts, Ours)}
  /\ KeyDue(req.timeKey, scene)

\* ... and what a request knows at one.
StageInv(stage) ==
  /\ stage \in Reading => GoodFile(disk, scene)
  /\ stage \in {"inputs", "release"} => GoodRoute(req.route, scene)
  /\ stage \in {"inTime", "beacon"} => GoodMeta(req.meta, scene)
  /\ stage \in Holding => GoodFile(req.held, scene) /\ (req.kind = "session" => GoodMeta(req.meta, scene))
  /\ stage = "selected" => GoodMeta(req.meta, scene)
  /\ stage \in {"trust", "opened", "delivered"} => req.opened = None \/ OpenedDue(req.opened, scene)

EarlyInv == SceneInv /\ StageInv(pc)

LEMMA SceneOptions == ASSUME SceneInv PROVE IsOptions(scene.opts) /\ (scene.rival = None \/ IsOptions(scene.rival))
  BY ScenesAssumption DEF SceneInv

LEMMA RouteGood == ASSUME NEW s, NEW f, GoodFile(f, s) PROVE GoodRoute(PublicRoute(f), s)
<1>1. PublicRoute(f).escrow = f.tags.escrow
  BY DEF PublicRoute
<1> QED
  BY <1>1 DEF GoodFile, GoodMeta, GoodRoute

LEMMA ReleasedDue == ASSUME NEW s, NEW r, GoodRoute(r, s), Releases(r) PROVE KeyDue(KeyOf(r.escrow.id), s)
<1>1. PICK i \in Ids : IsOptions(Maker(s, i)) /\ r.escrow = EscrowFor(i, Maker(s, i).unlock)
  BY DEF GoodRoute, Releases
<1>2. r.escrow.id = i /\ r.escrow.unlock = Maker(s, i).unlock
  BY <1>1 DEF EscrowFor
<1> QED
  BY <1>1, <1>2 DEF Releases, KeyDue, DueNow, IsOptions

LEMMA BeaconDue == ASSUME NEW s, NEW m, GoodMeta(m, s), now \in Nat, BeaconOpens(m.sealed)
                   PROVE  KeyDue(m.sealed.key, s)
<1>1. m.sealed = SealedTo(Maker(s, m.id).unlock, KeyOf(m.id)) /\ m.id \in Ids
  BY DEF GoodMeta, BeaconOpens
<1>2. m.sealed.key = KeyOf(m.id) /\ m.sealed.round = RoundFor(Maker(s, m.id).unlock)
  BY <1>1 DEF SealedTo
<1>3. Maker(s, m.id).unlock \in Nat /\ Published(RoundFor(Maker(s, m.id).unlock))
  BY <1>2 DEF GoodMeta, IsOptions, BeaconOpens
<1>4. DueNow(s, m.id)
  BY <1>3, RoundReached DEF DueNow
<1> QED
  BY <1>1, <1>2, <1>4 DEF KeyDue

\* Time only adds to what is due.
LEMMA KeyStaysDue == ASSUME NEW s, NEW k, KeyDue(k, s), now \in Nat, now' \in Nat, now <= now' PROVE KeyDue(k, s)'
  BY DEF KeyDue, DueNow

SameRequest ==
  /\ DOMAIN req' = DOMAIN req /\ req'.kind = req.kind /\ req'.given = req.given /\ req'.route = req.route
  /\ req'.meta = req.meta /\ req'.timeKey = req.timeKey /\ req'.held = req.held /\ req'.opened = req.opened

Around == UNCHANGED <<scene, aside, owner>> /\ now' \in Nat /\ now <= now'

LEMMA SceneStays == ASSUME SceneInv, Around, UNCHANGED disk, SameRequest PROVE SceneInv'
<1>1. KeyDue(req.timeKey, scene)'
  BY KeyStaysDue DEF SceneInv, SameRequest, Around
<1> QED
  BY <1>1 DEF SceneInv, SameRequest, Around, OwnersKept

LEMMA StageStays == ASSUME NEW stage, StageInv(stage), Around, UNCHANGED disk, SameRequest PROVE StageInv(stage)'
  BY DEF StageInv, SameRequest, Around

\* A stage at which a request knows nothing yet.
LEMMA QuietStage == ASSUME NEW stage, stage \notin Reading PROVE StageInv(stage)
  BY DEF StageInv, Reading, Holding

LEMMA EarlyInit == ASSUME Init PROVE EarlyInv
<1>1. scene \in Scenes /\ IsOptions(scene.opts) /\ (scene.rival = None \/ IsOptions(scene.rival))
  BY ScenesAssumption DEF Init
<1>2. Maker(scene, Ours) = scene.opts /\ Maker(scene, Theirs) = scene.rival
  BY DEF Maker, Ours, Theirs
<1>3. aside = None \/ GoodFile(aside, scene)
  BY <1>1, <1>2, BuildGood DEF Init, Ids
<1>4. OwnersKept
  <2>1. owner = [i \in Ids |-> IF i = Ours THEN scene.opts ELSE scene.rival]
    BY DEF Init, Ids
  <2>2. owner[Ours] = scene.opts /\ owner[Theirs] = scene.rival
    BY <2>1 DEF Ids, Ours, Theirs
  <2>3. DOMAIN scene.opts = OptionFields
    BY <1>1 DEF IsOptions, OptionFields
  <2> QED
    BY <2>1, <2>2, <2>3, <1>2 DEF OwnersKept, Ids
<1>5. DOMAIN req = ReqFields /\ req.given = None /\ req.timeKey = None
  BY DEF Init, NoRequest, ReqFields
<1>6. SceneInv
  BY <1>1, <1>3, <1>4, <1>5 DEF SceneInv, Init, ClockInit, KeyDue
<1>7. StageInv("new")
  BY QuietStage DEF Reading
<1> QED
  BY <1>6, <1>7 DEF EarlyInv, Init

-----------------------------------------------------------------------------
\* The clock and the other threads.
LEMMA ClockAround == ASSUME now \in Nat, ClockNext \/ UNCHANGED clockVars PROVE now' \in Nat /\ now <= now'
<1>1. ASSUME NEW t \in Clients, Ask(t) \/ CallStep(t) \/ Take(t) PROVE now' = now
  BY <1>1 DEF Ask, CallStep, Enter, Use, Fetch, Store, FetchFails, Take
<1>2. ForgetTime \/ ForgetStamp \/ Prime => now' = now
  BY DEF ForgetTime, ForgetStamp, Prime, Ask
<1>3. Tick => now' = now + 1
  BY DEF Tick
<1>4. UNCHANGED clockVars => now' = now
  BY DEF clockVars
<1> QED
  BY <1>1, <1>2, <1>3, <1>4 DEF ClockNext

LEMMA Elsewhen ==
  ASSUME EarlyInv, Around, UNCHANGED <<disk, pc, req>> PROVE EarlyInv'
<1>1. SameRequest
  BY DEF SameRequest
<1>2. StageInv(pc)'
  <2>1. StageInv(pc)
    BY DEF EarlyInv
  <2> QED
    BY <1>1, <2>1 DEF StageInv, SameRequest, Around
<1> QED
  BY <1>1, <1>2, SceneStays DEF EarlyInv

\* A step of a request that goes on from one stage to the next, or is refused,
\* and only takes note of why.
LEMMA GoesOn ==
  ASSUME SceneInv, Around, UNCHANGED disk, SameRequest, NEW next, StageInv(next), pc' \in {next, "refused"}
  PROVE  EarlyInv'
<1>1. SceneInv'
  BY SceneStays
<1>2. StageInv(next)' /\ StageInv("refused")'
  BY StageStays, QuietStage DEF Reading
<1> QED
  BY <1>1, <1>2 DEF EarlyInv

LEMMA Noted == ASSUME SceneInv, NEW x, req' = [req EXCEPT !.excused = x] \/ req' = req PROVE SameRequest
  BY DEF SceneInv, SameRequest, ReqFields

\* The gates that ask the clock.
LEMMA ClockGate ==
  ASSUME EarlyInv,
         CheckUnlockTime \/ CheckStillAhead \/ CheckNotTooFar \/ CheckPublicLock \/ PassGate
         \/ CheckAligned("aligned", "seal") \/ CheckAligned("inTime", "beacon")
  PROVE  EarlyInv'
<1> DEFINE Goes(stage, next) ==
      /\ pc = stage /\ pc' \in {next, "refused"} /\ Around /\ UNCHANGED disk /\ SameRequest
<1> USE DEF Requires, Goto, Take, Around, EarlyInv, SceneInv, envVars
<1>1. CheckUnlockTime => Goes("unlockTime", "aligned")
  BY Noted DEF CheckUnlockTime, Clocked
<1>2. CheckStillAhead => Goes("stillAhead", "written")
  BY Noted DEF CheckStillAhead, Clocked
<1>3. CheckNotTooFar => Goes("written", "build")
  BY Noted DEF CheckNotTooFar, Clocked
<1>4. CheckPublicLock => Goes("publicLock", "metadata")
  BY Noted DEF CheckPublicLock, Clocked
<1>5. PassGate => Goes("gate", "payload")
  BY Noted DEF PassGate, Clocked
<1>6. ASSUME NEW stage, NEW next, CheckAligned(stage, next) PROVE Goes(stage, next)
  <2>1. \E x : req' = [req EXCEPT !.excused = x]
    BY <1>6 DEF CheckAligned
  <2>2. SameRequest
    BY <2>1, Noted
  <2> QED
    BY <1>6, <2>2 DEF CheckAligned
<1> HIDE DEF Requires, Goto, Take, Around, EarlyInv, SceneInv, envVars
<1>7. StageInv("aligned") /\ StageInv("seal") /\ StageInv("written") /\ StageInv("build")
  BY QuietStage DEF Reading
<1>8. /\ StageInv("publicLock") => StageInv("metadata")
      /\ StageInv("gate") => StageInv("payload")
      /\ StageInv("inTime") => StageInv("beacon")
  BY DEF StageInv, Reading, Holding
<1>9. SceneInv /\ StageInv(pc)
  BY DEF EarlyInv
<1>10. CASE CheckPublicLock
  BY <1>4, <1>8, <1>9, <1>10, GoesOn
<1>11. CASE PassGate
  BY <1>5, <1>8, <1>9, <1>11, GoesOn
<1>12. CASE CheckAligned("inTime", "beacon")
  BY <1>6, <1>8, <1>9, <1>12, GoesOn
<1>13. CASE CheckUnlockTime \/ CheckStillAhead \/ CheckNotTooFar \/ CheckAligned("aligned", "seal")
  BY <1>1, <1>2, <1>3, <1>6, <1>7, <1>9, <1>13, GoesOn
<1> QED
  BY <1>10, <1>11, <1>12, <1>13

-----------------------------------------------------------------------------
\* What follows a step of the request that may change all but the clock.
LEMMA Onwards ==
  ASSUME SceneInv', NEW stage, StageInv(stage)', pc' \in {stage, "refused"}
  PROVE  EarlyInv'
<1>1. StageInv("refused")'
  BY DEF StageInv, Reading, Holding
<1> QED
  BY <1>1 DEF EarlyInv

LEMMA KeepsAround == ASSUME SceneInv, Keeps PROVE Around
  BY DEF SceneInv, Keeps, Around, clockVars, envVars

\* The request's locals change; the archive and the owners stay.
LEMMA LocalsChange ==
  ASSUME SceneInv, Around, UNCHANGED disk, DOMAIN req' = ReqFields,
         req'.given \in {None, GivenFor(scene.opts, Ours)}, KeyDue(req'.timeKey, scene)
  PROVE  SceneInv'
<1>1. KeyDue(req.timeKey, scene)'
  BY KeyStaysDue DEF SceneInv, Around
<1> QED
  BY <1>1 DEF SceneInv, Around, OwnersKept

LEMMA StartsOver == KeyDue(NoRequest.timeKey, scene) /\ NoRequest.given = None /\ DOMAIN NoRequest = ReqFields
  BY DEF NoRequest, ReqFields, KeyDue

\* Making an archive.
LEMMA Making ==
  ASSUME EarlyInv, BeginCreate \/ SealToRound \/ CreateEscrow \/ Create PROVE EarlyInv'
<1> USE DEF EarlyInv
<1>1. CASE BeginCreate
  <2>1. Around /\ UNCHANGED disk
    BY <1>1, KeepsAround DEF BeginCreate
  <2>2. DOMAIN req' = ReqFields /\ req'.given = None /\ req'.timeKey = None
    BY <1>1 DEF BeginCreate, NoRequest, ReqFields
  <2>3. SceneInv'
    BY <2>1, <2>2, LocalsChange DEF KeyDue
  <2>4. pc' \in {"build", "unlockTime", "escrow", "refused"}
    BY <1>1, SceneOptions DEF BeginCreate, Requires, Goto, IsOptions
  <2>5. StageInv(pc)'
    BY <2>4 DEF StageInv, Reading, Holding
  <2> QED
    BY <2>3, <2>5
<1>2. CASE SealToRound
  <2>1. Around /\ UNCHANGED disk
    BY <1>2, KeepsAround DEF SealToRound
  <2>2. DOMAIN req' = ReqFields /\ req'.given \in {None, GivenFor(scene.opts, Ours)} /\ req'.timeKey = req.timeKey
    BY <1>2 DEF SealToRound, SceneInv, ReqFields
  <2>3. SceneInv'
    BY <2>1, <2>2, LocalsChange DEF SceneInv
  <2>4. pc' \in {"stillAhead", "refused"}
    BY <1>2 DEF SealToRound, Goto
  <2>5. StageInv(pc)'
    BY <2>4 DEF StageInv, Reading, Holding
  <2> QED
    BY <2>3, <2>5
<1>3. CASE CreateEscrow
  <2>1. Around /\ UNCHANGED disk
    BY <1>3, KeepsAround DEF CreateEscrow
  <2>2. DOMAIN req' = ReqFields /\ req'.given \in {None, GivenFor(scene.opts, Ours)} /\ req'.timeKey = req.timeKey
    BY <1>3 DEF CreateEscrow, SceneInv, ReqFields
  <2>3. SceneInv'
    BY <2>1, <2>2, LocalsChange DEF SceneInv
  <2>4. pc' \in {"build", "refused"}
    BY <1>3 DEF CreateEscrow, Goto, Requires
  <2>5. StageInv(pc)'
    BY <2>4 DEF StageInv, Reading, Holding
  <2> QED
    BY <2>3, <2>5
<1>4. CASE Create
  <2>1. Around /\ pc' = "ready" /\ req' = NoRequest
    BY <1>4, KeepsAround DEF Create, Goto
  <2>2. disk' = Build(scene.opts, GivenFor(scene.opts, Ours), Ours)
    BY <1>4 DEF Create, SceneInv
  <2>3. IsOptions(Maker(scene, Ours)) /\ Maker(scene, Ours) = scene.opts /\ Ours \in Ids
    BY SceneOptions DEF Maker, Ids
  <2>4. GoodFile(disk', scene)
    BY <2>2, <2>3, BuildGood
  <2>5. SceneInv'
    <3>1. DOMAIN req' = ReqFields /\ req'.given = None /\ req'.timeKey = None
      BY <2>1 DEF NoRequest, ReqFields
    <3>2. OwnersKept'
      BY <2>1 DEF SceneInv, Around, OwnersKept
    <3> QED
      BY <2>1, <2>4, <3>1, <3>2 DEF SceneInv, Around, KeyDue
  <2>6. StageInv("ready")'
    BY <2>1, <2>4 DEF StageInv, Holding, Around
  <2> QED
    BY <2>1, <2>5, <2>6
<1> QED
  BY <1>1, <1>2, <1>3, <1>4

\* The archive at the path changes under a request.
LEMMA Changed == ASSUME EarlyInv, Rekey \/ Swap PROVE EarlyInv'
<1> USE DEF EarlyInv
<1>1. CASE Rekey
  <2>1. PICK r \in scene.rekeys :
          LET fresh == IF disk.keychain.plain.salt = Ours + 1 THEN Ours + 2 ELSE Ours + 1 IN
          /\ CanRekey(disk, r.old, r.new, r.signer)
          /\ disk' = Rekeyed(disk, r.new, r.signer, fresh)
          /\ owner' = [owner EXCEPT ![Ours].pw = r.new.pw, ![Ours].kp = r.new.kp, ![Ours].signer = r.signer]
    BY <1>1 DEF Rekey
  <2>2. pc \in {"ready", "inputs", "open"} /\ pc' = pc /\ UNCHANGED <<now, scene, aside>>
    BY <1>1 DEF Rekey, clockVars, envVars
  <2>3. SameRequest
    BY <1>1, Noted DEF Rekey
  <2>4. GoodFile(disk, scene)
    BY <2>2 DEF StageInv, Reading
  <2>5. GoodFile(disk', scene)
    BY <2>1, <2>4, RekeyedGood
  <2>6. OwnersKept'
    <3>1. DOMAIN owner = Ids /\ DOMAIN owner[Ours] = OptionFields /\ Ours \in Ids
      BY DEF SceneInv, OwnersKept, Ids
    <3>2. DOMAIN owner' = Ids /\ DOMAIN owner'[Ours] = OptionFields
      BY <2>1, <3>1
    <3>3. owner'[Ours].provider = owner[Ours].provider /\ owner'[Ours].unlock = owner[Ours].unlock
      BY <2>1, <3>1 DEF OptionFields
    <3>4. \A i \in Ids : i # Ours => owner'[i] = owner[i]
      BY <2>1, <3>1
    <3> QED
      BY <2>2, <3>2, <3>3, <3>4 DEF SceneInv, OwnersKept
  <2>7. KeyDue(req.timeKey, scene)'
    BY <2>2, <2>3 DEF SceneInv, SameRequest, KeyDue, DueNow
  <2>8. SceneInv'
    BY <2>2, <2>3, <2>5, <2>6, <2>7 DEF SceneInv, SameRequest
  <2>9. StageInv(pc)'
    BY <2>2, <2>3, <2>5 DEF StageInv, Holding, SameRequest
  <2> QED
    BY <2>8, <2>9
<1>2. CASE Swap
  <2>1. pc' = pc /\ UNCHANGED <<now, scene, owner>> /\ disk' = aside /\ aside' = disk /\ aside # None
    BY <1>2 DEF Swap, clockVars
  <2>2. SameRequest
    BY <1>2, Noted DEF Swap
  <2>3. GoodFile(disk', scene)
    BY <2>1 DEF SceneInv
  <2>4. KeyDue(req.timeKey, scene)'
    BY <2>1, <2>2 DEF SceneInv, SameRequest, KeyDue, DueNow
  <2>5. SceneInv'
    BY <2>1, <2>2, <2>3, <2>4 DEF SceneInv, SameRequest, OwnersKept
  <2>6. StageInv(pc)'
    BY <2>1, <2>2, <2>3 DEF StageInv, SameRequest
  <2> QED
    BY <2>5, <2>6
<1> QED
  BY <1>1, <1>2

\* Up to the provider.
LEMMA Approaching ==
  ASSUME EarlyInv, ReadRoute \/ CheckInputs \/ ReadMetadata \/ AskBeacon \/ ReleaseEscrow \/ CheckReceipt
  PROVE  EarlyInv'
<1> USE DEF EarlyInv
<1>1. CASE ReadRoute
  <2>1. Around /\ UNCHANGED disk /\ pc = "ready" /\ pc' = "inputs"
    BY <1>1, KeepsAround DEF ReadRoute, Goto
  <2>2. GoodFile(disk, scene)
    BY <2>1 DEF StageInv, Reading
  <2>3. /\ DOMAIN req' = ReqFields /\ req'.given = None /\ req'.timeKey = None /\ req'.route = PublicRoute(disk)
    BY <1>1 DEF ReadRoute, NoRequest, ReqFields
  <2>4. SceneInv'
    BY <2>1, <2>3, LocalsChange DEF KeyDue
  <2>5. StageInv("inputs")'
    BY <2>1, <2>2, <2>3, RouteGood DEF StageInv, Holding, Around
  <2> QED
    BY <2>1, <2>4, <2>5
<1>2. CASE CheckInputs
  <2>1. Around /\ UNCHANGED <<disk, req>> /\ pc = "inputs"
    BY <1>2, KeepsAround DEF CheckInputs
  <2>2. pc' \in {"publicLock", "release", "open", "refused"}
    BY <1>2 DEF CheckInputs, Requires, Goto
  <2>3. StageInv("publicLock") /\ StageInv("release") /\ StageInv("open")
    BY <2>1 DEF StageInv, Reading, Holding
  <2>4. SameRequest
    BY <2>1 DEF SameRequest
  <2> QED
    BY <2>1, <2>2, <2>3, <2>4, GoesOn
<1>3. CASE ReadMetadata
  <2>1. Around /\ UNCHANGED disk /\ pc = "metadata" /\ pc' \in {"inTime", "refused"}
    BY <1>3, KeepsAround DEF ReadMetadata, Requires, Goto
  <2>2. GoodFile(disk, scene)
    BY <2>1 DEF StageInv, Reading
  <2>3. req' = [req EXCEPT !.meta = disk.keychain.plain]
    BY <1>3 DEF ReadMetadata
  <2>4. /\ DOMAIN req' = ReqFields /\ req'.given = req.given /\ req'.timeKey = req.timeKey
        /\ req'.meta = disk.keychain.plain
    BY <2>3 DEF SceneInv, ReqFields
  <2>5. SceneInv'
    BY <2>1, <2>4, LocalsChange DEF SceneInv
  <2>6. StageInv("inTime")'
    BY <2>1, <2>2, <2>4 DEF StageInv, Holding, GoodFile, Around
  <2> QED
    BY <2>1, <2>5, <2>6, Onwards
<1>4. CASE AskBeacon
  <2>1. Around /\ UNCHANGED disk /\ pc = "beacon" /\ pc' \in {"open", "refused"}
    BY <1>4, KeepsAround DEF AskBeacon, Requires, Goto
  <2>2. GoodMeta(req.meta, scene) /\ GoodFile(disk, scene)
    BY <2>1 DEF StageInv, Reading
  <2>3. DOMAIN req' = ReqFields /\ req'.given = req.given
    BY <1>4 DEF AskBeacon, SceneInv, ReqFields
  <2>4. KeyDue(req'.timeKey, scene)
    <3>1. req'.timeKey = req.timeKey \/ (req'.timeKey = req.meta.sealed.key /\ BeaconOpens(req.meta.sealed))
      BY <1>4 DEF AskBeacon, SceneInv, ReqFields
    <3> QED
      BY <2>2, <3>1, BeaconDue DEF SceneInv
  <2>5. SceneInv'
    BY <2>1, <2>3, <2>4, LocalsChange DEF SceneInv
  <2>6. StageInv("open")'
    BY <2>1, <2>2 DEF StageInv, Holding, Around
  <2> QED
    BY <2>1, <2>5, <2>6, Onwards
<1>5. CASE ReleaseEscrow
  <2>1. Around /\ UNCHANGED disk /\ pc = "release" /\ pc' \in {"receipt", "open", "refused"}
    BY <1>5, KeepsAround DEF ReleaseEscrow, Goto
  <2>2. GoodRoute(req.route, scene) /\ GoodFile(disk, scene)
    BY <2>1 DEF StageInv, Reading
  <2>3. DOMAIN req' = ReqFields /\ req'.given = req.given
    BY <1>5 DEF ReleaseEscrow, SceneInv, ReqFields
  <2>4. KeyDue(req'.timeKey, scene)
    <3>1. \/ req'.timeKey = req.timeKey
          \/ \E route \in {PublicRoute(disk), req.route} :
               Releases(route) /\ req'.timeKey = KeyOf(route.escrow.id)
      BY <1>5 DEF ReleaseEscrow, SceneInv, ReqFields
    <3>2. GoodRoute(PublicRoute(disk), scene)
      BY <2>2, RouteGood
    <3> QED
      BY <2>2, <3>1, <3>2, ReleasedDue DEF SceneInv
  <2>5. SceneInv'
    BY <2>1, <2>3, <2>4, LocalsChange DEF SceneInv
  <2>6. StageInv("open")' /\ StageInv("receipt")'
    BY <2>1, <2>2 DEF StageInv, Holding, Around
  <2> QED
    BY <2>1, <2>5, <2>6, Onwards
<1>6. CASE CheckReceipt
  <2>1. Around /\ UNCHANGED disk /\ pc = "receipt" /\ pc' \in {"open", "refused"}
    BY <1>6, KeepsAround DEF CheckReceipt, Requires, Goto
  <2>2. GoodFile(disk, scene)
    BY <2>1 DEF StageInv, Reading
  <2>3. DOMAIN req' = ReqFields /\ req'.given = req.given /\ req'.timeKey = req.timeKey
    BY <1>6 DEF CheckReceipt, SceneInv, ReqFields
  <2>4. SceneInv'
    BY <2>1, <2>3, LocalsChange DEF SceneInv
  <2>5. StageInv("open")'
    BY <2>1, <2>2 DEF StageInv, Holding, Around
  <2> QED
    BY <2>1, <2>4, <2>5, Onwards
<1> QED
  BY <1>1, <1>2, <1>3, <1>4, <1>5, <1>6

\* What opens is due.
LEMMA OpenedIsDue ==
  ASSUME SceneInv, NEW f, GoodFile(f, scene), NEW held, NEW meta, GoodMeta(meta, scene), NEW c, NEW aad,
         Opens(f.payload, PayloadKey(held, meta, c, req.timeKey), aad)
  PROVE  OpenedDue([file |-> f, at |-> now], scene)
<1>1. f.id \in Ids
  BY DEF GoodFile, GoodMeta
<1>2. Maker(scene, f.id).provider # None => DueNow(scene, f.id)
  BY KeyNeedsTime DEF SceneInv
<1> QED
  BY <1>1, <1>2 DEF OpenedDue, DueNow

\* From the open file to the answer.
LEMMA Arriving ==
  ASSUME EarlyInv,
         OpenArchive \/ OpenPayload \/ CheckCreator \/ SelectFromSession \/ ReadSelection \/ Answer
  PROVE  EarlyInv'
<1> USE DEF EarlyInv
<1>1. CASE OpenArchive
  <2>1. Around /\ UNCHANGED disk /\ pc = "open" /\ pc' \in {"payload", "gate", "refused"}
    BY <1>1, KeepsAround DEF OpenArchive, Requires, Goto
  <2>2. GoodFile(disk, scene)
    BY <2>1 DEF StageInv, Reading
  <2>3. req' = [req EXCEPT !.held = disk, !.meta = IF FromCapsule THEN @ ELSE disk.keychain.plain]
    BY <1>1 DEF OpenArchive
  <2>4. /\ DOMAIN req' = ReqFields /\ req'.given = req.given /\ req'.timeKey = req.timeKey
        /\ req'.kind = req.kind /\ req'.held = disk
        /\ req.kind = "session" => req'.meta = disk.keychain.plain
    BY <2>3 DEF SceneInv, ReqFields, FromCapsule
  <2>5. SceneInv'
    BY <2>1, <2>4, LocalsChange DEF SceneInv
  <2>6. StageInv("payload")' /\ StageInv("gate")'
    BY <2>1, <2>2, <2>4 DEF StageInv, GoodFile, Around
  <2> QED
    BY <2>1, <2>5, <2>6, Onwards
<1>2. CASE OpenPayload
  <2>1. Around /\ UNCHANGED disk /\ pc = "payload" /\ pc' \in {"trust", "opened", "refused"}
    BY <1>2, KeepsAround DEF OpenPayload, Requires, Goto
  <2>2. /\ GoodFile(disk, scene) /\ GoodFile(req.held, scene)
        /\ req.kind = "session" => GoodMeta(req.meta, scene)
    BY <2>1 DEF StageInv, Reading, Holding
  <2>3. /\ DOMAIN req' = ReqFields /\ req'.given = req.given /\ req'.timeKey = req.timeKey
        /\ req'.kind = req.kind /\ req'.held = req.held /\ req'.meta = req.meta
        /\ req'.opened = [file |-> req.held, at |-> now]
    BY <1>2 DEF OpenPayload, SceneInv, ReqFields
  <2>4. SceneInv'
    BY <2>1, <2>3, LocalsChange DEF SceneInv
  <2>5. CASE OpensPayload(req.held, req.cred, req.timeKey)
    <3>1. GoodMeta(req.held.keychain.plain, scene)
      BY <2>2 DEF GoodFile
    <3>2. OpenedDue(req'.opened, scene)
      BY <2>2, <2>3, <2>5, <3>1, OpenedIsDue DEF OpensPayload
    <3>3. StageInv("trust")' /\ StageInv("opened")'
      BY <2>1, <2>2, <2>3, <3>2 DEF StageInv, Around
    <3> QED
      BY <2>1, <2>4, <3>3, Onwards
  <2>6. CASE ~OpensPayload(req.held, req.cred, req.timeKey)
    <3>1. pc' = "refused"
      BY <1>2, <2>6 DEF OpenPayload, Requires, Goto
    <3>2. StageInv("refused")'
      BY DEF StageInv, Reading, Holding
    <3> QED
      BY <2>4, <3>1, <3>2
  <2> QED
    BY <2>5, <2>6
<1>3. CASE CheckCreator
  <2>1. Around /\ UNCHANGED <<disk, req>> /\ pc = "trust" /\ pc' \in {"opened", "refused"}
    BY <1>3, KeepsAround DEF CheckCreator, Requires, Goto
  <2>2. StageInv("opened")
    BY <2>1 DEF StageInv, Reading, Holding
  <2>3. SameRequest
    BY <2>1 DEF SameRequest
  <2> QED
    BY <2>1, <2>2, <2>3, GoesOn
<1>4. CASE SelectFromSession
  <2>1. Around /\ UNCHANGED disk /\ pc = "opened" /\ req.kind = "session" /\ pc' \in {"selected", "refused"}
    BY <1>4, KeepsAround DEF SelectFromSession, Requires, Goto
  <2>2. GoodFile(disk, scene) /\ GoodFile(req.held, scene) /\ GoodMeta(req.meta, scene)
    BY <2>1 DEF StageInv, Reading, Holding
  <2>3. /\ DOMAIN req' = ReqFields /\ req'.given = req.given /\ req'.timeKey = req.timeKey
        /\ req'.held = req.held /\ req'.meta = req.meta
    BY <1>4 DEF SelectFromSession, SceneInv, ReqFields
  <2>4. SceneInv'
    BY <2>1, <2>3, LocalsChange DEF SceneInv
  <2>5. StageInv("selected")'
    BY <2>1, <2>2, <2>3 DEF StageInv, Around
  <2> QED
    BY <2>1, <2>4, <2>5, Onwards
<1>5. CASE ReadSelection
  <2>1. Around /\ UNCHANGED disk /\ pc = "selected" /\ pc' \in {"delivered", "refused"}
    BY <1>5, KeepsAround DEF ReadSelection, Requires, Goto
  <2>2. GoodFile(disk, scene) /\ GoodMeta(req.meta, scene)
    BY <2>1 DEF StageInv, Reading
  <2>3. /\ DOMAIN req' = ReqFields /\ req'.given = req.given /\ req'.timeKey = req.timeKey
        /\ req'.opened = [file |-> disk, at |-> now]
    BY <1>5 DEF ReadSelection, SceneInv, ReqFields
  <2>4. SceneInv'
    BY <2>1, <2>3, LocalsChange DEF SceneInv
  <2>5. CASE Opens(disk.payload, PayloadKey(req.held, req.meta, req.cred, req.timeKey), req.held.header)
    <3>1. OpenedDue(req'.opened, scene)
      BY <2>2, <2>3, <2>5, OpenedIsDue
    <3>2. StageInv("delivered")'
      BY <2>1, <2>2, <3>1 DEF StageInv, Holding, Around
    <3> QED
      BY <2>1, <2>4, <3>2, Onwards
  <2>6. CASE ~Opens(disk.payload, PayloadKey(req.held, req.meta, req.cred, req.timeKey), req.held.header)
    <3>1. pc' = "refused"
      BY <1>5, <2>6 DEF ReadSelection, Requires, Goto
    <3>2. StageInv("refused")'
      BY DEF StageInv, Reading, Holding
    <3> QED
      BY <2>4, <3>1, <3>2
  <2> QED
    BY <2>5, <2>6
<1>6. CASE Answer
  <2>1. Around /\ UNCHANGED disk /\ pc' = (IF disk = None THEN "new" ELSE "ready") /\ req' = NoRequest
    BY <1>6, KeepsAround DEF Answer, Goto
  <2>2. DOMAIN req' = ReqFields /\ req'.given = None /\ req'.timeKey = None
    BY <2>1 DEF NoRequest, ReqFields
  <2>3. SceneInv'
    BY <2>1, <2>2, LocalsChange DEF KeyDue
  <2>4. disk # None => GoodFile(disk, scene)
    BY DEF SceneInv
  <2>5. StageInv(pc)'
    BY <2>1, <2>4 DEF StageInv, Reading, Holding, Around
  <2> QED
    BY <2>3, <2>5
<1> QED
  BY <1>1, <1>2, <1>3, <1>4, <1>5, <1>6

-----------------------------------------------------------------------------
LEMMA EarlyNext == ASSUME EarlyInv, [Next]_vars PROVE EarlyInv'
<1>1. now \in Nat
  BY DEF EarlyInv, SceneInv
<1>2. ASSUME ClockNext \/ UNCHANGED clockVars, UNCHANGED <<scene, aside, owner, disk, pc, req>> PROVE EarlyInv'
  BY <1>1, <1>2, ClockAround, Elsewhen DEF Around
<1>3. CASE AskClock \/ ClockWorks
  <2>1. ASSUME NEW stage PROVE Asker(stage) \in Clients
    BY DEF Asker, Clients
  <2>2. ClockNext
    BY <1>3, <2>1 DEF AskClock, ClockWorks, ClockNext, CallStep
  <2> QED
    BY <1>2, <1>3, <2>2 DEF AskClock, ClockWorks, gateVars, envVars
<1>4. CASE BeginRefresh \/ Refreshing \/ RefreshAsks \/ RefreshTold
  <2>1. ClockNext
    BY <1>4 DEF BeginRefresh, Refreshing, RefreshAsks, RefreshTold, ClockNext, Clients
  <2> QED
    BY <1>2, <1>4, <2>1 DEF BeginRefresh, Refreshing, RefreshAsks, RefreshTold, gateVars, envVars
<1>5. CASE WarmUpStarts \/ WarmUpEnds \/ TimePasses
  <2>1. ClockNext
    BY <1>5 DEF WarmUpStarts, WarmUpEnds, TimePasses, ClockNext, Clients
  <2> QED
    BY <1>2, <1>5, <2>1 DEF WarmUpStarts, WarmUpEnds, TimePasses, gateVars, envVars
<1>6. CASE UNCHANGED vars
  BY <1>2, <1>6 DEF vars, gateVars, envVars
<1> QED
  BY <1>3, <1>4, <1>5, <1>6, Making, Changed, Approaching, Arriving, ClockGate DEF Next

\* However an archive is made, rekeyed, exchanged at its path and opened, and
\* whatever the trusted clock says: no time capsule opens before the time its maker
\* chose (extract_multi_file_avk, open_indexed_archive_metadata, release_escrow,
\* drand_timelock_helper.mjs).
THEOREM CapsulesKeepTheirTime == Spec => []NeverEarly
<1>1. EarlyInv => NeverEarly
  <2> SUFFICES ASSUME EarlyInv, Opened, MakerOf(req.opened.file).provider # None
               PROVE  req.opened.at >= MakerOf(req.opened.file).unlock
    BY DEF NeverEarly
  <2>1. OpenedDue(req.opened, scene) /\ OwnersKept
    BY DEF EarlyInv, StageInv, SceneInv, Opened
  <2>2. Maker(scene, req.opened.file.id).unlock <= req.opened.at
    BY <2>1 DEF OpenedDue, OwnersKept, MakerOf
  <2> QED
    BY <2>1, <2>2 DEF OpenedDue, OwnersKept, MakerOf
<1> QED
  BY EarlyInit, EarlyNext, <1>1, PTL DEF Spec

-----------------------------------------------------------------------------
\* What is in the archive of an owner, and what rekeying does to it.

\* The metadata and the archive that belong to an owner's options, credentials as of
\* now, and to the salt of the last rekeying.
MetaOf(o, salt, i) ==
  LET given == GivenFor(o, i)
      shared == IF o.pqc = None THEN None ELSE PqcMaterial(i).shared
  IN [id |-> i, salt |-> salt, provider |-> o.provider, unlock |-> o.unlock,
      method |-> Method(o), keyphrase |-> o.kp # None,
      wrapped |-> IF Method(o) = "stream"
                  THEN Seal(AccessKey(SecretOf(o), given.timeKey, shared, salt), HeaderOf(o), DataKeyOf(i))
                  ELSE None,
      timeHash |-> given.timeKey, sealed |-> given.sealed, escrow |-> given.escrow,
      storage |-> StorageOf(o), keyId |-> shared, message |-> o.message]

GatedBy(o, i) == IF o.provider = "aavrit" THEN GivenFor(o, i).timeKey ELSE None

UnsignedOf(o, salt, i) ==
  [id |-> i, header |-> HeaderOf(o),
   tags |-> RouteTags(SecretOf(o), StorageOf(o), IF o.provider = None THEN None ELSE o.unlock, GivenFor(o, i).escrow),
   bootstrap |-> Bootstrap(o, i),
   keychain |-> Enclose(MetaOf(o, salt, i), SecretOf(o), GatedBy(o, i), Bootstrap(o, i), HeaderOf(o)),
   blob |-> IF o.pqc = "embedded" THEN EmbeddedBlob(o, i, HeaderOf(o)) ELSE None,
   payload |-> Seal(DataKey(o, GivenFor(o, i), i), HeaderOf(o), i), signature |-> None]

FileOf(o, salt, i) == Sign(UnsignedOf(o, salt, i), o.signer)

\* An owner after a rekeying.
With(o, c, signer) == [o EXCEPT !.pw = c.pw, !.kp = c.kp, !.signer = signer]

LEMMA BuildIs == ASSUME NEW o, NEW i PROVE Build(o, GivenFor(o, i), i) = FileOf(o, i, i)
<1>1. Metadata(o, GivenFor(o, i), i) = MetaOf(o, i, i)
  BY DEF Metadata, MetaOf, SecretOf, DataKeyOf
<1> QED
  BY <1>1 DEF Build, FileOf, UnsignedOf, GatedBy

LEMMA MadeIs ==
  ASSUME NEW o, NEW i
  PROVE  o.provider = None => GivenFor(o, i) = [timeKey |-> None, sealed |-> None, escrow |-> None]
  BY NoneAssumption DEF GivenFor

\* What is in the archive of an owner.
LEMMA FileIs ==
  ASSUME NEW o, NEW salt, NEW i, NEW f, f = FileOf(o, salt, i)
  PROVE  /\ DOMAIN f = FileFields
         /\ f.id = i /\ f.header = HeaderOf(o) /\ f.bootstrap = Bootstrap(o, i)
         /\ f.tags = UnsignedOf(o, salt, i).tags /\ f.blob = UnsignedOf(o, salt, i).blob
         /\ f.keychain = UnsignedOf(o, salt, i).keychain /\ f.keychain.plain = MetaOf(o, salt, i)
         /\ f.payload = UnsignedOf(o, salt, i).payload
         /\ f.payload.key = DataKey(o, GivenFor(o, i), i) /\ f.payload.aad = HeaderOf(o) /\ f.payload.plain = i
         /\ f.signature.by = o.signer /\ f.signature.over = Manifest(f)
<1> DEFINE u == UnsignedOf(o, salt, i)
<1>1. /\ DOMAIN u = FileFields /\ u.id = i /\ u.header = HeaderOf(o) /\ u.bootstrap = Bootstrap(o, i)
      /\ u.payload = Seal(DataKey(o, GivenFor(o, i), i), HeaderOf(o), i)
      /\ u.keychain = Enclose(MetaOf(o, salt, i), SecretOf(o), GatedBy(o, i), Bootstrap(o, i), HeaderOf(o))
  BY DEF UnsignedOf, FileFields
<1>2. f = [u EXCEPT !.signature = [by |-> o.signer, over |-> Manifest(u)]]
  BY DEF FileOf, Sign
<1> HIDE DEF u
<1>3. /\ DOMAIN f = FileFields /\ f.id = u.id /\ f.header = u.header /\ f.tags = u.tags
      /\ f.bootstrap = u.bootstrap /\ f.keychain = u.keychain /\ f.blob = u.blob /\ f.payload = u.payload
      /\ f.signature = [by |-> o.signer, over |-> Manifest(u)]
  BY <1>1, <1>2 DEF FileFields
<1>4. Manifest(f) = Manifest(u)
  BY <1>3 DEF Manifest
<1>5. u.keychain.plain = MetaOf(o, salt, i)
  BY <1>1 DEF Enclose, Seal
<1>6. u.payload.key = DataKey(o, GivenFor(o, i), i) /\ u.payload.aad = HeaderOf(o) /\ u.payload.plain = i
  BY <1>1 DEF Seal
<1> QED
  BY <1>1, <1>3, <1>4, <1>5, <1>6 DEF u

\* Only what no provider and no post-quantum key guards is rekeyed, ...
Rekeyable(o) == o.provider = None /\ o.pqc = None /\ HasUserSecret(SecretOf(o))

LEMMA RekeyedAre ==
  ASSUME NEW o, NEW salt, NEW i, NEW f, f = FileOf(o, salt, i), NEW old, NEW new, NEW signer,
         CanRekey(f, old, new, signer)
  PROVE  Rekeyable(o) /\ HasUserSecret(SecretOf(new))
<1> DEFINE m == MetaOf(o, salt, i)
<1> HIDE DEF m
<1>1. f.keychain.plain = m
  BY FileIs DEF m
<1>2. m.provider = o.provider /\ m.method = Method(o) /\ m.storage = StorageOf(o)
  BY DEF MetaOf, m
<1>3. o.provider = None /\ Method(o) # "plaintext" /\ StorageOf(o) = None /\ HasUserSecret(SecretOf(new))
  BY <1>1, <1>2 DEF CanRekey
<1>4. o.pqc = None /\ HasUserSecret(SecretOf(o))
  BY <1>3, NoneAssumption DEF StorageOf, Method
<1> QED
  BY <1>3, <1>4 DEF Rekeyable

\* ... and rekeying leaves no trace of the credentials there were: the archive is the
\* one its owner would have made with the new ones, but for the salt.
LEMMA RekeyedIs ==
  ASSUME NEW o, IsOptions(o), NEW salt, NEW i, NEW f, f = FileOf(o, salt, i), NEW new, NEW signer, NEW fresh,
         Rekeyable(o), HasUserSecret(SecretOf(new))
  PROVE  Rekeyed(f, new, signer, fresh) = FileOf(With(o, new, signer), fresh, i)
<1> DEFINE m == MetaOf(o, salt, i)
           p == With(o, new, signer)
           n == MetaOf(p, fresh, i)
           r == Rekeyed(f, new, signer, fresh)
<1> HIDE DEF m, p, n, r
<1>1. f.keychain.plain = m /\ f.header = HeaderOf(o) /\ DOMAIN f = FileFields
  BY FileIs DEF m
<1>3. o.provider = None /\ HasUserSecret(SecretOf(new))
  BY DEF Rekeyable
<1>4. o.pqc = None /\ Method(o) = "stream" /\ HasUserSecret(SecretOf(o)) /\ StorageOf(o) = None
  BY DEF Rekeyable, Method, StorageOf
<1>5. /\ p.pw = new.pw /\ p.kp = new.kp /\ p.signer = signer /\ p.provider = o.provider /\ p.unlock = o.unlock
      /\ p.pqc = o.pqc /\ p.message = o.message
  BY DEF IsOptions, With, p
<1>6. SecretOf(p) = SecretOf(new) /\ SecretOf(new).kp = p.kp /\ Method(p) = "stream" /\ StorageOf(p) = None
  BY <1>3, <1>4, <1>5 DEF SecretOf, Method, StorageOf
<1>7. /\ GivenFor(o, i) = [timeKey |-> None, sealed |-> None, escrow |-> None]
      /\ GivenFor(p, i) = [timeKey |-> None, sealed |-> None, escrow |-> None]
  BY <1>3, <1>5, MadeIs
<1>8. HeaderOf(p) = HeaderOf(o) /\ Bootstrap(o, i) = None /\ Bootstrap(p, i) = None
  BY <1>4, <1>5 DEF HeaderOf, Bootstrap
<1>9. n = [m EXCEPT !.salt = fresh, !.keyphrase = SecretOf(new).kp # None,
                    !.wrapped = Seal(AccessKey(SecretOf(new), None, None, fresh), f.header, @.plain)]
  <2>1. m.wrapped.plain = DataKeyOf(i)
    BY <1>4 DEF MetaOf, Seal, m
  <2>2. m = [id |-> i, salt |-> salt, provider |-> o.provider, unlock |-> o.unlock,
             method |-> "stream", keyphrase |-> o.kp # None, wrapped |-> m.wrapped,
             timeHash |-> None, sealed |-> None, escrow |-> None,
             storage |-> None, keyId |-> None, message |-> o.message]
    BY <1>4, <1>7 DEF MetaOf, m
  <2>3. n = [id |-> i, salt |-> fresh, provider |-> o.provider, unlock |-> o.unlock,
             method |-> "stream", keyphrase |-> p.kp # None,
             wrapped |-> Seal(AccessKey(SecretOf(new), None, None, fresh), HeaderOf(o), DataKeyOf(i)),
             timeHash |-> None, sealed |-> None, escrow |-> None,
             storage |-> None, keyId |-> None, message |-> o.message]
    BY <1>4, <1>5, <1>6, <1>7, <1>8 DEF MetaOf, n
  <2> DEFINE w == Seal(AccessKey(SecretOf(new), None, None, fresh), HeaderOf(o), DataKeyOf(i))
             k == p.kp # None
             d == Method(o)
  <2> HIDE DEF w, k
  <2>4. n = [m EXCEPT !.salt = fresh, !.keyphrase = k, !.wrapped = w]
    <3>1. DOMAIN m = MetaFields /\ DOMAIN n = MetaFields
      BY <2>2, <2>3 DEF MetaFields
    <3>2. n.salt = fresh /\ n.keyphrase = k /\ n.wrapped = w
      BY <2>3 DEF w, k
    <3>3. \A x \in MetaFields \ {"salt", "keyphrase", "wrapped"} : n[x] = m[x]
      BY <2>2, <2>3 DEF MetaFields
    <3>4. m = [x \in MetaFields |-> m[x]]
      BY <2>2 DEF MetaFields
    <3>5. n = [x \in MetaFields |-> n[x]]
      BY <2>3 DEF MetaFields
    <3> QED
      BY <3>1, <3>2, <3>3, <3>4, <3>5 DEF MetaFields
  <2> QED
    BY <1>1, <1>6, <2>1, <2>4 DEF w, k
<1>10. r = Sign([f EXCEPT !.keychain = Enclose(n, SecretOf(new), None, None, f.header),
                          !.tags = RouteTags(SecretOf(new), None, None, None)], signer)
  BY <1>1, <1>9 DEF Rekeyed, r
<1>11. UnsignedOf(p, fresh, i) =
         [id |-> i, header |-> HeaderOf(o), tags |-> RouteTags(SecretOf(new), None, None, None),
          bootstrap |-> None, keychain |-> Enclose(n, SecretOf(new), None, None, HeaderOf(o)),
          blob |-> None, payload |-> Seal(DataKeyOf(i), HeaderOf(o), i), signature |-> None]
  <2>1. p.provider = None /\ p.pqc = None /\ GatedBy(p, i) = None
    BY <1>3, <1>4, <1>5, <1>7 DEF GatedBy
  <2>2. DataKey(p, GivenFor(p, i), i) = DataKeyOf(i)
    BY <1>6 DEF DataKey, DataKeyOf
  <2>3. p.pqc # "embedded"
    BY <2>1, NoneAssumption
  <2> QED
    BY <1>6, <1>7, <1>8, <2>1, <2>2, <2>3 DEF UnsignedOf, n
<1>12. /\ f.bootstrap = None /\ f.blob = None /\ f.payload = Seal(DataKeyOf(i), HeaderOf(o), i)
       /\ f.id = i
  <2>1. /\ UnsignedOf(o, salt, i).blob = None
        /\ UnsignedOf(o, salt, i).payload = Seal(DataKey(o, GivenFor(o, i), i), HeaderOf(o), i)
    BY <1>4, NoneAssumption DEF UnsignedOf
  <2>2. DataKey(o, GivenFor(o, i), i) = DataKeyOf(i)
    BY <1>4 DEF DataKey, DataKeyOf
  <2> QED
    BY <1>8, <2>1, <2>2, FileIs
<1>13. r = FileOf(p, fresh, i)
  <2> DEFINE a == [f EXCEPT !.keychain = Enclose(n, SecretOf(new), None, None, f.header),
                            !.tags = RouteTags(SecretOf(new), None, None, None)]
             b == UnsignedOf(p, fresh, i)
  <2>1. DOMAIN a = FileFields /\ DOMAIN b = FileFields
    BY <1>1, <1>11 DEF FileFields
  <2>2. a.id = b.id /\ a.header = b.header /\ a.bootstrap = b.bootstrap /\ a.blob = b.blob
        /\ a.payload = b.payload
    BY <1>1, <1>11, <1>12 DEF FileFields
  <2>3. a.keychain = b.keychain /\ a.tags = b.tags
    BY <1>1, <1>11 DEF FileFields
  <2>4. a = [a EXCEPT !.signature = a.signature]
    OBVIOUS
  <2> HIDE DEF a, b
  <2>5. Manifest(a) = Manifest(b)
    BY <2>2, <2>3 DEF Manifest
  <2>6. Sign(a, signer) = Sign(b, signer)
    BY <2>1, <2>2, <2>3, <2>5 DEF Sign, FileFields
  <2> QED
    BY <1>5, <1>10, <2>6 DEF FileOf, a, b
<1> QED
  BY <1>13 DEF r, p


-----------------------------------------------------------------------------
\* Every archive is one its owner would make now.

\* Where a request is, by what it is for.
MakingStages == {"unlockTime", "aligned", "seal", "stillAhead", "written", "escrow", "build"}
OpeningStages == Reading \ {"ready"}

KindAt ==
  /\ pc \in Stages
  /\ pc \in {"new", "ready"} => req.kind = None
  /\ pc \in MakingStages => req.kind = "create"
  /\ pc \in OpeningStages => req.kind \in {"decrypt", "session"}
  /\ pc = "refused" => req.kind \in {"create", "decrypt", "session"}
  /\ pc \in {"trust", "selected"} => req.kind = "session"

Unmade == pc \in {"new"} \cup MakingStages \/ (pc = "refused" /\ req.kind = "create")

\* The client's options and salt are those the archive was made with, or has by a
\* rekeying.
MadeBy(s, o, salt) ==
  \/ o = s.opts /\ salt = Ours
  \/ \E r \in s.rekeys : /\ Rekeyable(s.opts) /\ HasUserSecret(SecretOf(r.new))
                         /\ o = With(s.opts, r.new, r.signer) /\ salt \in {Ours + 1, Ours + 2}

Owned(f, s, o) ==
  \/ /\ s.rival # None /\ IsOptions(s.rival) /\ ValidOptions(s.rival)
     /\ f = FileOf(s.rival, Theirs, Theirs) /\ f.id = Theirs
  \/ \E salt : MadeBy(s, o, salt) /\ f = FileOf(o, salt, Ours) /\ f.id = Ours

\* Every archive is as its owner would make it now, and no two are the same one.
OwnInv ==
  /\ disk = None <=> Unmade
  /\ owner[Theirs] = scene.rival
  /\ Unmade => owner[Ours] = scene.opts
  /\ pc \in MakingStages \/ ~Unmade => ValidOptions(scene.opts)
  /\ \E salt : MadeBy(scene, owner[Ours], salt)
  /\ disk # None => Owned(disk, scene, owner[Ours])
  /\ aside # None => Owned(aside, scene, owner[Ours])
  /\ aside # None => aside.id # (IF disk = None THEN Ours ELSE disk.id)

KnownInv == KindAt /\ OwnInv

Quiet ==
  /\ UNCHANGED <<scene, owner, disk, aside>> /\ KindAt' /\ (Unmade' <=> Unmade)
  /\ pc' \in MakingStages => pc \in MakingStages \/ ValidOptions(scene.opts)

LEMMA QuietKnown == ASSUME KnownInv, Quiet PROVE KnownInv'
  BY DEF KnownInv, OwnInv, Quiet

LEMMA Staying == ASSUME KindAt, UNCHANGED <<scene, owner, disk, aside, pc>>, req'.kind = req.kind PROVE Quiet
  BY DEF Quiet, KindAt, Unmade

\* A request goes on making, or is refused.
LEMMA MakingOn ==
  ASSUME KindAt, UNCHANGED <<scene, owner, disk, aside>>, req'.kind = req.kind,
         pc \in MakingStages, pc' \in MakingStages \cup {"refused"}
  PROVE  Quiet
  BY DEF Quiet, KindAt, Unmade, MakingStages, OpeningStages, Reading, Stages

LEMMA OpeningOn ==
  ASSUME KindAt, UNCHANGED <<scene, owner, disk, aside>>, req'.kind = req.kind,
         pc \in OpeningStages, pc' \in OpeningStages \cup {"refused"},
         pc' \in {"trust", "selected"} => req.kind = "session"
  PROVE  Quiet
<1>1. req.kind \in {"decrypt", "session"} /\ ~Unmade
  BY DEF KindAt, Unmade, MakingStages, OpeningStages, Reading
<1>2. pc' \notin {"new", "ready"} /\ pc' \notin MakingStages /\ pc' \in Stages
  BY DEF MakingStages, OpeningStages, Reading, Stages
<1> QED
  BY <1>1, <1>2 DEF Quiet, KindAt, Unmade

LEMMA KindKept == ASSUME SceneInv PROVE \A x : [req EXCEPT !.excused = x].kind = req.kind
  BY DEF SceneInv, ReqFields

\* The clock's gates.
LEMMA GatesQuiet ==
  ASSUME SceneInv, KindAt,
         CheckUnlockTime \/ CheckStillAhead \/ CheckNotTooFar \/ CheckPublicLock \/ PassGate
         \/ CheckAligned("aligned", "seal") \/ CheckAligned("inTime", "beacon")
  PROVE  Quiet
<1> DEFINE Goes(stage, next) ==
      /\ pc = stage /\ pc' \in {next, "refused"} /\ UNCHANGED <<scene, owner, disk, aside>> /\ req'.kind = req.kind
<1> USE DEF Requires, Goto, envVars
<1>1. CheckUnlockTime => Goes("unlockTime", "aligned")
  BY KindKept DEF CheckUnlockTime, Clocked
<1>2. CheckStillAhead => Goes("stillAhead", "written")
  BY KindKept DEF CheckStillAhead, Clocked
<1>3. CheckNotTooFar => Goes("written", "build")
  BY KindKept DEF CheckNotTooFar, Clocked
<1>4. CheckPublicLock => Goes("publicLock", "metadata")
  BY KindKept DEF CheckPublicLock, Clocked
<1>5. PassGate => Goes("gate", "payload")
  BY KindKept DEF PassGate, Clocked
<1>6. ASSUME NEW stage, NEW next, CheckAligned(stage, next) PROVE Goes(stage, next)
  <2>1. \E x : req' = [req EXCEPT !.excused = x]
    BY <1>6 DEF CheckAligned
  <2> QED
    BY <1>6, <2>1, KindKept DEF CheckAligned
<1> HIDE DEF Requires, Goto, envVars
<1>7. CASE CheckPublicLock \/ PassGate \/ CheckAligned("inTime", "beacon")
  BY <1>4, <1>5, <1>6, <1>7, OpeningOn DEF OpeningStages, Reading
<1>8. CASE CheckUnlockTime \/ CheckStillAhead \/ CheckNotTooFar \/ CheckAligned("aligned", "seal")
  BY <1>1, <1>2, <1>3, <1>6, <1>8, MakingOn DEF MakingStages
<1> QED
  BY <1>7, <1>8

\* The request's own steps that leave the archives alone.
LEMMA MakingQuiet == ASSUME SceneInv, KindAt, BeginCreate \/ SealToRound \/ CreateEscrow PROVE Quiet
<1> USE DEF Requires, Goto, Keeps, envVars
<1>1. CASE BeginCreate
  <2>1. pc = "new" /\ pc' \in {"build", "unlockTime", "escrow", "refused"} /\ req'.kind = "create"
    BY <1>1, SceneOptions DEF BeginCreate, IsOptions, NoRequest
  <2>2. UNCHANGED <<scene, owner, disk, aside>>
    BY <1>1 DEF BeginCreate
  <2>3. KindAt' /\ Unmade' /\ Unmade
    BY <2>1 DEF KindAt, Unmade, MakingStages, OpeningStages, Reading, Stages
  <2>4. pc' \in MakingStages => ValidOptions(scene.opts)
    BY <1>1 DEF BeginCreate, MakingStages
  <2> QED
    BY <2>2, <2>3, <2>4 DEF Quiet
<1>2. CASE SealToRound
  <2>1. pc = "seal" /\ pc' \in {"stillAhead", "refused"} /\ UNCHANGED <<scene, owner, disk, aside>>
    BY <1>2 DEF SealToRound
  <2>2. req'.kind = req.kind
    BY <1>2 DEF SealToRound, SceneInv, ReqFields
  <2> QED
    BY <2>1, <2>2, MakingOn DEF MakingStages
<1>3. CASE CreateEscrow
  <2>1. pc = "escrow" /\ pc' \in {"build", "refused"} /\ UNCHANGED <<scene, owner, disk, aside>>
    BY <1>3 DEF CreateEscrow
  <2>2. req'.kind = req.kind
    BY <1>3 DEF CreateEscrow, SceneInv, ReqFields
  <2> QED
    BY <2>1, <2>2, MakingOn DEF MakingStages
<1> QED
  BY <1>1, <1>2, <1>3

LEMMA OpeningQuiet ==
  ASSUME SceneInv, KindAt,
         CheckInputs \/ ReadMetadata \/ AskBeacon \/ ReleaseEscrow \/ CheckReceipt \/ OpenArchive \/ OpenPayload
         \/ CheckCreator \/ SelectFromSession \/ ReadSelection
  PROVE  Quiet
<1> DEFINE Goes(stage, next) ==
      /\ pc = stage /\ pc' \in next \cup {"refused"} /\ UNCHANGED <<scene, owner, disk, aside>> /\ req'.kind = req.kind
<1> USE DEF Requires, Goto, Keeps, envVars, SceneInv, ReqFields
<1>1. CheckInputs => Goes("inputs", {"publicLock", "release", "open"})
  BY DEF CheckInputs
<1>2. ReadMetadata => Goes("metadata", {"inTime"})
  BY DEF ReadMetadata
<1>3. AskBeacon => Goes("beacon", {"open"})
  BY DEF AskBeacon
<1>4. ReleaseEscrow => Goes("release", {"receipt", "open"})
  BY DEF ReleaseEscrow
<1>5. CheckReceipt => Goes("receipt", {"open"})
  BY DEF CheckReceipt
<1>6. OpenArchive => Goes("open", {"payload", "gate"})
  BY DEF OpenArchive
<1>7. OpenPayload => Goes("payload", {"trust", "opened"}) /\ (pc' = "trust" => req.kind = "session")
  BY DEF OpenPayload
<1>8. CheckCreator => Goes("trust", {"opened"})
  BY DEF CheckCreator
<1>9. SelectFromSession => Goes("opened", {"selected"}) /\ (pc' = "selected" => req.kind = "session")
  BY DEF SelectFromSession
<1>10. ReadSelection => Goes("selected", {"delivered"})
  BY DEF ReadSelection
<1> HIDE DEF Requires, Goto, Keeps, envVars, SceneInv, ReqFields
<1>11. CASE CheckInputs \/ ReadMetadata \/ AskBeacon \/ ReleaseEscrow \/ CheckReceipt
  BY <1>1, <1>2, <1>3, <1>4, <1>5, <1>11, OpeningOn DEF OpeningStages, Reading
<1>12. CASE OpenArchive \/ OpenPayload \/ CheckCreator \/ SelectFromSession \/ ReadSelection
  BY <1>6, <1>7, <1>8, <1>9, <1>10, <1>12, OpeningOn DEF OpeningStages, Reading
<1> QED
  BY <1>11, <1>12

LEMMA EndsQuiet == ASSUME SceneInv, KnownInv, ReadRoute \/ Answer PROVE Quiet
<1>1. CASE ReadRoute
  <2>1. pc = "ready" /\ pc' = "inputs" /\ UNCHANGED <<scene, owner, disk, aside>> /\ req'.kind \in scene.kinds
    BY <1>1 DEF ReadRoute, Goto, Keeps, envVars, NoRequest
  <2>2. req'.kind \in {"decrypt", "session"}
    BY <2>1, ScenesAssumption DEF SceneInv
  <2> QED
    BY <2>1, <2>2 DEF Quiet, KindAt, Unmade, MakingStages, OpeningStages, Reading, Stages
<1>2. CASE Answer
  <2>1. pc \in {"opened", "delivered", "refused"} /\ pc' = (IF disk = None THEN "new" ELSE "ready") /\ req'.kind = None
    BY <1>2 DEF Answer, Goto, NoRequest
  <2>2. UNCHANGED <<scene, owner, disk, aside>>
    BY <1>2 DEF Answer, Keeps, envVars
  <2>3. Unmade' <=> disk = None
    BY <2>1 DEF Unmade, MakingStages
  <2>4. Unmade <=> disk = None
    BY DEF KnownInv, OwnInv
  <2> QED
    BY <2>1, <2>2, <2>3, <2>4 DEF Quiet, KindAt, MakingStages, OpeningStages, Reading, Stages
<1> QED
  BY <1>1, <1>2

LEMMA OthersQuiet ==
  ASSUME SceneInv, KindAt,
         AskClock \/ ClockWorks \/ BeginRefresh \/ Refreshing \/ RefreshAsks \/ RefreshTold
         \/ WarmUpStarts \/ WarmUpEnds \/ TimePasses \/ UNCHANGED vars
  PROVE  Quiet
<1>1. UNCHANGED <<scene, owner, disk, aside, pc, req>>
  BY DEF AskClock, ClockWorks, BeginRefresh, Refreshing, RefreshAsks, RefreshTold, WarmUpStarts, WarmUpEnds,
         TimePasses, vars, gateVars, envVars
<1> QED
  BY <1>1, Staying

LEMMA FirstFile ==
  ASSUME SceneInv
  PROVE  /\ Build(scene.opts, GivenFor(scene.opts, Ours), Ours) = FileOf(scene.opts, Ours, Ours)
         /\ FileOf(scene.opts, Ours, Ours) # None
  BY BuildIs, NoneAssumption DEF SceneInv

LEMMA KnownInit == ASSUME Init PROVE KnownInv
<1>1. SceneInv
  BY EarlyInit DEF EarlyInv
<1>2. pc = "new" /\ req.kind = None /\ disk = None /\ Unmade
  BY DEF Init, NoRequest, Unmade
<1>3. KindAt
  BY <1>2 DEF KindAt, Stages, MakingStages, OpeningStages, Reading
<1>4. owner[Ours] = scene.opts /\ owner[Theirs] = scene.rival
  BY DEF Init, Ours, Theirs
<1>5. MadeBy(scene, owner[Ours], Ours)
  BY <1>4 DEF MadeBy
<1>6. aside # None => Owned(aside, scene, owner[Ours]) /\ aside.id = Theirs
  <2>1. ASSUME scene.rival # None
        PROVE  aside = FileOf(scene.rival, Theirs, Theirs) /\ IsOptions(scene.rival) /\ ValidOptions(scene.rival)
    BY <2>1, BuildIs, ScenesAssumption DEF Init
  <2>2. scene.rival = None => aside = None
    BY DEF Init
  <2>3. ASSUME scene.rival # None PROVE aside.id = Theirs
    BY <2>1, <2>3, FileIs
  <2> QED
    BY <2>1, <2>2, <2>3 DEF Owned
<1>7. ~(pc \in MakingStages) /\ Unmade
  BY <1>2 DEF MakingStages
<1>8. \E salt : MadeBy(scene, owner[Ours], salt)
  BY <1>5
<1>9. aside # None => aside.id # Ours
  BY <1>6 DEF Ours, Theirs
<1>10. OwnInv
  BY <1>2, <1>4, <1>6, <1>7, <1>8, <1>9 DEF OwnInv
<1> QED
  BY <1>3, <1>10 DEF KnownInv

LEMMA CreateKnown == ASSUME SceneInv, KnownInv, Create PROVE KnownInv'
<1>1. pc = "build" /\ pc' = "ready" /\ req'.kind = None /\ UNCHANGED <<scene, owner, aside>>
  BY DEF Create, Goto, NoRequest, Keeps, envVars
<1>2. disk' = FileOf(scene.opts, Ours, Ours) /\ disk' # None
  <2>1. disk' = Build(scene.opts, GivenFor(scene.opts, Ours), Ours)
    BY DEF Create, SceneInv
  <2> QED
    BY <2>1, FirstFile
<1>3. disk'.id = Ours
  BY <1>2, FileIs
<1>4. Unmade /\ ~Unmade'
  BY <1>1 DEF Unmade, MakingStages
<1>5. owner[Ours] = scene.opts /\ disk = None
  BY <1>4 DEF KnownInv, OwnInv
<1>6. Owned(disk', scene, owner[Ours])
  BY <1>2, <1>3, <1>5 DEF Owned, MadeBy
<1>7. KindAt'
  BY <1>1 DEF KindAt, Stages, MakingStages, OpeningStages
<1>8. ValidOptions(scene.opts)
  BY <1>1 DEF KnownInv, OwnInv, MakingStages
<1>9. OwnInv'
  BY <1>1, <1>2, <1>3, <1>4, <1>5, <1>6, <1>8 DEF KnownInv, OwnInv
<1> QED
  BY <1>7, <1>9 DEF KnownInv

LEMMA SwapKnown == ASSUME SceneInv, KnownInv, Swap PROVE KnownInv'
<1>1. UNCHANGED <<scene, owner, pc>> /\ disk' = aside /\ aside' = disk /\ aside # None
      /\ req.kind \in {"decrypt", "session"}
  BY DEF Swap
<1>2. req'.kind = req.kind
  BY KindKept DEF Swap
<1>3. KindAt' /\ (Unmade' <=> Unmade)
  BY <1>1, <1>2 DEF KnownInv, KindAt, Unmade
<1>4. ~Unmade
  BY <1>1, NoneAssumption DEF KnownInv, KindAt, Unmade, MakingStages
<1>5. OwnInv'
  BY <1>1, <1>3, <1>4 DEF KnownInv, OwnInv
<1> QED
  BY <1>3, <1>5 DEF KnownInv

LEMMA WithIsOptions == ASSUME NEW o, IsOptions(o), NEW c, NEW g PROVE IsOptions(With(o, c, g))
<1> DEFINE p == With(o, c, g)
<1>1. DOMAIN o = OptionFields
  BY DEF IsOptions, OptionFields
<1>2. /\ DOMAIN p = OptionFields /\ p.provider = o.provider /\ p.unlock = o.unlock /\ p.pqc = o.pqc
      /\ p = [x \in OptionFields |-> p[x]]
  BY <1>1 DEF With, OptionFields
<1> HIDE DEF p
<1>3. p = [pw |-> p.pw, kp |-> p.kp, provider |-> p.provider, unlock |-> p.unlock, pqc |-> p.pqc,
           kfpw |-> p.kfpw, signer |-> p.signer, message |-> p.message]
  BY <1>2 DEF OptionFields
<1> QED
  BY <1>2, <1>3 DEF IsOptions, p

LEMMA RekeyKnown == ASSUME SceneInv, KnownInv, Rekey PROVE KnownInv'
<1>1. PICK r \in scene.rekeys :
        LET fresh == IF disk.keychain.plain.salt = Ours + 1 THEN Ours + 2 ELSE Ours + 1 IN
        /\ CanRekey(disk, r.old, r.new, r.signer)
        /\ disk' = Rekeyed(disk, r.new, r.signer, fresh)
        /\ owner' = [owner EXCEPT ![Ours].pw = r.new.pw, ![Ours].kp = r.new.kp, ![Ours].signer = r.signer]
  BY DEF Rekey
<1>2. pc \in {"ready", "inputs", "open"} /\ pc' = pc /\ UNCHANGED <<scene, aside>> /\ disk.id = Ours
  BY DEF Rekey, envVars
<1>3. req'.kind = req.kind
  BY KindKept DEF Rekey
<1>4. KindAt' /\ ~Unmade /\ ~Unmade'
  BY <1>2, <1>3 DEF KnownInv, KindAt, Unmade, MakingStages
<1>5. PICK salt : MadeBy(scene, owner[Ours], salt) /\ disk = FileOf(owner[Ours], salt, Ours)
  BY <1>2, <1>4 DEF KnownInv, OwnInv, Owned, Ours, Theirs
<1>6. IsOptions(scene.opts) /\ DOMAIN scene.opts = OptionFields
  BY SceneOptions DEF IsOptions, OptionFields
<1>7. Rekeyable(owner[Ours]) /\ HasUserSecret(SecretOf(r.new))
  BY <1>1, <1>5, RekeyedAre
<1>8. Rekeyable(scene.opts)
  BY <1>5, <1>7 DEF MadeBy
<1>9. IsOptions(owner[Ours])
  <2>1. ASSUME NEW c, NEW g PROVE IsOptions(With(scene.opts, c, g))
    BY <1>6, WithIsOptions
  <2> QED
    BY <1>5, <1>6, <2>1 DEF MadeBy
<1> DEFINE fresh == IF disk.keychain.plain.salt = Ours + 1 THEN Ours + 2 ELSE Ours + 1
           new == With(scene.opts, r.new, r.signer)
<1>10. fresh \in {Ours + 1, Ours + 2}
  OBVIOUS
<1> HIDE DEF fresh
<1>11. With(owner[Ours], r.new, r.signer) = new
  <2>1. ASSUME NEW c, NEW g PROVE With(With(scene.opts, c, g), r.new, r.signer) = new
    BY <1>6 DEF With, OptionFields
  <2> QED
    BY <1>5, <2>1 DEF MadeBy
<1>12. owner'[Ours] = new /\ owner'[Theirs] = owner[Theirs]
  <2>1. DOMAIN owner = Ids
    BY DEF SceneInv, OwnersKept
  <2>2. owner' = [owner EXCEPT ![Ours] = With(owner[Ours], r.new, r.signer)]
    BY <1>1, <2>1 DEF With, Ids
  <2> QED
    BY <1>11, <2>1, <2>2 DEF Ids, Ours, Theirs
<1> HIDE DEF new
<1>13. disk' = FileOf(new, fresh, Ours)
  BY <1>1, <1>5, <1>7, <1>9, <1>11, RekeyedIs DEF fresh
<1>14. disk' # None
  <2>1. Rekeyed(FileOf(scene.opts, Ours, Ours), r.new, r.signer, fresh) = FileOf(new, fresh, Ours)
    BY <1>6, <1>7, <1>8, RekeyedIs DEF new
  <2>2. \A n \in 1..2 : Rekeyed(FileOf(scene.opts, Ours, Ours), r.new, r.signer, Ours + n) # None
    BY <1>8, NoneAssumption, FirstFile DEF SceneInv, Rekeyable
  <2>3. fresh = Ours + 1 \/ fresh = Ours + 2
    BY <1>10
  <2>4. 1 \in 1..2 /\ 2 \in 1..2
    OBVIOUS
  <2> QED
    BY <1>13, <2>1, <2>2, <2>3, <2>4
<1>15. MadeBy(scene, new, fresh)
  BY <1>7, <1>8, <1>10 DEF MadeBy, new
<1>16. disk'.id = Ours
  BY <1>13, FileIs
<1>17. Owned(disk', scene, new)
  BY <1>13, <1>15, <1>16 DEF Owned
<1>18. aside # None => aside.id # Ours /\ disk # None
  BY <1>2, <1>4 DEF KnownInv, OwnInv
<1>19. aside # None => Owned(aside, scene, new)
  BY <1>18 DEF KnownInv, OwnInv, Owned
<1>20. owner[Theirs] = scene.rival
  BY DEF KnownInv, OwnInv
<1>21. ValidOptions(scene.opts)
  BY <1>4 DEF KnownInv, OwnInv
<1>22. OwnInv'
  BY <1>21, <1>2, <1>4, <1>12, <1>14, <1>15, <1>16, <1>17, <1>18, <1>19, <1>20 DEF OwnInv
<1> QED
  BY <1>4, <1>22 DEF KnownInv

LEMMA KnownNext == ASSUME SceneInv, KnownInv, [Next]_vars PROVE KnownInv'
<1>1. KindAt
  BY DEF KnownInv
<1>2. Quiet => KnownInv'
  BY QuietKnown
<1> QED
  BY <1>1, <1>2, CreateKnown, SwapKnown, RekeyKnown, GatesQuiet, MakingQuiet, OpeningQuiet, EndsQuiet, OthersQuiet
     DEF Next

LEMMA AlwaysKnown == Spec => [](EarlyInv /\ KnownInv)
<1>1. EarlyInv => SceneInv
  BY DEF EarlyInv
<1>2. Init => EarlyInv /\ KnownInv
  BY EarlyInit, KnownInit
<1>3. (EarlyInv /\ KnownInv) /\ [Next]_vars => (EarlyInv /\ KnownInv)'
  BY <1>1, EarlyNext, KnownNext
<1> QED
  BY <1>2, <1>3, PTL DEF Spec


-----------------------------------------------------------------------------
\* What fits, and what needs it.

LEMMA AccessSecret == ASSUME NEW secret, NEW timeKey, NEW shared, NEW salt
                      PROVE  AccessKey(secret, timeKey, shared, salt).secret = secret
<1> DEFINE k == Key("payload", secret, salt)
           h == SplitKey(k, timeKey)
<1>1. h.secret = secret /\ DOMAIN h = {"use", "secret", "time", "pqc", "salt"}
  BY DEF SplitKey, WithTime, Key
<1> HIDE DEF h
<1>2. HybridKey(h, shared).secret = secret
  BY <1>1 DEF HybridKey, WithPqc
<1> QED
  BY <1>2 DEF AccessKey, h

LEMMA OwnedIs ==
  ASSUME SceneInv, KnownInv, NEW f, Owned(f, scene, owner[Ours])
  PROVE  /\ f.id \in Ids /\ IsOptions(owner[f.id])
         /\ \E salt : f = FileOf(owner[f.id], salt, f.id)
         /\ f.payload.plain = f.id /\ f.keychain.plain.id = f.id
         /\ f.signature.by = owner[f.id].signer
<1>1. owner[Theirs] = scene.rival
  BY DEF KnownInv, OwnInv
<1>2. ASSUME NEW salt, MadeBy(scene, owner[Ours], salt) PROVE IsOptions(owner[Ours])
  BY <1>2, SceneOptions, WithIsOptions DEF MadeBy
<1>3. f.id \in Ids /\ IsOptions(owner[f.id]) /\ \E salt : f = FileOf(owner[f.id], salt, f.id)
  BY <1>1, <1>2 DEF Owned, Ids
<1>4. PICK salt : f = FileOf(owner[f.id], salt, f.id)
  BY <1>3
<1>5. f.payload.plain = f.id /\ f.signature.by = owner[f.id].signer
  BY <1>4, FileIs
<1>6. f.keychain.plain = MetaOf(owner[f.id], salt, f.id)
  BY <1>4, FileIs
<1>7. f.keychain.plain.id = f.id
  BY <1>6 DEF MetaOf
<1> QED
  BY <1>3, <1>5, <1>7

SecretFits(o, c) == HasUserSecret(SecretOf(o)) => SecretOf(c) = SecretOf(o)

\* Without the whole secret of its owner the payload does not open.
LEMMA SecretNeeded ==
  ASSUME NEW o, NEW salt, NEW i \in Ids, NEW f, f = FileOf(o, salt, i), NEW c, NEW k, OpensPayload(f, c, k)
  PROVE  SecretFits(o, c)
<1> SUFFICES ASSUME HasUserSecret(SecretOf(o)) PROVE SecretOf(c) = SecretOf(o)
  BY DEF SecretFits
<1> DEFINE m == MetaOf(o, salt, i)
           access == AccessKey(SecretOf(c), k, SharedOf(f), m.salt)
           key == IF Opens(m.wrapped, access, f.header) THEN m.wrapped.plain ELSE None
<1>1. Method(o) = "stream"
  BY DEF Method
<1>2. f.keychain.plain = m /\ f.payload.key = DataKey(o, GivenFor(o, i), i)
  BY FileIs
<1>3. DataKey(o, GivenFor(o, i), i) = DataKeyOf(i) /\ DataKeyOf(i) # None
  BY <1>1, NoneAssumption DEF DataKey, DataKeyOf, Ids
<1>4. m.method = "stream" /\ m.wrapped.key.secret = SecretOf(o)
  BY <1>1, AccessSecret DEF MetaOf, Seal
<1>5. access.secret = SecretOf(c)
  BY AccessSecret
<1> HIDE DEF m, access
<1>6. PayloadKey(f, m, c, k) = key
  BY <1>4 DEF PayloadKey, access
<1>7. Opens(f.payload, PayloadKey(f, m, c, k), f.header)
  BY <1>2 DEF OpensPayload
<1> HIDE DEF key
<1>8. key = DataKeyOf(i)
  BY <1>2, <1>3, <1>6, <1>7 DEF Opens
<1>9. m.wrapped.key = access
  BY <1>3, <1>8 DEF key, Opens
<1> QED
  BY <1>4, <1>5, <1>9

LEMMA KeyfileIs ==
  ASSUME NEW o, NEW i
  PROVE  /\ KeyfileFor(o, i).keyId = i
         /\ o.pqc = "dual" => KeyfileFor(o, i).outer = OuterKey(o.kfpw, i)
  BY DEF KeyfileFor, Wrap, PqcMaterial

\* Where the keyfile is the archive's own, and the second password the one it is
\* wrapped with, or nothing is resolved.
LEMMA KeyfileNeeded ==
  ASSUME SceneInv, KnownInv, NEW f, Owned(f, scene, owner[Ours]), NEW c \in scene.reads,
         PqcResolved(f, Credentials(c))
  PROVE  Fits(f, Credentials(c))
<1> DEFINE o == owner[f.id]
           i == f.id
           d == Credentials(c)
<1> SUFFICES ASSUME o.pqc \in {"external", "dual"}
             PROVE  d.keyfile = KeyfileFor(o, i) /\ (o.pqc = "dual" => d.kfpw = o.kfpw)
  BY DEF Fits, MakerOf
<1>1. PICK salt : f = FileOf(o, salt, i)
  BY OwnedIs
<1>2. i \in Ids /\ o \in {scene.opts, scene.rival} /\ (i = Ours => o = scene.opts)
      /\ (i = Theirs => o = scene.rival /\ o # None)
  <2>1. owner[Theirs] = scene.rival
    BY DEF KnownInv, OwnInv
  <2>2. CASE i = Theirs
    BY <2>1, <2>2 DEF Owned, Ids, Ours, Theirs
  <2>3. CASE i = Ours
    <3>1. PICK s : MadeBy(scene, owner[Ours], s)
      BY DEF KnownInv, OwnInv
    <3>2. ASSUME NEW r, Rekeyable(scene.opts), owner[Ours] = With(scene.opts, r.new, r.signer) PROVE FALSE
      <4>1. DOMAIN scene.opts = OptionFields
        BY SceneOptions DEF IsOptions, OptionFields
      <4>2. With(scene.opts, r.new, r.signer).pqc = scene.opts.pqc
        BY <4>1 DEF With, OptionFields
      <4> QED
        BY <3>2, <2>3, <4>2, NoneAssumption DEF Rekeyable
    <3>3. owner[Ours] = scene.opts
      BY <3>1, <3>2 DEF MadeBy
    <3> QED
      BY <2>3, <3>3 DEF Ids, Ours, Theirs
  <2> QED
    BY <2>2, <2>3, OwnedIs DEF Ids
<1>3. /\ f.bootstrap = Bootstrap(o, i) /\ f.bootstrap # None
      /\ f.bootstrap.keyId = i /\ f.bootstrap.storage = "external"
  <2>1. o.pqc # None /\ o.pqc # "embedded"
    BY NoneAssumption
  <2>2. f.bootstrap = Bootstrap(o, i)
    BY <1>1, FileIs
  <2>3. Bootstrap(o, i) # None
    BY <1>2, <2>1, NoneAssumption DEF SceneInv, Ids
  <2>4. Bootstrap(o, i).keyId = i /\ Bootstrap(o, i).storage = "external"
    BY <2>1 DEF Bootstrap, StorageOf
  <2> QED
    BY <2>2, <2>3, <2>4
<1>4. ReadKeyfile(d.keyfile, d, f.bootstrap)
  BY <1>3 DEF PqcResolved
<1>5. d.keyfile # None /\ d.keyfile.keyId = i /\ Unwraps(d.keyfile, d.kfpw)
  BY <1>3, <1>4 DEF ReadKeyfile
<1>6. d.keyfile \in {KeyfileFor(scene.opts, Ours), KeyfileFor(scene.opts, Theirs + 1), None}
  <2>1. c = [pw |-> c.pw, kp |-> c.kp, keyfile |-> c.keyfile, kfpw |-> c.kfpw]
    BY ScenesAssumption DEF SceneInv
  <2>2. DOMAIN c = {"pw", "kp", "keyfile", "kfpw"}
    BY <2>1
  <2> QED
    BY <2>2 DEF Credentials
<1> HIDE DEF d, o, i
<1>7. d.keyfile = KeyfileFor(scene.opts, Ours) /\ i = Ours
  BY <1>2, <1>5, <1>6, KeyfileIs DEF Ids, Ours, Theirs
<1>8. ASSUME o.pqc = "dual" PROVE d.kfpw = o.kfpw
  <2>1. o = scene.opts
    BY <1>2, <1>7
  <2>2. d.keyfile.outer = OuterKey(o.kfpw, Ours)
    BY <1>7, <1>8, <2>1, KeyfileIs
  <2>3. OuterKey(o.kfpw, Ours) # None
    BY <2>1, NoneAssumption DEF SceneInv
  <2>4. OuterKey(o.kfpw, Ours) = OuterKey(d.kfpw, i)
    BY <1>5, <2>2, <2>3 DEF Unwraps
  <2>5. \A x, j : OuterKey(x, j).secret.pw = x
    BY DEF OuterKey, Key
  <2> QED
    BY <2>4, <2>5
<1> QED
  BY <1>2, <1>7, <1>8 DEF d, o, i


-----------------------------------------------------------------------------
\* What a request has shown by the time it holds an archive.

\* What a request that is past the keychain has shown: its credentials fit the archive
\* it holds, whose metadata is what it knows.
HoldInv(stage) ==
  /\ stage \in OpeningStages => \E c \in scene.reads : req.cred = Credentials(c)
  /\ stage \in Holding \cup {"delivered"} =>
       /\ Owned(req.held, scene, owner[Ours]) /\ req.meta = req.held.keychain.plain
       /\ Fits(req.held, req.cred)
  /\ stage \in {"trust", "opened", "selected", "delivered"} => SecretFits(owner[req.held.id], req.cred)
  /\ stage \in {"opened", "selected", "delivered"} /\ req.kind = "session" =>
       owner[req.held.id].signer \notin scene.revoked
  /\ stage \in {"trust", "opened"} => req.opened.file = req.held
  /\ stage = "delivered" => Owned(req.opened.file, scene, owner[Ours]) /\ req.opened.file.id = req.held.id

SameHold ==
  /\ UNCHANGED scene
  /\ req'.kind = req.kind /\ req'.cred = req.cred /\ req'.meta = req.meta /\ req'.held = req.held
  /\ req'.opened = req.opened

SureInv == EarlyInv /\ KnownInv /\ HoldInv(pc)

LEMMA HoldStays == ASSUME NEW stage, HoldInv(stage), SameHold, UNCHANGED owner PROVE HoldInv(stage)'
  BY DEF HoldInv, SameHold, Credentials, Fits, MakerOf

LEMMA HoldNothing == ASSUME NEW stage, stage \notin OpeningStages PROVE HoldInv(stage)
  BY DEF HoldInv, OpeningStages, Reading, Holding

\* Before an archive is held, an owner may change.
LEMMA HoldYet ==
  ASSUME NEW stage, HoldInv(stage), SameHold, stage \notin Holding \cup {"delivered"} PROVE HoldInv(stage)'
  BY DEF HoldInv, SameHold, Holding, Credentials

LEMMA HoldNoted ==
  ASSUME SceneInv, UNCHANGED scene, NEW x, req' = [req EXCEPT !.excused = x] \/ req' = req
  PROVE  SameHold
  BY DEF SceneInv, SameHold, ReqFields

LEMMA HoldGates ==
  ASSUME SureInv,
         CheckUnlockTime \/ CheckStillAhead \/ CheckNotTooFar \/ CheckPublicLock \/ PassGate
         \/ CheckAligned("aligned", "seal") \/ CheckAligned("inTime", "beacon")
  PROVE  HoldInv(pc)'
<1> DEFINE Goes(stage, next) ==
      /\ pc = stage /\ pc' \in {next, "refused"} /\ UNCHANGED owner /\ SameHold
<1>0. SceneInv /\ HoldInv(pc)
  BY DEF SureInv, EarlyInv
<1> USE DEF Requires, Goto
<1>1. CheckUnlockTime => Goes("unlockTime", "aligned")
  BY <1>0, HoldNoted DEF CheckUnlockTime, Clocked
<1>2. CheckStillAhead => Goes("stillAhead", "written")
  BY <1>0, HoldNoted DEF CheckStillAhead, Clocked
<1>3. CheckNotTooFar => Goes("written", "build")
  BY <1>0, HoldNoted DEF CheckNotTooFar, Clocked
<1>4. CheckPublicLock => Goes("publicLock", "metadata")
  BY <1>0, HoldNoted DEF CheckPublicLock, Clocked
<1>5. PassGate => Goes("gate", "payload")
  BY <1>0, HoldNoted DEF PassGate, Clocked
<1>6. ASSUME NEW stage, NEW next, CheckAligned(stage, next) PROVE Goes(stage, next)
  <2>1. \E x : req' = [req EXCEPT !.excused = x]
    BY <1>6 DEF CheckAligned
  <2>2. SameHold
    BY <1>0, <1>6, <2>1, HoldNoted DEF CheckAligned
  <2> QED
    BY <1>6, <2>2 DEF CheckAligned
<1> HIDE DEF Requires, Goto
<1>7. ASSUME NEW next, HoldInv(next), pc' \in {next, "refused"}, UNCHANGED owner, SameHold PROVE HoldInv(pc)'
  <2>1. HoldInv("refused")
    BY HoldNothing DEF OpeningStages, Reading
  <2>2. HoldInv("refused")' /\ HoldInv(next)'
    BY <1>7, <2>1, HoldStays
  <2> QED
    BY <1>7, <2>2
<1>8. /\ HoldInv("publicLock") => HoldInv("metadata")
      /\ HoldInv("gate") => HoldInv("payload")
      /\ HoldInv("inTime") => HoldInv("beacon")
  BY DEF HoldInv, OpeningStages, Reading, Holding
<1>9. HoldInv("aligned") /\ HoldInv("seal") /\ HoldInv("written") /\ HoldInv("build")
  BY HoldNothing DEF OpeningStages, Reading
<1>10. CASE CheckPublicLock
  BY <1>0, <1>4, <1>7, <1>8, <1>10
<1>11. CASE PassGate
  BY <1>0, <1>5, <1>7, <1>8, <1>11
<1>12. CASE CheckAligned("inTime", "beacon")
  BY <1>0, <1>6, <1>7, <1>8, <1>12
<1>13. CASE CheckUnlockTime \/ CheckStillAhead \/ CheckNotTooFar \/ CheckAligned("aligned", "seal")
  BY <1>1, <1>2, <1>3, <1>6, <1>7, <1>9, <1>13
<1> QED
  BY <1>10, <1>11, <1>12, <1>13

\* A step at the end of which nothing is asked for.
LEMMA HoldMaking ==
  ASSUME SureInv, BeginCreate \/ SealToRound \/ CreateEscrow \/ Create \/ Answer PROVE HoldInv(pc)'
<1>0. SceneInv
  BY DEF SureInv, EarlyInv
<1>1. pc' \notin OpeningStages
  <2>1. BeginCreate => pc' \notin OpeningStages
    BY <1>0, SceneOptions DEF BeginCreate, Requires, Goto, IsOptions, OpeningStages, Reading
  <2>2. SealToRound \/ CreateEscrow => pc' \notin OpeningStages
    BY DEF SealToRound, CreateEscrow, Requires, Goto, OpeningStages, Reading
  <2>3. Create \/ Answer => pc' \notin OpeningStages
    BY DEF Create, Answer, Goto, OpeningStages, Reading
  <2> QED
    BY <2>1, <2>2, <2>3
<1> QED
  BY <1>1 DEF HoldInv, OpeningStages, Reading, Holding

LEMMA HoldOthers ==
  ASSUME SureInv,
         Rekey \/ Swap \/ AskClock \/ ClockWorks \/ BeginRefresh \/ Refreshing \/ RefreshAsks \/ RefreshTold
         \/ WarmUpStarts \/ WarmUpEnds \/ TimePasses \/ UNCHANGED vars
  PROVE  HoldInv(pc)'
<1>0. SceneInv /\ HoldInv(pc)
  BY DEF SureInv, EarlyInv
<1>1. CASE Rekey
  <2>1. UNCHANGED <<scene, pc>> /\ pc \in {"ready", "inputs", "open"}
    BY <1>1 DEF Rekey
  <2>2. SameHold
    BY <1>0, <1>1, <2>1, HoldNoted DEF Rekey
  <2>3. HoldInv("ready")' /\ (HoldInv("inputs") => HoldInv("inputs")') /\ (HoldInv("open") => HoldInv("open")')
    BY <2>2, HoldYet, HoldNothing DEF HoldInv, Holding, OpeningStages, Reading, SameHold, Credentials
  <2> QED
    BY <1>0, <2>1, <2>3
<1>2. CASE Swap
  <2>1. UNCHANGED <<scene, pc, owner>>
    BY <1>2 DEF Swap
  <2>2. SameHold
    BY <1>0, <1>2, <2>1, HoldNoted DEF Swap
  <2> QED
    BY <1>0, <2>1, <2>2, HoldStays
<1>3. CASE AskClock \/ ClockWorks \/ BeginRefresh \/ Refreshing \/ RefreshAsks \/ RefreshTold
           \/ WarmUpStarts \/ WarmUpEnds \/ TimePasses \/ UNCHANGED vars
  <2>1. UNCHANGED <<scene, owner, pc, req>>
    BY <1>3 DEF AskClock, ClockWorks, BeginRefresh, Refreshing, RefreshAsks, RefreshTold, WarmUpStarts, WarmUpEnds,
                TimePasses, vars, gateVars, envVars
  <2>2. SameHold
    BY <2>1 DEF SameHold
  <2> QED
    BY <1>0, <2>1, <2>2, HoldStays
<1> QED
  BY <1>1, <1>2, <1>3

CredKnown == \E c \in scene.reads : req.cred = Credentials(c)

LEMMA CredIs == ASSUME SureInv, pc \in OpeningStages PROVE CredKnown
  BY DEF SureInv, HoldInv, CredKnown

\* At a stage before the archive is held the credentials are all that is known.
LEMMA OnlyCred ==
  ASSUME NEW stage, stage \notin Holding \cup {"delivered"}, CredKnown' PROVE HoldInv(stage)'
  BY DEF HoldInv, Holding, CredKnown

LEMMA HoldApproaching ==
  ASSUME SureInv, ReadRoute \/ CheckInputs \/ ReadMetadata \/ AskBeacon \/ ReleaseEscrow \/ CheckReceipt
  PROVE  HoldInv(pc)'
<1>0. SceneInv
  BY DEF SureInv, EarlyInv
<1> USE DEF Requires, Goto, Keeps
<1>1. pc' \notin Holding \cup {"delivered"}
  BY DEF ReadRoute, CheckInputs, ReadMetadata, AskBeacon, ReleaseEscrow, CheckReceipt, Holding
<1>2. CASE ReadRoute
  <2>1. CredKnown'
    BY <1>2 DEF ReadRoute, NoRequest, CredKnown, Credentials
  <2> QED
    BY <1>1, <2>1, OnlyCred
<1>3. CASE CheckInputs \/ ReadMetadata \/ AskBeacon \/ ReleaseEscrow \/ CheckReceipt
  <2>1. pc \in OpeningStages /\ UNCHANGED scene
    BY <1>3 DEF CheckInputs, ReadMetadata, AskBeacon, ReleaseEscrow, CheckReceipt, OpeningStages, Reading
  <2>2. req'.cred = req.cred
    BY <1>0, <1>3 DEF CheckInputs, ReadMetadata, AskBeacon, ReleaseEscrow, CheckReceipt, SceneInv, ReqFields
  <2>3. CredKnown'
    BY <2>1, <2>2, CredIs DEF CredKnown, Credentials
  <2> QED
    BY <1>1, <2>3, OnlyCred
<1> QED
  BY <1>2, <1>3

\* The keychain opens: the keyfile and its password fit.
LEMMA HoldOpen == ASSUME SureInv, OpenArchive PROVE HoldInv(pc)'
<1>0. SceneInv /\ KnownInv
  BY DEF SureInv, EarlyInv
<1>1. pc = "open" /\ pc' \in {"gate", "payload", "refused"} /\ UNCHANGED <<scene, owner, disk, aside>>
  BY DEF OpenArchive, Requires, Goto, Keeps, envVars
<1>2. /\ req'.cred = req.cred /\ req'.kind = req.kind /\ req'.held = disk
      /\ req'.meta = IF FromCapsule THEN req.meta ELSE disk.keychain.plain
  BY <1>0 DEF OpenArchive, SceneInv, ReqFields
<1>3. CredKnown /\ CredKnown'
  BY <1>1, <1>2, CredIs DEF CredKnown, Credentials, OpeningStages, Reading
<1>4. CASE pc' = "refused"
  BY <1>3, <1>4, OnlyCred DEF Holding
<1>5. CASE pc' # "refused"
  <2>1. UnlocksKeychain(disk, req.cred, req.timeKey) /\ (FromCapsule => disk.keychain.plain = req.meta)
    BY <1>5 DEF OpenArchive, Requires, Goto, SameMetadata
  <2>2. req'.meta = req'.held.keychain.plain
    BY <1>2, <2>1
  <2>3. disk # None
    BY <1>0, <1>1 DEF KnownInv, OwnInv, Unmade, MakingStages
  <2>4. Owned(disk, scene, owner[Ours])
    BY <1>0, <2>3 DEF KnownInv, OwnInv
  <2>5. PqcResolved(disk, req.cred)
    BY <2>1 DEF UnlocksKeychain
  <2>6. Fits(disk, req.cred)
    BY <1>0, <1>3, <2>4, <2>5, KeyfileNeeded DEF CredKnown
  <2>7. Fits(req.held, req.cred)'
    BY <1>1, <1>2, <2>6 DEF Fits, MakerOf
  <2>8. Owned(req.held, scene, owner[Ours])'
    BY <1>1, <1>2, <2>4
  <2> QED
    BY <1>1, <1>3, <1>5, <2>2, <2>7, <2>8 DEF HoldInv, CredKnown
<1> QED
  BY <1>4, <1>5

\* Its payload opens: so does the secret.
LEMMA HoldPayload == ASSUME SureInv, OpenPayload PROVE HoldInv(pc)'
<1>0. SceneInv /\ KnownInv /\ HoldInv(pc)
  BY DEF SureInv, EarlyInv
<1>1. pc = "payload" /\ pc' \in {"trust", "opened", "refused"} /\ UNCHANGED <<scene, owner>>
      /\ (pc' = "opened" => req.kind # "session")
  BY DEF OpenPayload, Requires, Goto, Keeps
<1>2. /\ req'.cred = req.cred /\ req'.kind = req.kind /\ req'.held = req.held /\ req'.meta = req.meta
      /\ req'.opened = [file |-> req.held, at |-> now]
  BY <1>0 DEF OpenPayload, SceneInv, ReqFields
<1>3. CredKnown'
  BY <1>1, <1>2, CredIs DEF CredKnown, Credentials, OpeningStages, Reading
<1>4. CASE pc' = "refused"
  BY <1>3, <1>4, OnlyCred DEF Holding
<1>5. CASE pc' # "refused"
  <2>1. OpensPayload(req.held, req.cred, req.timeKey)
    BY <1>5 DEF OpenPayload, Requires, Goto
  <2>2. Owned(req.held, scene, owner[Ours]) /\ Fits(req.held, req.cred) /\ req.meta = req.held.keychain.plain
    BY <1>0, <1>1 DEF HoldInv, Holding
  <2>3. SecretFits(owner[req.held.id], req.cred)
    BY <1>0, <2>1, <2>2, OwnedIs, SecretNeeded
  <2>4. Fits(req.held, req.cred)' /\ SecretFits(owner[req.held.id], req.cred)'
    BY <1>1, <1>2, <2>2, <2>3 DEF Fits, MakerOf
  <2>5. Owned(req.held, scene, owner[Ours])' /\ req'.meta = req'.held.keychain.plain
    BY <1>1, <1>2, <2>2
  <2>6. req'.opened.file = req'.held
    BY <1>2
  <2> QED
    BY <1>1, <1>2, <1>3, <1>5, <2>4, <2>5, <2>6 DEF HoldInv, CredKnown
<1> QED
  BY <1>4, <1>5

\* Who signed the archive is not revoked.
LEMMA HoldCreator == ASSUME SureInv, CheckCreator PROVE HoldInv(pc)'
<1>0. SceneInv /\ KnownInv /\ HoldInv(pc)
  BY DEF SureInv, EarlyInv
<1>1. pc = "trust" /\ pc' \in {"opened", "refused"} /\ UNCHANGED <<scene, owner, req>>
  BY DEF CheckCreator, Requires, Goto, Keeps
<1>2. SameHold
  BY <1>1 DEF SameHold
<1>3. CASE pc' = "refused"
  <2>1. CredKnown'
    BY <1>1, CredIs DEF CredKnown, Credentials, OpeningStages, Reading
  <2> QED
    BY <1>3, <2>1, OnlyCred DEF Holding
<1>4. CASE pc' # "refused"
  <2>1. req.held.signature.by = None \/ req.held.signature.by \notin scene.revoked
    BY <1>4 DEF CheckCreator, Requires, Goto
  <2>2. Owned(req.held, scene, owner[Ours])
    BY <1>0, <1>1 DEF HoldInv, Holding
  <2>3. owner[req.held.id].signer \notin scene.revoked
    BY <1>0, <2>1, <2>2, OwnedIs, ScenesAssumption DEF SceneInv
  <2>4. HoldInv("opened")
    BY <1>0, <1>1, <2>3 DEF HoldInv, Holding, OpeningStages, Reading
  <2>5. HoldInv("opened")'
    BY <1>1, <1>2, <2>4, HoldStays
  <2> QED
    BY <1>1, <1>4, <2>5
<1> QED
  BY <1>3, <1>4

\* A session reads on: what it reads is of the archive it was opened on.
LEMMA HoldSession == ASSUME SureInv, SelectFromSession \/ ReadSelection PROVE HoldInv(pc)'
<1>0. SceneInv /\ KnownInv /\ HoldInv(pc)
  BY DEF SureInv, EarlyInv
<1>1. /\ pc \in {"opened", "selected"} /\ pc' \in {"selected", "delivered", "refused"}
      /\ UNCHANGED <<scene, owner, disk, aside>>
  BY DEF SelectFromSession, ReadSelection, Requires, Goto, Keeps, envVars
<1>2. /\ req'.cred = req.cred /\ req'.kind = req.kind /\ req'.held = req.held /\ req'.meta = req.meta
  BY <1>0 DEF SelectFromSession, ReadSelection, SceneInv, ReqFields
<1>3. CredKnown'
  BY <1>1, <1>2, CredIs DEF CredKnown, Credentials, OpeningStages, Reading
<1>4. CASE pc' = "refused"
  BY <1>3, <1>4, OnlyCred DEF Holding
<1>5. CASE pc' # "refused"
  <2>1. /\ Owned(req.held, scene, owner[Ours]) /\ req.meta = req.held.keychain.plain
        /\ Fits(req.held, req.cred) /\ SecretFits(owner[req.held.id], req.cred)
        /\ req.kind = "session" => owner[req.held.id].signer \notin scene.revoked
    BY <1>0, <1>1 DEF HoldInv, Holding
  <2>2. /\ Owned(req.held, scene, owner[Ours])' /\ req'.meta = req'.held.keychain.plain
        /\ Fits(req.held, req.cred)' /\ SecretFits(owner[req.held.id], req.cred)'
        /\ req'.kind = "session" => owner'[req'.held.id].signer \notin scene'.revoked
    BY <1>1, <1>2, <2>1 DEF Fits, MakerOf
  <2>3. CASE SelectFromSession
    <3>1. pc' = "selected"
      BY <1>5, <2>3 DEF SelectFromSession, Requires, Goto
    <3> QED
      BY <1>3, <2>2, <3>1 DEF HoldInv, CredKnown
  <2>4. CASE ReadSelection
    <3>1. pc' = "delivered" /\ disk.payload.plain = req.meta.id
      BY <1>5, <2>4 DEF ReadSelection, Requires, Goto
    <3>2. req'.opened.file = disk
      BY <1>0, <2>4 DEF ReadSelection, SceneInv, ReqFields
    <3>3. disk # None
      BY <1>0, <1>1 DEF KnownInv, OwnInv, Unmade, MakingStages
    <3>4. Owned(disk, scene, owner[Ours])
      BY <1>0, <3>3 DEF KnownInv, OwnInv
    <3>5. disk.id = req.held.id
      BY <1>0, <2>1, <3>1, <3>4, OwnedIs
    <3>6. Owned(req.opened.file, scene, owner[Ours])' /\ req'.opened.file.id = req'.held.id
      BY <1>1, <1>2, <3>2, <3>4, <3>5
    <3> QED
      BY <1>3, <2>2, <3>1, <3>6 DEF HoldInv, CredKnown
  <2> QED
    BY <2>3, <2>4, <1>0
<1> QED
  BY <1>4, <1>5

LEMMA SureNext == ASSUME SureInv, [Next]_vars PROVE SureInv'
<1>1. EarlyInv' /\ KnownInv'
  BY EarlyNext, KnownNext DEF SureInv, EarlyInv
<1>2. HoldInv(pc)'
  BY HoldGates, HoldMaking, HoldOthers, HoldApproaching, HoldOpen, HoldPayload, HoldCreator, HoldSession DEF Next
<1> QED
  BY <1>1, <1>2 DEF SureInv

LEMMA AlwaysSure == Spec => []SureInv
<1>1. Init => SureInv
  <2>1. Init => HoldInv(pc)
    BY HoldNothing DEF Init, OpeningStages, Reading
  <2> QED
    BY <2>1, EarlyInit, KnownInit DEF SureInv
<1> QED
  BY <1>1, SureNext, PTL DEF Spec

\* What opens, opens to credentials that fit the archive it is of.
LEMMA OpenedSure ==
  ASSUME SureInv, Opened
  PROVE  /\ req.opened.file.id = req.held.id /\ req.meta.id = req.held.id
         /\ req.opened.file.payload.plain = req.opened.file.id
<1>1. Owned(req.held, scene, owner[Ours]) /\ req.meta = req.held.keychain.plain
  BY DEF SureInv, HoldInv, Opened, Holding
<1>2. Owned(req.opened.file, scene, owner[Ours]) /\ req.opened.file.id = req.held.id
  BY <1>1 DEF SureInv, HoldInv, Opened
<1> QED
  BY <1>1, <1>2, OwnedIs DEF SureInv, EarlyInv

\* However an archive is made and rekeyed, and whatever else is put in its place while
\* it is looked at, unlocked, opened and read from: the answer is about one archive.
THEOREM AnswersAreOfOneArchive == Spec => []OneArchive
<1>1. SureInv => OneArchive
  BY OpenedSure DEF OneArchive
<1> QED
  BY <1>1, AlwaysSure, PTL

\* Only credentials in force open it: the secret its owner has given it last, its own
\* keyfile, the second password of that; and for a session, a creator who is trusted.
THEOREM OnlyTheEntitledOpen == Spec => []OnlyEntitled
<1>1. SureInv => OnlyEntitled
  <2> SUFFICES ASSUME SureInv, Opened PROVE OnlyEntitled
    BY DEF OnlyEntitled
  <2>1. MakerOf(req.opened.file) = owner[req.held.id]
    BY OpenedSure DEF MakerOf
  <2>2. /\ Fits(req.held, req.cred) /\ SecretFits(owner[req.held.id], req.cred)
        /\ req.kind = "session" => owner[req.held.id].signer \notin scene.revoked
    BY DEF SureInv, HoldInv, Opened, Holding
  <2> QED
    BY <2>1, <2>2, OpenedSure DEF OnlyEntitled, SecretFits, Fits, MakerOf
<1> QED
  BY <1>1, AlwaysSure, PTL


-----------------------------------------------------------------------------
\* The types.

Excuses == Failures \cup {"swap", "rekey", "outage", "skew", "signedOut"}

CountInv ==
  /\ req.excused \subseteq Excuses
  /\ swaps \in 0..scene.swaps /\ refreshes \in 0..scene.refreshes /\ calls \in 0..3

Counts == UNCHANGED <<scene, swaps, refreshes, calls>>

LEMMA CountStays == ASSUME CountInv, Counts, req'.excused \subseteq Excuses PROVE CountInv'
  BY DEF CountInv, Counts

LEMMA CountGates ==
  ASSUME SceneInv, CountInv,
         CheckUnlockTime \/ CheckStillAhead \/ CheckNotTooFar \/ CheckPublicLock \/ PassGate
         \/ CheckAligned("aligned", "seal") \/ CheckAligned("inTime", "beacon")
  PROVE  CountInv'
<1>0. ASSUME NEW more \in SUBSET Excuses, req' = [req EXCEPT !.excused = @ \cup more] \/ req' = req
      PROVE  req'.excused \subseteq Excuses
  BY <1>0 DEF CountInv, SceneInv, ReqFields
<1> DEFINE Notes == Counts /\ \E more \in SUBSET Excuses : req' = [req EXCEPT !.excused = @ \cup more] \/ req' = req
<1>1. ASSUME NEW a, a \in Failures PROVE {a} \in SUBSET Excuses
  BY <1>1 DEF Excuses
<1>2. {} \in SUBSET Excuses /\ {"skew"} \in SUBSET Excuses /\ {Broken} \in SUBSET Excuses
  BY DEF Excuses, Failures
<1>3. CheckUnlockTime => Notes
  BY <1>1, <1>2 DEF CheckUnlockTime, Clocked, Counts, envVars
<1>4. CheckStillAhead => Notes
  BY <1>1, <1>2 DEF CheckStillAhead, Clocked, Counts, envVars
<1>5. CheckNotTooFar => Notes
  BY <1>1, <1>2 DEF CheckNotTooFar, Clocked, Counts, envVars
<1>6. CheckPublicLock => Notes
  BY <1>1, <1>2 DEF CheckPublicLock, Clocked, Counts, envVars
<1>7. PassGate => Notes
  BY <1>1, <1>2 DEF PassGate, Clocked, Counts, envVars
<1>8. ASSUME NEW stage, NEW next, CheckAligned(stage, next) PROVE Notes
  <2> DEFINE a == answer[Asker(stage)]
             more == IF a = Broken THEN {a} ELSE IF a \notin Failures /\ ~Aligned(a) THEN {"skew"} ELSE {}
  <2>1. req' = [req EXCEPT !.excused = @ \cup more] /\ Counts
    BY <1>8 DEF CheckAligned, Counts, envVars
  <2>2. more \in SUBSET Excuses
    BY <1>2
  <2> HIDE DEF more
  <2> QED
    BY <2>1, <2>2
<1>9. Notes => CountInv'
  BY <1>0, CountStays
<1> HIDE DEF Notes
<1> QED
  BY <1>3, <1>4, <1>5, <1>6, <1>7, <1>8, <1>9

LEMMA CountSteps ==
  ASSUME SceneInv, CountInv,
         BeginCreate \/ SealToRound \/ CreateEscrow \/ Create \/ ReadRoute \/ CheckInputs \/ ReadMetadata
         \/ AskBeacon \/ ReleaseEscrow \/ CheckReceipt \/ OpenArchive \/ OpenPayload
         \/ CheckCreator \/ SelectFromSession \/ ReadSelection \/ Answer
  PROVE  CountInv'
<1>1. Keeps => Counts
  BY DEF Keeps, Counts, envVars
<1>2. /\ req.excused \subseteq Excuses /\ {} \subseteq Excuses
      /\ {"outage"} \subseteq Excuses /\ {"signedOut"} \subseteq Excuses
  BY DEF CountInv, Excuses
<1> USE DEF SceneInv, ReqFields
<1>3. BeginCreate \/ Create \/ ReadRoute \/ Answer => Counts /\ req'.excused \subseteq Excuses
  <2>1. BeginCreate \/ Create \/ ReadRoute \/ Answer => Counts
    BY <1>1 DEF BeginCreate, Create, ReadRoute, Answer
  <2>2. BeginCreate => req'.excused = {}
    BY DEF BeginCreate, NoRequest
  <2>3. Create \/ Answer => req'.excused = {}
    BY DEF Create, Answer, NoRequest
  <2>4. ReadRoute => req'.excused = {}
    BY DEF ReadRoute, NoRequest
  <2> QED
    BY <1>2, <2>1, <2>2, <2>3, <2>4
<1>4. SealToRound => Counts /\ req'.excused \subseteq Excuses
  BY <1>1, <1>2 DEF SealToRound
<1>5. CreateEscrow => Counts /\ req'.excused \subseteq Excuses
  <2>1. CreateEscrow => Counts
    BY <1>1 DEF CreateEscrow
  <2>2. ASSUME NEW x \in {"signedOut", "outage"} PROVE {x} \subseteq Excuses
    BY <2>2, <1>2
  <2>3. ASSUME CreateEscrow PROVE \/ req' = [req EXCEPT !.given = GivenFor(scene.opts, Ours)]
                                 \/ \E x \in {"signedOut", "outage"} : req' = [req EXCEPT !.excused = @ \cup {x}]
    BY <2>3 DEF CreateEscrow
  <2> QED
    BY <1>2, <2>1, <2>2, <2>3
<1>6. AskBeacon \/ ReleaseEscrow => Counts /\ req'.excused \subseteq Excuses
  BY <1>1, <1>2 DEF AskBeacon, ReleaseEscrow
<1>7. CheckInputs \/ ReadMetadata \/ CheckReceipt \/ OpenArchive => Counts /\ req'.excused \subseteq Excuses
  BY <1>1, <1>2 DEF CheckInputs, ReadMetadata, CheckReceipt, OpenArchive
<1>8. OpenPayload \/ CheckCreator \/ SelectFromSession \/ ReadSelection => Counts /\ req'.excused \subseteq Excuses
  BY <1>1, <1>2 DEF OpenPayload, CheckCreator, SelectFromSession, ReadSelection
<1> HIDE DEF SceneInv, ReqFields
<1> QED
  BY <1>3, <1>4, <1>5, <1>6, <1>7, <1>8, CountStays

LEMMA CountOthers ==
  ASSUME SceneInv, CountInv,
         Rekey \/ Swap \/ AskClock \/ ClockWorks \/ BeginRefresh \/ Refreshing \/ RefreshAsks \/ RefreshTold
         \/ WarmUpStarts \/ WarmUpEnds \/ TimePasses \/ UNCHANGED vars
  PROVE  CountInv'
<1>1. {"swap"} \subseteq Excuses /\ {"rekey"} \subseteq Excuses /\ req.excused \subseteq Excuses
  BY DEF CountInv, Excuses
<1>2. scene.swaps \in Nat /\ scene.refreshes \in Nat
  BY ScenesAssumption DEF SceneInv
<1>3. CASE Rekey
  <2>1. Counts
    BY <1>3 DEF Rekey, Counts, envVars
  <2>2. req' = req \/ req' = [req EXCEPT !.excused = @ \cup {"rekey"}]
    BY <1>3 DEF Rekey
  <2>3. req'.excused \subseteq Excuses
    BY <1>1, <2>2 DEF SceneInv, ReqFields
  <2> QED
    BY <2>1, <2>3, CountStays
<1>4. CASE Swap
  <2>1. req' = [req EXCEPT !.excused = @ \cup {"swap"}] /\ swaps' = swaps + 1 /\ swaps < scene.swaps
        /\ UNCHANGED <<scene, refreshes, calls>>
    BY <1>4 DEF Swap
  <2>2. req'.excused \subseteq Excuses
    BY <1>1, <2>1 DEF SceneInv, ReqFields
  <2> QED
    BY <1>2, <2>1, <2>2 DEF CountInv
<1>5. CASE BeginRefresh \/ RefreshTold
  BY <1>2, <1>5 DEF BeginRefresh, RefreshTold, CountInv
<1>6. CASE AskClock \/ ClockWorks \/ Refreshing \/ RefreshAsks \/ WarmUpStarts \/ WarmUpEnds \/ TimePasses
           \/ UNCHANGED vars
  <2>1. Counts /\ req' = req
    BY <1>6 DEF AskClock, ClockWorks, Refreshing, RefreshAsks, WarmUpStarts, WarmUpEnds, TimePasses, vars, gateVars,
                envVars, Counts
  <2> QED
    BY <1>1, <2>1, CountStays
<1> QED
  BY <1>3, <1>4, <1>5, <1>6

\* The clock, the stages and the archive at the path go together: there is one from the
\* time it is made, and none while it is being made or if making it was refused.
THEOREM GatesTypeCorrect == Spec => []TypeOK
<1>1. Init => CountInv
  BY ScenesAssumption DEF Init, CountInv, NoRequest
<1>2. SureInv /\ CountInv /\ [Next]_vars => CountInv'
  <2>1. SureInv => SceneInv
    BY DEF SureInv, EarlyInv
  <2> QED
    BY <2>1, CountGates, CountSteps, CountOthers DEF Next
<1>3. Spec => []CountInv
  BY <1>1, <1>2, AlwaysSure, PTL DEF Spec
<1>4. Spec => []ClockTypeOK
  BY GatesImplementClock, ClockTypeCorrect, PTL
<1>5. SureInv /\ CountInv /\ ClockTypeOK => TypeOK
  <2> SUFFICES ASSUME SureInv, CountInv, ClockTypeOK PROVE TypeOK
    OBVIOUS
  <2>1. SceneInv /\ KindAt /\ (disk = None <=> Unmade)
    BY DEF SureInv, EarlyInv, KnownInv, OwnInv
  <2>2. DOMAIN req = DOMAIN NoRequest
    BY <2>1 DEF SceneInv, ReqFields, NoRequest
  <2>3. req.kind \in {None, "create", "decrypt", "session"}
    BY <2>1 DEF KindAt, MakingStages, OpeningStages, Reading, Stages
  <2>4. Unmade <=> \/ pc \in {"new", "unlockTime", "aligned", "seal", "stillAhead", "written", "escrow", "build"}
                   \/ (pc = "refused" /\ req.kind = "create")
    BY DEF Unmade, MakingStages
  <2> QED
    BY <2>1, <2>2, <2>3, <2>4 DEF TypeOK, SceneInv, KindAt, CountInv, Excuses
<1> QED
  BY <1>3, <1>4, <1>5, AlwaysSure, PTL

-----------------------------------------------------------------------------
\* Who has what an archive was made with can open it: what the keys let through,
\* now in the other direction.

\* What is in an archive is there.
Whole(o, i, f) ==
  /\ IsOptions(o) /\ ValidOptions(o)
  /\ f # None /\ f.signature # None /\ KeyOf(i) # None
  /\ o.pqc # None => KeyfileFor(o, i) # None /\ Bootstrap(o, i) # None
  /\ o.pqc = "embedded" => EmbeddedBlob(o, i, HeaderOf(o)) # None
  /\ o.provider # None => SealedTo(o.unlock, KeyOf(i)) # None /\ EscrowFor(i, o.unlock) # None

LEMMA MadeWhole ==
  ASSUME NEW s \in Scenes, NEW o, NEW i, ValidOptions(o),
         (o = s.opts /\ i = Ours) \/ (o = s.rival /\ s.rival # None /\ i = Theirs)
  PROVE  Whole(o, i, FileOf(o, i, i))
<1>1. IsOptions(o)
  BY ScenesAssumption
<1>2. Build(o, GivenFor(o, i), i) = FileOf(o, i, i)
  BY BuildIs
<1>3. /\ FileOf(o, i, i) # None /\ FileOf(o, i, i).signature # None /\ KeyOf(i) # None
      /\ KeyfileFor(o, i) # None
  BY <1>2, NoneAssumption
<1>4. /\ o.pqc # None => Bootstrap(o, i) # None
      /\ o.pqc = "embedded" => EmbeddedBlob(o, i, HeaderOf(o)) # None
      /\ SealedTo(o.unlock, KeyOf(i)) # None /\ EscrowFor(i, o.unlock) # None
  BY NoneAssumption
<1> QED
  BY <1>1, <1>3, <1>4 DEF Whole

LEMMA RekeyedWhole ==
  ASSUME NEW s \in Scenes, NEW r \in s.rekeys, Rekeyable(s.opts), HasUserSecret(SecretOf(r.new)),
         NEW o, o = With(s.opts, r.new, r.signer), NEW salt \in {Ours + 1, Ours + 2}
  PROVE  Whole(o, Ours, FileOf(o, salt, Ours))
<1>1. IsOptions(s.opts) /\ DOMAIN s.opts = OptionFields
  BY ScenesAssumption DEF IsOptions, OptionFields
<1>2. IsOptions(o)
  BY <1>1, WithIsOptions
<1>3. o.pqc = None /\ o.provider = None /\ o.pw = r.new.pw /\ o.kp = r.new.kp
  BY <1>1 DEF With, Rekeyable, OptionFields
<1>4. ValidOptions(o)
  BY <1>3, NoneAssumption DEF ValidOptions, SecretOf
<1>5. FileOf(o, salt, Ours) = Rekeyed(FileOf(s.opts, Ours, Ours), r.new, r.signer, salt)
  BY <1>1, RekeyedIs
<1>6. FileOf(s.opts, Ours, Ours) = Build(s.opts, GivenFor(s.opts, Ours), Ours)
  BY BuildIs
<1>7. PICK n \in 1..2 : salt = Ours + n
  OBVIOUS
<1>8. HasUserSecret(SecretOf(s.opts))
  BY DEF Rekeyable
<1>9. FileOf(o, salt, Ours) # None /\ FileOf(o, salt, Ours).signature # None /\ KeyOf(Ours) # None
  BY <1>5, <1>6, <1>7, <1>8, NoneAssumption
<1> QED
  BY <1>2, <1>3, <1>4, <1>9, NoneAssumption DEF Whole

LEMMA OwnedWhole ==
  ASSUME SceneInv, KnownInv, disk # None, NEW f, Owned(f, scene, owner[Ours])
  PROVE  /\ f.id \in Ids /\ Whole(owner[f.id], f.id, f)
         /\ \E salt : f = FileOf(owner[f.id], salt, f.id) /\ (salt = f.id \/ Method(owner[f.id]) = "stream")
<1>1. f.id \in Ids
  BY OwnedIs
<1>2. ValidOptions(scene.opts) /\ owner[Theirs] = scene.rival /\ scene \in Scenes
  BY DEF KnownInv, OwnInv, SceneInv
<1>3. CASE f.id = Theirs
  <2>1. /\ scene.rival # None /\ ValidOptions(scene.rival) /\ f = FileOf(scene.rival, Theirs, Theirs)
    BY <1>3 DEF Owned, Ours, Theirs
  <2>2. Whole(scene.rival, Theirs, f)
    BY <1>2, <2>1, MadeWhole
  <2> QED
    BY <1>1, <1>2, <1>3, <2>1, <2>2
<1>4. CASE f.id = Ours
  <2>1. PICK salt : MadeBy(scene, owner[Ours], salt) /\ f = FileOf(owner[Ours], salt, Ours)
    BY <1>4 DEF Owned, Ours, Theirs
  <2>2. CASE owner[Ours] = scene.opts /\ salt = Ours
    <3>1. Whole(scene.opts, Ours, f)
      BY <1>2, <2>1, <2>2, MadeWhole
    <3> QED
      BY <1>1, <1>4, <2>1, <2>2, <3>1
  <2>3. ASSUME NEW r \in scene.rekeys, Rekeyable(scene.opts), HasUserSecret(SecretOf(r.new)),
               owner[Ours] = With(scene.opts, r.new, r.signer), salt \in {Ours + 1, Ours + 2}
        PROVE  Whole(owner[Ours], Ours, f) /\ Method(owner[Ours]) = "stream"
    <3>1. Whole(owner[Ours], Ours, f)
      BY <1>2, <2>1, <2>3, RekeyedWhole
    <3>2. owner[Ours].pw = r.new.pw /\ owner[Ours].kp = r.new.kp
      <4>1. DOMAIN scene.opts = OptionFields
        BY SceneOptions DEF IsOptions, OptionFields
      <4> QED
        BY <2>3, <4>1 DEF With, OptionFields
    <3>3. SecretOf(owner[Ours]) = SecretOf(r.new)
      BY <3>2 DEF SecretOf
    <3> QED
      BY <2>3, <3>1, <3>3 DEF Method
  <2> QED
    BY <1>1, <1>4, <2>1, <2>2, <2>3 DEF MadeBy
<1> QED
  BY <1>1, <1>3, <1>4 DEF Ids

-----------------------------------------------------------------------------
\* What its owner's credentials open.
FitsOwner(o, i, c) ==
  /\ SecretOf(c) = SecretOf(o)
  /\ o.pqc \in {"external", "dual"} => c.keyfile = KeyfileFor(o, i)
  /\ o.pqc = "dual" => c.kfpw = o.kfpw

LEMMA StringsThere ==
  /\ "embedded" # None /\ "external" # None /\ "dual" # None /\ "drand" # None /\ "aavrit" # None
  /\ Ours # None /\ Theirs # None
  BY NoneAssumption, Constants DEF Ours, Theirs

LEMMA MetaIs ==
  ASSUME NEW o, IsOptions(o), NEW salt, NEW i \in Ids, NEW m, m = MetaOf(o, salt, i)
  PROVE  /\ m.id = i /\ m.salt = salt /\ m.provider = o.provider /\ m.unlock = o.unlock /\ m.method = Method(o)
         /\ m.keyphrase = (o.kp # None) /\ m.storage = StorageOf(o)
         /\ m.keyId = (IF o.pqc = None THEN None ELSE i)
         /\ m.timeHash = (IF o.provider = None THEN None ELSE KeyOf(i))
         /\ m.sealed = (IF o.provider = "drand" THEN SealedTo(o.unlock, KeyOf(i)) ELSE None)
         /\ m.escrow = (IF o.provider = "aavrit" THEN EscrowFor(i, o.unlock) ELSE None)
         /\ m.wrapped = IF Method(o) = "stream"
                        THEN Seal(AccessKey(SecretOf(o), m.timeHash, m.keyId, salt), HeaderOf(o), DataKeyOf(i))
                        ELSE None
  BY DEF MetaOf, GivenFor, PqcMaterial

\* What anybody may read of it.
LEMMA RouteIs ==
  ASSUME NEW o, NEW salt, NEW i \in Ids, NEW f, f = FileOf(o, salt, i), Whole(o, i, f)
  PROVE  /\ f.tags.gated <=> o.provider = "aavrit"
         /\ f.tags.escrow = IF o.provider = "aavrit" THEN EscrowFor(i, o.unlock) ELSE None
         /\ f.tags.unlock = IF o.provider = None THEN None ELSE o.unlock
         /\ f.tags.password <=> o.pw # None
         /\ f.tags.keyphrase <=> o.kp # None
         /\ PublicRoute(f).provider = o.provider
         /\ PublicRoute(f).pqc <=> o.pqc # None
         /\ PublicRoute(f).storage = StorageOf(o)
         /\ PublicRoute(f).escrow = f.tags.escrow /\ PublicRoute(f).unlock = f.tags.unlock
         /\ PublicRoute(f).gated = f.tags.gated
         /\ PublicRoute(f).password = f.tags.password /\ PublicRoute(f).keyphrase = f.tags.keyphrase
<1> DEFINE t == f.tags  e == GivenFor(o, i).escrow
<1>1. /\ t = RouteTags(SecretOf(o), StorageOf(o), IF o.provider = None THEN None ELSE o.unlock, e)
      /\ f.header.provider = o.provider
  <2>1. t = UnsignedOf(o, salt, i).tags /\ f.header = HeaderOf(o)
    BY FileIs
  <2>2. UnsignedOf(o, salt, i).tags
        = RouteTags(SecretOf(o), StorageOf(o), IF o.provider = None THEN None ELSE o.unlock, e)
    BY DEF UnsignedOf
  <2> QED
    BY <2>1, <2>2 DEF HeaderOf
<1>2. e = IF o.provider = "aavrit" THEN EscrowFor(i, o.unlock) ELSE None
  BY DEF GivenFor
<1> HIDE DEF e
<1>3. e # None <=> o.provider = "aavrit"
  BY <1>2, StringsThere DEF Whole
<1>4. StorageOf(o) # None <=> o.pqc # None
  BY StringsThere DEF StorageOf
<1>5. /\ t.version = (IF e # None THEN 3 ELSE IF StorageOf(o) = "embedded" THEN 2 ELSE 1)
      /\ t.password = (o.pw # None) /\ t.keyphrase = (o.kp # None) /\ t.pqc = (StorageOf(o) # None)
      /\ t.storage = IF StorageOf(o) = "embedded" \/ (e # None /\ StorageOf(o) # None) THEN StorageOf(o) ELSE None
      /\ t.unlock = (IF o.provider = None THEN None ELSE o.unlock) /\ t.escrow = e /\ t.gated = (e # None)
  BY <1>1 DEF RouteTags, SecretOf
<1> HIDE DEF t
<1>6. /\ PublicRoute(f).provider = o.provider /\ PublicRoute(f).pqc = t.pqc
      /\ PublicRoute(f).storage = (IF t.pqc /\ t.version = 1 THEN "external" ELSE t.storage)
      /\ PublicRoute(f).escrow = t.escrow /\ PublicRoute(f).unlock = t.unlock /\ PublicRoute(f).gated = t.gated
      /\ PublicRoute(f).password = t.password /\ PublicRoute(f).keyphrase = t.keyphrase
  BY <1>1 DEF PublicRoute, t
<1>7. StorageOf(o) \in {None, "embedded", "external"}
  BY DEF StorageOf
<1>8. PublicRoute(f).storage = StorageOf(o)
  <2>1. CASE StorageOf(o) = None
    BY <1>5, <1>6, <2>1, StringsThere
  <2>2. CASE StorageOf(o) = "embedded"
    BY <1>5, <1>6, <2>2, StringsThere
  <2>3. CASE StorageOf(o) = "external" /\ e = None
    BY <1>5, <1>6, <2>3, StringsThere
  <2>4. CASE StorageOf(o) = "external" /\ e # None
    BY <1>5, <1>6, <2>4, StringsThere
  <2> QED
    BY <1>7, <2>1, <2>2, <2>3, <2>4
<1> QED
  BY <1>2, <1>3, <1>4, <1>5, <1>6, <1>8 DEF t

LEMMA OwnersInputs ==
  ASSUME NEW o, NEW salt, NEW i \in Ids, NEW f, f = FileOf(o, salt, i), Whole(o, i, f),
         NEW c, FitsOwner(o, i, c)
  PROVE  RouteInputs(PublicRoute(f), c)
<1>1. c.pw = o.pw /\ c.kp = o.kp
  <2>1. SecretOf(c).pw = c.pw /\ SecretOf(o).pw = o.pw /\ SecretOf(c).kp = c.kp /\ SecretOf(o).kp = o.kp
    BY DEF SecretOf
  <2> QED
    BY <2>1 DEF FitsOwner
<1>2. ASSUME o.pqc # None, StorageOf(o) # "embedded" PROVE c.keyfile # None
  BY <1>2 DEF FitsOwner, Whole, IsOptions, StorageOf
<1> QED
  BY <1>1, <1>2, RouteIs DEF RouteInputs

\* The post-quantum secret.
LEMMA OwnersResolve ==
  ASSUME NEW o, NEW salt, NEW i \in Ids, NEW f, f = FileOf(o, salt, i), Whole(o, i, f),
         NEW c, FitsOwner(o, i, c)
  PROVE  PqcResolved(f, c) /\ SharedOf(f) = (IF o.pqc = None THEN None ELSE i)
<1> DEFINE b == f.bootstrap
<1>1. /\ b = Bootstrap(o, i) /\ f.header = HeaderOf(o)
      /\ f.blob = (IF o.pqc = "embedded" THEN EmbeddedBlob(o, i, HeaderOf(o)) ELSE None)
  <2>1. b = Bootstrap(o, i) /\ f.header = HeaderOf(o) /\ f.blob = UnsignedOf(o, salt, i).blob
    BY FileIs
  <2> QED
    BY <2>1 DEF UnsignedOf
<1>2. CASE o.pqc = None
  <2>1. b = None
    BY <1>1, <1>2 DEF Bootstrap
  <2> QED
    BY <1>2, <2>1 DEF PqcResolved, SharedOf
<1>3. CASE o.pqc # None
  <2>1. b # None /\ b.keyId = i /\ b.storage = StorageOf(o) /\ b.ciphertext = i
    BY <1>1, <1>3 DEF Bootstrap, PqcMaterial, Whole
  <2>2. SharedOf(f) = i
    BY <2>1 DEF SharedOf, PqcMaterial
  <2>3. HasUserSecret(SecretOf(c)) /\ SecretOf(c) = SecretOf(o)
    BY <1>3 DEF Whole, ValidOptions, FitsOwner
  <2>4. PublicRoute(f).pqc /\ PublicRoute(f).storage = b.storage
    BY <1>3, <2>1, RouteIs
  <2>5. Decapsulates(i, b)
    BY <2>1 DEF Decapsulates
  <2>6. CASE o.pqc = "embedded"
    <3> DEFINE e == EmbeddedBlob(o, i, HeaderOf(o))
    <3>1. e.keyId = i /\ e.inner = Seal(EmbeddedKey(SecretOf(o), i), EmbeddedAad(HeaderOf(o), i), i)
      BY DEF EmbeddedBlob, PqcMaterial
    <3>2. f.blob = e /\ e # None
      BY <1>1, <2>6 DEF Whole
    <3> HIDE DEF e
    <3>3. e.inner.plain = i /\ Opens(e.inner, EmbeddedKey(SecretOf(c), i), EmbeddedAad(f.header, i))
      BY <1>1, <2>3, <3>1 DEF Opens, Seal
    <3>4. ReadEmbedded(f.blob, c, b, f.header)
      BY <2>1, <2>3, <2>5, <3>1, <3>2, <3>3 DEF ReadEmbedded
    <3>5. b.storage = "embedded"
      BY <2>1, <2>6, <1>3 DEF StorageOf
    <3> QED
      BY <2>2, <2>4, <3>4, <3>5, <1>3 DEF PqcResolved
  <2>7. CASE o.pqc \in {"external", "dual"}
    <3> DEFINE d == KeyfileFor(o, i)
    <3>1. d.keyId = i /\ d.inner = Seal(KeyfileKey(SecretOf(o), i), KeyfileAad(i), i)
          /\ (o.pqc = "external" => d.outer = None) /\ (o.pqc = "dual" => d.outer = OuterKey(o.kfpw, i))
      BY DEF KeyfileFor, PqcMaterial, Wrap
    <3>2. c.keyfile = d /\ d # None
      BY <1>3, <2>7 DEF Whole, FitsOwner
    <3> HIDE DEF d
    <3>3. Unwraps(d, c.kfpw)
      BY <2>7, <3>1 DEF Unwraps, FitsOwner, Whole, ValidOptions
    <3>4. d.inner.plain = i /\ Opens(d.inner, KeyfileKey(SecretOf(c), i), KeyfileAad(i))
      BY <2>3, <3>1 DEF Opens, Seal
    <3>5. ReadKeyfile(c.keyfile, c, b)
      BY <2>1, <2>3, <2>5, <3>1, <3>2, <3>3, <3>4 DEF ReadKeyfile
    <3>6. b.storage = "external" /\ f.blob = None
      BY <1>1, <1>3, <2>1, <2>7 DEF StorageOf
    <3> QED
      BY <2>2, <2>4, <3>5, <3>6, <1>3 DEF PqcResolved
  <2>8. o.pqc \in {"embedded", "external", "dual"}
    BY <1>3 DEF Whole, IsOptions
  <2> QED
    BY <2>6, <2>7, <2>8
<1> QED
  BY <1>2, <1>3

LEMMA OwnersDecode ==
  ASSUME NEW o, NEW salt, NEW i \in Ids, NEW f, f = FileOf(o, salt, i), Whole(o, i, f),
         NEW c, FitsOwner(o, i, c), NEW k, o.provider = "aavrit" => k = KeyOf(i)
  PROVE  DecodesWith(f, c, k)
<1> DEFINE m == MetaOf(o, salt, i)
           g == IF o.provider = "aavrit" THEN KeyOf(i) ELSE None
           shared == IF o.pqc = None THEN None ELSE i
<1>1. m.salt = salt /\ m.keyId = shared
  BY MetaIs DEF Whole
<1>2. /\ f.keychain = UnsignedOf(o, salt, i).keychain /\ f.keychain.plain = m /\ f.header = HeaderOf(o)
      /\ f.bootstrap = Bootstrap(o, i)
  BY FileIs
<1>3. GatedBy(o, i) = g
  BY StringsThere DEF GatedBy, GivenFor
<1>4. SharedOf(f) = shared
  BY OwnersResolve
<1>5. f.tags.gated <=> o.provider = "aavrit"
  BY RouteIs
<1>6. KeyOf(i) # None /\ SecretOf(c) = SecretOf(o)
  BY DEF Whole, FitsOwner
<1>7. f.keychain = Enclose(m, SecretOf(o), g, f.bootstrap, f.header)
  BY <1>2, <1>3 DEF UnsignedOf
<1> HIDE DEF m, shared
<1>8. CASE ~HasUserSecret(SecretOf(o)) /\ g = None
  BY <1>7, <1>8 DEF Enclose, Seal, DecodesWith
<1>9. CASE HasUserSecret(SecretOf(o)) \/ g # None
  <2>1. /\ f.keychain.key = KeychainKey(SecretOf(o), g, m.keyId, m.salt)
        /\ f.keychain.aad = KeychainAad(f.header, f.bootstrap)
    BY <1>7, <1>9 DEF Enclose, Seal
  <2>2. (IF f.tags.gated THEN k ELSE None) = g
    BY <1>5
  <2>3. Opens(f.keychain,
              KeychainKey(SecretOf(c), IF f.tags.gated THEN k ELSE None, SharedOf(f), f.keychain.plain.salt),
              KeychainAad(f.header, f.bootstrap))
    BY <1>1, <1>2, <1>4, <1>6, <2>1, <2>2 DEF Opens
  <2>4. f.tags.gated => k # None
    BY <1>5, <1>6
  <2>5. HasUserSecret(SecretOf(c)) \/ f.tags.gated
    BY <1>5, <1>6, <1>9
  <2> QED
    BY <2>3, <2>4, <2>5 DEF DecodesWith
<1> QED
  BY <1>8, <1>9

LEMMA OwnersUnlock ==
  ASSUME NEW o, NEW salt, NEW i \in Ids, NEW f, f = FileOf(o, salt, i), Whole(o, i, f),
         NEW c, FitsOwner(o, i, c), NEW k, o.provider = "aavrit" => k = KeyOf(i)
  PROVE  UnlocksKeychain(f, c, k)
<1> DEFINE m == f.keychain.plain
<1>1. /\ m = MetaOf(o, salt, i) /\ f.bootstrap = Bootstrap(o, i) /\ f.id = i /\ f.signature.over = Manifest(f)
      /\ f.header.provider = o.provider
  <2>1. m = MetaOf(o, salt, i) /\ f.bootstrap = Bootstrap(o, i) /\ f.id = i /\ f.signature.over = Manifest(f)
    BY FileIs
  <2>2. f.header = HeaderOf(o)
    BY FileIs
  <2> QED
    BY <2>1, <2>2 DEF HeaderOf
<1> HIDE DEF m
<1>2. /\ m.id = i /\ m.provider = o.provider /\ m.method = Method(o) /\ m.storage = StorageOf(o)
      /\ m.keyId = (IF o.pqc = None THEN None ELSE i)
      /\ m.sealed = (IF o.provider = "drand" THEN SealedTo(o.unlock, KeyOf(i)) ELSE None)
      /\ m.escrow = (IF o.provider = "aavrit" THEN EscrowFor(i, o.unlock) ELSE None)
      /\ m.wrapped # None => Method(o) = "stream"
  BY <1>1, MetaIs DEF Whole
<1>3. /\ f.tags.gated <=> o.provider = "aavrit"
      /\ f.tags.escrow = IF o.provider = "aavrit" THEN EscrowFor(i, o.unlock) ELSE None
  BY RouteIs
<1>4. o.provider # None => SealedTo(o.unlock, KeyOf(i)) # None /\ EscrowFor(i, o.unlock) # None
  BY DEF Whole
<1>5. ValidMetadata(m)
  <2>1. ProviderFields(m)
    BY <1>2, <1>4, StringsThere DEF ProviderFields
  <2>2. StorageOf(o) = None <=> o.pqc = None
    BY StringsThere DEF StorageOf
  <2>3. PqcFields(m)
    BY <1>2, <2>2, StringsThere DEF PqcFields, Ids
  <2>4. m.method \in {"stream", "timekey", "plaintext"} /\ WrappedPayloadKey(m)
    BY <1>2 DEF Method, WrappedPayloadKey
  <2> QED
    BY <2>1, <2>3, <2>4 DEF ValidMetadata
<1>6. f.bootstrap # None =>
        o.pqc # None /\ f.bootstrap.keyId = i /\ f.bootstrap.storage = StorageOf(o) /\ f.bootstrap.id = i
  BY <1>1 DEF Bootstrap
<1>7. BoundToBootstrap(f, m)
  BY <1>2, <1>6 DEF BoundToBootstrap
<1>8. BoundToRoute(f, m)
  BY <1>2, <1>3, <1>4 DEF BoundToRoute
<1>9. VerifySignature(f)
  BY <1>1 DEF VerifySignature, Whole
<1>10. Manifest(f).id = i
  BY <1>1 DEF Manifest
<1>11. BoundToSignature(f, m)
  BY <1>1, <1>2, <1>6, <1>10 DEF BoundToSignature
<1>12. BoundToHeader(f, m)
  BY <1>1, <1>2 DEF BoundToHeader
<1>13. PqcResolved(f, c)
  BY OwnersResolve
<1>14. DecodesWith(f, c, k)
  BY OwnersDecode
<1> QED
  BY <1>5, <1>7, <1>8, <1>9, <1>11, <1>12, <1>13, <1>14 DEF UnlocksKeychain, m

\* The payload key that its owner's credentials and the provider's half give.
LEMMA OwnersKey ==
  ASSUME NEW o, NEW salt, NEW i \in Ids, NEW f, f = FileOf(o, salt, i), Whole(o, i, f),
         salt = i \/ Method(o) = "stream",
         NEW c, FitsOwner(o, i, c), NEW k, k = (IF o.provider = None THEN None ELSE KeyOf(i))
  PROVE  Opens(f.payload, PayloadKey(f, f.keychain.plain, c, k), f.header)
<1> DEFINE m == f.keychain.plain
<1>1. /\ m = MetaOf(o, salt, i) /\ f.header = HeaderOf(o)
      /\ f.payload.key = DataKey(o, GivenFor(o, i), i) /\ f.payload.aad = HeaderOf(o)
  BY FileIs
<1> HIDE DEF m
<1>2. /\ m.salt = salt /\ m.method = Method(o) /\ m.timeHash = k
      /\ m.keyId = (IF o.pqc = None THEN None ELSE i)
      /\ Method(o) = "stream" =>
           m.wrapped = Seal(AccessKey(SecretOf(o), m.timeHash, m.keyId, salt), HeaderOf(o), DataKeyOf(i))
  BY <1>1, MetaIs DEF Whole
<1>3. SharedOf(f) = m.keyId
  BY <1>2, OwnersResolve
<1>4. CASE Method(o) = "stream"
  <2>1. SecretOf(c) = SecretOf(o)
    BY DEF FitsOwner
  <2>2. Opens(m.wrapped, AccessKey(SecretOf(c), k, SharedOf(f), m.salt), f.header) /\ m.wrapped.plain = DataKeyOf(i)
    BY <1>1, <1>2, <1>3, <1>4, <2>1 DEF Opens, Seal
  <2>3. PayloadKey(f, m, c, k) = DataKeyOf(i)
    BY <1>2, <1>4, <2>2 DEF PayloadKey
  <2>4. DataKey(o, GivenFor(o, i), i) = DataKeyOf(i)
    BY <1>4 DEF DataKey, DataKeyOf
  <2> QED
    BY <1>1, <2>3, <2>4 DEF Opens, m
<1>5. CASE Method(o) = "timekey"
  <2>1. o.provider = None \/ GivenFor(o, i).timeKey = k
    BY DEF GivenFor
  <2>2. o.provider # None
    BY <1>5 DEF Method
  <2>3. DataKey(o, GivenFor(o, i), i) = TimeOnlyKey(k, i)
    BY <1>5, <2>1, <2>2 DEF DataKey
  <2>4. PayloadKey(f, m, c, k) = TimeOnlyKey(k, m.salt)
    BY <1>2, <1>5 DEF PayloadKey
  <2>5. m.salt = i
    BY <1>2, <1>5
  <2> QED
    BY <1>1, <2>3, <2>4, <2>5 DEF Opens, m
<1>6. CASE Method(o) = "plaintext"
  <2>1. DataKey(o, GivenFor(o, i), i) = PublicKey
    BY <1>6 DEF DataKey
  <2>2. PayloadKey(f, m, c, k) = PublicKey
    BY <1>2, <1>6 DEF PayloadKey
  <2> QED
    BY <1>1, <2>1, <2>2 DEF Opens, m
<1> QED
  BY <1>4, <1>5, <1>6 DEF Method

LEMMA OwnersPayload ==
  ASSUME NEW o, NEW salt, NEW i \in Ids, NEW f, f = FileOf(o, salt, i), Whole(o, i, f),
         salt = i \/ Method(o) = "stream",
         NEW c, FitsOwner(o, i, c), NEW k, k = (IF o.provider = None THEN None ELSE KeyOf(i))
  PROVE  OpensPayload(f, c, k)
<1> DEFINE m == f.keychain.plain
<1>1. /\ m = MetaOf(o, salt, i) /\ f.payload.plain = i /\ f.signature.over = Manifest(f)
      /\ f.blob = UnsignedOf(o, salt, i).blob
  BY FileIs
<1>2. f.blob = IF o.pqc = "embedded" THEN EmbeddedBlob(o, i, HeaderOf(o)) ELSE None
  BY <1>1 DEF UnsignedOf
<1> HIDE DEF m
<1>3. m.id = i /\ m.method = Method(o) /\ m.storage = StorageOf(o) /\ (m.keyphrase => o.kp # None)
  <2>1. m.keyphrase => o.kp # None
    BY <1>1 DEF MetaOf
  <2> QED
    BY <1>1, <2>1, MetaIs DEF Whole
<1>4. SignedPayload(f)
  BY <1>1 DEF SignedPayload, Manifest
<1>5. c.kp = o.kp
  <2>1. SecretOf(c).kp = c.kp /\ SecretOf(o).kp = o.kp
    BY DEF SecretOf
  <2> QED
    BY <2>1 DEF FitsOwner
<1>6. m.method = "timekey" => k # None
  BY <1>3 DEF Method, Whole
<1>7. m.storage # "embedded" => f.blob = None
  BY <1>2, <1>3, StringsThere DEF StorageOf
<1>8. Opens(f.payload, PayloadKey(f, m, c, k), f.header)
  BY OwnersKey DEF m
<1> QED
  BY <1>1, <1>3, <1>4, <1>5, <1>6, <1>7, <1>8 DEF OpensPayload, m

-----------------------------------------------------------------------------
\* A request asks the clock after it has begun, and only where it waits for the answer.
AskedInv ==
  /\ req.began \in Nat /\ req.began <= now
  /\ \A t \in Clients : answered[t] <= now
  /\ pcOf[Worker] # "idle" => pc \in ClockStages \ {"publicLock"} /\ req.began <= asked[Worker]
  /\ pcOf[Loop] # "idle" /\ calls = 0 => pc = "publicLock" /\ req.began <= asked[Loop]

LEMMA Threads ==
  /\ Loop \in Clients /\ Worker \in Clients /\ WarmUp \in Clients
  /\ Loop # Worker /\ WarmUp # Loop /\ WarmUp # Worker
  BY ClockAssumption DEF Clients

\* A request that does not wait for the clock goes on, begins or ends.
LEMMA AskedOwn ==
  ASSUME SceneInv, ClockInv, AskedInv,
         BeginCreate \/ SealToRound \/ CreateEscrow \/ Create \/ ReadRoute \/ CheckInputs \/ ReadMetadata
         \/ AskBeacon \/ ReleaseEscrow \/ CheckReceipt \/ OpenArchive \/ OpenPayload
         \/ CheckCreator \/ SelectFromSession \/ ReadSelection \/ Answer
  PROVE  AskedInv'
<1> DEFINE Own == /\ pc \notin ClockStages /\ UNCHANGED <<now, answered, pcOf, asked, calls>>
                  /\ req'.began \in {0, now, req.began}
<1>0. Keeps => UNCHANGED <<now, answered, pcOf, asked, calls>>
  BY DEF Keeps, clockVars, callVars, envVars
<1>1. ASSUME Own PROVE AskedInv'
  <2>1. now \in Nat
    BY DEF SceneInv
  <2>2. pcOf'[Worker] = "idle"
    BY <1>1 DEF AskedInv
  <2>3. ~(pcOf'[Loop] # "idle" /\ calls' = 0)
    BY <1>1 DEF AskedInv, ClockStages
  <2> QED
    BY <1>1, <2>1, <2>2, <2>3 DEF AskedInv
<1>2. CASE BeginCreate
  BY <1>0, <1>1, <1>2 DEF BeginCreate, NoRequest, ClockStages
<1>3. CASE ReadRoute
  BY <1>0, <1>1, <1>3 DEF ReadRoute, NoRequest, ClockStages
<1>4. CASE Create \/ Answer
  <2>1. req'.began = 0
    BY <1>4 DEF Create, Answer, NoRequest
  <2>2. pc \notin ClockStages /\ Keeps
    BY <1>4 DEF Create, Answer, ClockStages
  <2> QED
    BY <1>0, <1>1, <2>1, <2>2
<1>5. CASE SealToRound \/ CreateEscrow \/ CheckInputs \/ ReadMetadata \/ AskBeacon \/ ReleaseEscrow \/ CheckReceipt
           \/ OpenArchive \/ OpenPayload \/ CheckCreator \/ SelectFromSession \/ ReadSelection
  <2>1. Keeps
    BY <1>5 DEF SealToRound, CreateEscrow, CheckInputs, ReadMetadata, AskBeacon, ReleaseEscrow, CheckReceipt,
                OpenArchive, OpenPayload, CheckCreator, SelectFromSession, ReadSelection
  <2>2. pc \in {"seal", "escrow", "inputs", "metadata", "beacon", "release", "receipt", "open", "payload", "trust",
                "opened", "selected"}
    BY <1>5 DEF SealToRound, CreateEscrow, CheckInputs, ReadMetadata, AskBeacon, ReleaseEscrow, CheckReceipt,
                OpenArchive, OpenPayload, CheckCreator, SelectFromSession, ReadSelection
  <2>3. req'.began = req.began
    BY <1>5 DEF SealToRound, CreateEscrow, CheckInputs, ReadMetadata, AskBeacon, ReleaseEscrow, CheckReceipt,
                OpenArchive, OpenPayload, CheckCreator, SelectFromSession, ReadSelection, SceneInv, ReqFields
  <2>4. pc \notin ClockStages
    BY <2>2 DEF ClockStages
  <2> QED
    BY <1>0, <1>1, <2>1, <2>3, <2>4
<1> QED
  BY <1>2, <1>3, <1>4, <1>5

\* A request that has taken its answer waits for none.
LEMMA AskedTaken ==
  ASSUME SceneInv, ClockInv, AskedInv,
         CheckUnlockTime \/ CheckStillAhead \/ CheckNotTooFar \/ CheckPublicLock \/ PassGate
         \/ CheckAligned("aligned", "seal") \/ CheckAligned("inTime", "beacon")
  PROVE  AskedInv'
<1> DEFINE Took(stage) == /\ pc = stage /\ Take(Asker(stage)) /\ calls' = calls /\ req'.began = req.began
<1>0. \A x : [req EXCEPT !.excused = x].began = req.began
  BY DEF SceneInv, ReqFields
<1>1. ASSUME NEW stage \in ClockStages, Took(stage) PROVE AskedInv'
  <2>1. /\ pcOf'[Asker(stage)] = "idle"
        /\ \A t \in Clients : t # Asker(stage) => pcOf'[t] = pcOf[t] /\ asked'[t] = asked[t]
        /\ \A t \in Clients : answered'[t] \in {0, answered[t]}
        /\ now' = now
    BY <1>1, Askers DEF Take, ClockInv, ClockTypeOK
  <2>2. now \in Nat /\ \A t \in Clients : answered'[t] <= now'
    BY <2>1 DEF SceneInv, AskedInv
  <2>3. CASE stage = "publicLock"
    <3>1. Asker(stage) = Loop /\ pcOf[Worker] = "idle"
      BY <1>1, <2>3 DEF Asker, AskedInv
    <3> QED
      BY <1>1, <2>1, <2>2, <3>1, Threads DEF AskedInv
  <2>4. CASE stage # "publicLock"
    <3>1. Asker(stage) = Worker /\ ~(pcOf[Loop] # "idle" /\ calls = 0)
      BY <1>1, <2>4 DEF Asker, AskedInv
    <3> QED
      BY <1>1, <2>1, <2>2, <3>1, Threads DEF AskedInv
  <2> QED
    BY <2>3, <2>4
<1> USE DEF envVars
<1>2. CheckUnlockTime => Took("unlockTime")
  BY <1>0 DEF CheckUnlockTime, Clocked
<1>3. CheckStillAhead => Took("stillAhead")
  BY <1>0 DEF CheckStillAhead, Clocked
<1>4. CheckNotTooFar => Took("written")
  BY <1>0 DEF CheckNotTooFar, Clocked
<1>5. CheckPublicLock => Took("publicLock")
  BY <1>0 DEF CheckPublicLock, Clocked
<1>6. PassGate => Took("gate")
  BY <1>0 DEF PassGate, Clocked
<1>7. ASSUME NEW stage, NEW next, CheckAligned(stage, next) PROVE Took(stage)
  <2>1. \E x : req' = [req EXCEPT !.excused = x]
    BY <1>7 DEF CheckAligned
  <2> QED
    BY <1>0, <1>7, <2>1 DEF CheckAligned
<1> HIDE DEF envVars, Took
<1>8. {"unlockTime", "stillAhead", "written", "publicLock", "gate", "aligned", "inTime"} \subseteq ClockStages
  BY DEF ClockStages
<1> QED
  BY <1>1, <1>2, <1>3, <1>4, <1>5, <1>6, <1>7, <1>8

\* The clock at work, and its other callers.
LEMMA AskedAround ==
  ASSUME SceneInv, CountInv, ClockInv, AskedInv,
         Rekey \/ Swap \/ AskClock \/ ClockWorks \/ BeginRefresh \/ Refreshing \/ RefreshAsks \/ RefreshTold
         \/ WarmUpStarts \/ WarmUpEnds \/ TimePasses \/ UNCHANGED vars
  PROVE  AskedInv'
<1>0. now \in Nat /\ calls \in 0..3 /\ req.began \in Nat /\ Loop \in Clients /\ Worker \in Clients
  BY Threads DEF SceneInv, CountInv, AskedInv
<1>1. CASE Rekey \/ Swap \/ UNCHANGED vars
  <2>1. UNCHANGED <<now, answered, pcOf, asked, calls, pc>>
    BY <1>1 DEF Rekey, Swap, vars, clockVars, callVars, gateVars, envVars
  <2>2. req'.began = req.began
    BY <1>1 DEF Rekey, Swap, vars, gateVars, SceneInv, ReqFields
  <2> QED
    BY <2>1, <2>2 DEF AskedInv
<1>2. CASE AskClock
  <2>1. /\ pc \in ClockStages /\ calls = 0 /\ Ask(Asker(pc)) /\ UNCHANGED <<pc, req, calls>>
    BY <1>2 DEF AskClock, gateVars, envVars
  <2>2. /\ asked'[Asker(pc)] = now /\ now' = now /\ answered' = answered
        /\ \A t \in Clients : t # Asker(pc) => pcOf'[t] = pcOf[t] /\ asked'[t] = asked[t]
    BY <2>1, Askers DEF Ask, ClockInv, ClockTypeOK
  <2>3. CASE pc = "publicLock"
    BY <2>1, <2>2, <2>3, Threads DEF AskedInv, Asker
  <2>4. CASE pc # "publicLock"
    <3>1. Asker(pc) = Worker /\ pcOf[Loop] = "idle"
      BY <2>1, <2>4 DEF AskedInv, Asker
    <3> QED
      BY <2>1, <2>2, <2>4, <3>1, Threads DEF AskedInv
  <2> QED
    BY <2>3, <2>4
<1>3. CASE ClockWorks
  <2>1. PICK t \in Clients : Enter(t) \/ Use(t) \/ Fetch(t) \/ Store(t) \/ FetchFails(t)
    BY <1>3 DEF ClockWorks
  <2>2. UNCHANGED <<pc, req, calls, now, asked>>
    BY <1>3, <2>1 DEF ClockWorks, gateVars, envVars, Enter, Use, Fetch, Store, FetchFails
  <2>3. pcOf[t] # "idle" /\ \A u \in Clients : u # t => pcOf'[u] = pcOf[u]
    BY <2>1 DEF Enter, Use, Fetch, Store, FetchFails, Return, ClockInv, ClockTypeOK
  <2>4. \A u \in Clients : answered'[u] \in {answered[u], now}
    BY <2>1 DEF Enter, Use, Fetch, Store, FetchFails, Return, ClockInv, ClockTypeOK
  <2> QED
    BY <1>0, <2>2, <2>3, <2>4 DEF AskedInv
<1>4. CASE BeginRefresh
  <2>1. calls' = 3 /\ UNCHANGED <<pc, req, now, asked, answered>> /\ pcOf'[Worker] = pcOf[Worker]
    BY <1>4, Threads DEF BeginRefresh, ForgetTime, ClockInv, ClockTypeOK
  <2> QED
    BY <2>1 DEF AskedInv
<1>5. CASE Refreshing
  <2>1. /\ UNCHANGED <<pc, req, calls, now, answered>> /\ pcOf'[Worker] = pcOf[Worker] /\ asked'[Worker] = asked[Worker]
        /\ pcOf[Loop] = "clear" /\ asked'[Loop] = now
    BY <1>5, Threads DEF Refreshing, ForgetStamp, gateVars, envVars, ClockInv, ClockTypeOK
  <2>2. calls = 0 => pc = "publicLock"
    BY <2>1 DEF AskedInv
  <2> QED
    BY <2>1, <2>2 DEF AskedInv
<1>6. CASE RefreshAsks
  <2>1. calls \in 1..2 /\ UNCHANGED <<pc, req, calls, now, answered>>
        /\ pcOf'[Worker] = pcOf[Worker] /\ asked'[Worker] = asked[Worker]
    BY <1>6, Threads DEF RefreshAsks, Ask, gateVars, envVars, ClockInv, ClockTypeOK
  <2> QED
    BY <2>1 DEF AskedInv
<1>7. CASE RefreshTold
  <2>1. /\ UNCHANGED <<pc, req, now>> /\ pcOf'[Loop] = "idle"
        /\ pcOf'[Worker] = pcOf[Worker] /\ asked'[Worker] = asked[Worker]
        /\ \A u \in Clients : answered'[u] \in {answered[u], 0}
    BY <1>7, Threads DEF RefreshTold, Take, ClockInv, ClockTypeOK
  <2> QED
    BY <1>0, <2>1 DEF AskedInv
<1>8. CASE WarmUpStarts \/ WarmUpEnds
  <2>1. UNCHANGED <<pc, req, calls, now>>
    BY <1>8 DEF WarmUpStarts, WarmUpEnds, Prime, Ask, Take, gateVars, envVars
  <2>2. \A u \in {Loop, Worker} : pcOf'[u] = pcOf[u] /\ asked'[u] = asked[u]
    BY <1>8, Threads DEF WarmUpStarts, WarmUpEnds, Prime, Ask, Take, ClockInv, ClockTypeOK
  <2>3. \A u \in Clients : answered'[u] \in {answered[u], 0}
    BY <1>8, Threads DEF WarmUpStarts, WarmUpEnds, Prime, Ask, Take, ClockInv, ClockTypeOK
  <2> QED
    BY <1>0, <2>1, <2>2, <2>3 DEF AskedInv
<1>9. CASE TimePasses
  <2>1. UNCHANGED <<pc, req, calls, pcOf, asked, answered>> /\ now' = now + 1
    BY <1>9 DEF TimePasses, Tick, gateVars, envVars, callVars
  <2>2. \A u \in Clients : answered[u] \in Nat
    BY DEF ClockInv, ClockTypeOK
  <2> QED
    BY <1>0, <2>1, <2>2 DEF AskedInv
<1> QED
  BY <1>1, <1>2, <1>3, <1>4, <1>5, <1>6, <1>7, <1>8, <1>9

TimedInv == SureInv /\ CountInv /\ ClockInv /\ AskedInv

LEMMA CountNext == ASSUME SureInv, CountInv, [Next]_vars PROVE CountInv'
<1>1. SceneInv
  BY DEF SureInv, EarlyInv
<1> QED
  BY <1>1, CountGates, CountSteps, CountOthers DEF Next

LEMMA AlwaysTimed == Spec => []TimedInv
<1>1. Init => CountInv
  BY ScenesAssumption DEF Init, CountInv, NoRequest
<1>2. Spec => []CountInv
  BY <1>1, CountNext, AlwaysSure, PTL DEF Spec
<1>3. Spec => []ClockInv
  BY GatesImplementClock, AlwaysInTime, PTL
<1>4. Init => AskedInv
  BY Threads DEF Init, ClockInit, AskedInv, NoRequest
<1>5. SureInv /\ CountInv /\ ClockInv /\ AskedInv /\ [Next]_vars => AskedInv'
  <2>1. SureInv => SceneInv
    BY DEF SureInv, EarlyInv
  <2> QED
    BY <2>1, AskedOwn, AskedTaken, AskedAround DEF Next
<1>6. Spec => []AskedInv
  BY <1>2, <1>3, <1>4, <1>5, AlwaysSure, PTL DEF Spec
<1> QED
  BY <1>2, <1>3, <1>6, AlwaysSure, PTL DEF TimedInv

\* The clock's answer lies between the request's beginning and a fetch from now.
LEMMA AnswerInTime ==
  ASSUME TimedInv, NEW a, a = answer[Asker(pc)], pc \in ClockStages, pcOf[Asker(pc)] = "done",
         pc = "publicLock" => calls = 0, a \notin Failures
  PROVE  a \in Nat /\ req.began \in Nat /\ now \in Nat /\ req.began <= a /\ a <= now + FetchLimit
<1> DEFINE t == Asker(pc)
<1>1. t \in Clients
  BY Askers
<1>2. req.began <= asked[t]
  BY <1>1 DEF TimedInv, AskedInv, Asker
<1>3. a \in Nat /\ asked[t] <= a /\ a <= answered[t] + FetchLimit
  BY <1>1 DEF TimedInv, ClockInv, DoneTrue, Failures
<1>4. asked[t] \in Nat /\ answered[t] \in Nat /\ now \in Nat /\ answered[t] <= now /\ req.began \in Nat
  BY <1>1 DEF TimedInv, ClockInv, ClockTypeOK, AskedInv
<1> HIDE DEF t
<1> QED
  BY <1>2, <1>3, <1>4, Constants

\* No clock is so wrong, without the request taking note of it.
LEMMA SkewNoted ==
  ASSUME SceneInv, NEW stage, NEW next, CheckAligned(stage, next), pc' = "refused", next # "refused"
  PROVE  req'.excused # {}
<1> DEFINE a == answer[Asker(stage)]
           more == IF a = Broken THEN {a} ELSE IF a \notin Failures /\ ~Aligned(a) THEN {"skew"} ELSE {}
<1>1. ~Aligned(a) /\ req' = [req EXCEPT !.excused = @ \cup more]
  BY DEF CheckAligned, Requires, Goto
<1>2. more # {}
  BY <1>1 DEF Aligned, Failures
<1> HIDE DEF more
<1> QED
  BY <1>1, <1>2 DEF SceneInv, ReqFields

-----------------------------------------------------------------------------
\* An archive that may be made is made.
MadeOrExcused ==
  pc = "refused" /\ req.kind = "create" /\ req.excused = {} =>
    \/ ~ValidOptions(scene.opts)
    \/ scene.opts.unlock <= now + FetchLimit \/ scene.opts.unlock > req.began + MaxLock

LEMMA Numbers == ASSUME SceneInv PROVE scene.opts.unlock \in Nat /\ now \in Nat /\ MaxLock \in Nat /\ FetchLimit \in Nat
  BY SceneOptions, GatesAssumption, Constants DEF IsOptions, SceneInv

LEMMA MadeGates ==
  ASSUME TimedInv,
         CheckUnlockTime \/ CheckStillAhead \/ CheckNotTooFar \/ CheckPublicLock \/ PassGate
         \/ CheckAligned("aligned", "seal") \/ CheckAligned("inTime", "beacon")
  PROVE  MadeOrExcused'
<1> DEFINE u == scene.opts.unlock
<1> SUFFICES ASSUME pc' = "refused", req'.kind = "create", req'.excused = {}
             PROVE  (u <= now + FetchLimit \/ u > req.began + MaxLock) /\ req' = req /\ UNCHANGED <<scene, now>>
  BY DEF MadeOrExcused
<1>0. SceneInv /\ KindAt /\ u \in Nat /\ now \in Nat /\ MaxLock \in Nat /\ FetchLimit \in Nat
  BY Numbers DEF TimedInv, SureInv, EarlyInv, KnownInv
<1>1. ASSUME NEW stage, NEW next, CheckAligned(stage, next), next # "refused" PROVE FALSE
  BY <1>0, <1>1, SkewNoted
<1>2. \A x : [req EXCEPT !.excused = x].kind = req.kind /\ [req EXCEPT !.excused = x].excused = x
  BY <1>0 DEF SceneInv, ReqFields
<1>3. CASE CheckPublicLock \/ PassGate
  <2>1. pc \in {"publicLock", "gate"} /\ req'.kind = req.kind
    BY <1>2, <1>3 DEF CheckPublicLock, PassGate, Clocked
  <2> QED
    BY <1>0, <2>1 DEF KindAt, OpeningStages, Reading
<1> DEFINE a == answer[Worker]
<1>4. ASSUME NEW stage, stage \in {"unlockTime", "stillAhead", "written"}, pc = stage, pcOf[Worker] = "done",
             a \notin Failures
      PROVE  a \in Nat /\ req.began \in Nat /\ req.began <= a /\ a <= now + FetchLimit
  <2>1. Asker(pc) = Worker /\ pc \in ClockStages /\ pc # "publicLock"
    BY <1>4 DEF Asker, ClockStages
  <2> QED
    BY <1>4, <2>1, AnswerInTime
<1>5. CASE CheckUnlockTime
  <2>1. pc = "unlockTime" /\ pcOf[Worker] = "done" /\ UNCHANGED <<scene, now>>
        /\ ~(a \notin Failures /\ u > a /\ u - a <= MaxLock)
        /\ req' = IF a \in Failures THEN [req EXCEPT !.excused = @ \cup {a}] ELSE req
    BY <1>5 DEF CheckUnlockTime, Clocked, Requires, Goto, Asker, Take
  <2>2. a \notin Failures
    BY <1>2, <2>1
  <2> HIDE DEF a, u
  <2> QED
    BY <1>0, <1>4, <2>1, <2>2
<1>6. CASE CheckStillAhead
  <2>1. pc = "stillAhead" /\ pcOf[Worker] = "done" /\ UNCHANGED <<scene, now>>
        /\ ~(a \notin Failures /\ u > a)
        /\ req' = IF a \in Failures THEN [req EXCEPT !.excused = @ \cup {a}] ELSE req
    BY <1>6 DEF CheckStillAhead, Clocked, Requires, Goto, Asker, Take
  <2>2. a \notin Failures
    BY <1>2, <2>1
  <2> HIDE DEF a, u
  <2> QED
    BY <1>0, <1>4, <2>1, <2>2
<1>7. CASE CheckNotTooFar
  <2>1. pc = "written" /\ pcOf[Worker] = "done" /\ UNCHANGED <<scene, now>>
        /\ ~(a \notin Failures /\ u <= a + MaxLock /\ a <= u + MaxLock)
        /\ req' = IF a \in Failures THEN [req EXCEPT !.excused = @ \cup {a}] ELSE req
    BY <1>7 DEF CheckNotTooFar, Clocked, Requires, Goto, Asker, Take
  <2>2. a \notin Failures
    BY <1>2, <2>1
  <2> HIDE DEF a, u
  <2> QED
    BY <1>0, <1>4, <2>1, <2>2
<1> QED
  BY <1>1, <1>3, <1>5, <1>6, <1>7

LEMMA MadeSteps ==
  ASSUME TimedInv, BeginCreate \/ SealToRound \/ CreateEscrow PROVE MadeOrExcused'
<1> SUFFICES ASSUME pc' = "refused", req'.kind = "create", req'.excused = {}
             PROVE  ~ValidOptions(scene.opts) \/ scene.opts.unlock <= now + FetchLimit
  <2>1. UNCHANGED <<scene, now>>
    BY DEF BeginCreate, SealToRound, CreateEscrow, Keeps, clockVars
  <2> QED
    BY <2>1 DEF MadeOrExcused
<1>0. SceneInv /\ scene.opts.unlock \in Nat /\ now \in Nat /\ FetchLimit \in Nat
  BY Numbers DEF TimedInv, SureInv, EarlyInv
<1>1. CASE BeginCreate
  <2>1. scene.opts.provider \in {None, "drand", "aavrit"}
    BY <1>0, SceneOptions DEF IsOptions
  <2> QED
    BY <1>1, <2>1 DEF BeginCreate, Requires, Goto
<1>2. CASE SealToRound
  BY <1>0, <1>2 DEF SealToRound, Goto, SceneInv, ReqFields
<1>3. CASE CreateEscrow
  <2>1. \A x : [req EXCEPT !.excused = @ \cup {x}].excused # {}
    BY <1>0 DEF SceneInv, ReqFields
  <2>2. ~(scene.opts.unlock > now)
    BY <1>3, <2>1 DEF CreateEscrow, Requires, Goto
  <2> QED
    BY <1>0, <2>2
<1> QED
  BY <1>1, <1>2, <1>3

\* Other steps do not refuse to make one.
LEMMA MadeOthers ==
  ASSUME TimedInv, MadeOrExcused, UNCHANGED scene, req'.began = req.began, req'.kind = req.kind,
         req.excused \subseteq req'.excused,
         pc' = "refused" => pc = "refused", now' \in Nat, now <= now'
  PROVE  MadeOrExcused'
<1>1. scene.opts.unlock \in Nat /\ now \in Nat /\ FetchLimit \in Nat
  BY Numbers DEF TimedInv, SureInv, EarlyInv
<1> QED
  BY <1>1 DEF MadeOrExcused

-----------------------------------------------------------------------------
\* Who has the credentials of an archive that is due is let through every gate.

\* RoundFor is the first round at or after the time.
LEMMA RoundAfter == ASSUME NEW time \in Nat PROVE RoundFor(time) \in Nat /\ time <= RoundFor(time) * Period
<1> DEFINE at == time \div Period
<1>1. Period \in Nat \ {0}
  BY GatesAssumption
<1>2. at \in Nat /\ at * Period <= time /\ time < (at + 1) * Period
  BY <1>1, Quotient
<1>3. RoundFor(time) = IF at * Period < time THEN at + 1 ELSE at
  BY DEF RoundFor
<1>4. at * Period \in Nat /\ at + 1 \in Nat /\ (at + 1) * Period \in Nat
  <2> HIDE DEF at
  <2>1. at + 1 \in Nat
    BY <1>2
  <2> QED
    BY <1>1, <1>2, <2>1, TimesNat
<1> HIDE DEF at
<1>5. CASE at * Period < time
  <2>1. RoundFor(time) = at + 1
    BY <1>3, <1>5
  <2>2. RoundFor(time) * Period = (at + 1) * Period
    BY <2>1
  <2> QED
    BY <1>2, <1>4, <2>1, <2>2
<1>6. CASE ~(at * Period < time)
  <2>1. RoundFor(time) = at
    BY <1>3, <1>6
  <2>2. RoundFor(time) * Period = at * Period
    BY <2>1
  <2> QED
    BY <1>2, <1>4, <1>6, <2>1, <2>2
<1> QED
  BY <1>5, <1>6

LEMMA RoundIsOut == ASSUME NEW r \in Nat, NEW n \in Nat, r * Period <= n, n <= now, now \in Nat PROVE Published(r)
<1> DEFINE q == now \div Period
<1>1. Period \in Nat \ {0}
  BY GatesAssumption
<1>2. q \in Nat /\ now < (q + 1) * Period
  BY <1>1, Quotient
<1> HIDE DEF q
<1>3. ASSUME q < r PROVE FALSE
  <2>1. q + 1 \in Nat /\ q + 1 <= r
    BY <1>2, <1>3
  <2>2. (q + 1) * Period <= r * Period
    BY <1>1, <2>1, TimesGrows
  <2>3. (q + 1) * Period \in Nat /\ r * Period \in Nat
    BY <1>1, <2>1, TimesNat
  <2> QED
    BY <1>2, <2>2, <2>3
<1> QED
  BY <1>2, <1>3 DEF Published, q

LEMMA DueBy ==
  ASSUME NEW o, IsOptions(o), NEW n \in Nat, Due(o, n), n <= now, now \in Nat
  PROVE  /\ o.provider # None => o.unlock <= n
         /\ o.provider = "drand" => Published(RoundFor(o.unlock))
<1>1. o.unlock \in Nat /\ o.provider \in {None, "drand", "aavrit"}
  BY DEF IsOptions
<1>2. CASE o.provider = "drand"
  <2>1. RoundFor(o.unlock) * Period <= n
    BY <1>2, StringsThere DEF Due
  <2>2. RoundFor(o.unlock) \in Nat /\ o.unlock <= RoundFor(o.unlock) * Period
    BY <1>1, RoundAfter
  <2>3. RoundFor(o.unlock) * Period \in Nat
    BY <2>2, GatesAssumption, TimesNat
  <2>4. Published(RoundFor(o.unlock))
    BY <2>1, <2>2, RoundIsOut
  <2> QED
    BY <1>1, <2>1, <2>2, <2>3, <2>4
<1>3. CASE o.provider = "aavrit"
  BY <1>3, StringsThere DEF Due
<1> QED
  BY <1>1, <1>2, <1>3

TimeKeyOf(o, i) == IF o.provider = None THEN None ELSE KeyOf(i)

Blameless ==
  /\ req.excused = {} /\ FitsOwner(owner[disk.id], disk.id, req.cred) /\ Due(owner[disk.id], req.began)
  /\ req.kind = "session" => owner[disk.id].signer \notin scene.revoked

\* What such a request knows: everything is the archive's at the path, and the time key
\* is the provider's half.
Welcome(stage) ==
  /\ stage # "refused"
  /\ stage \in {"inputs", "publicLock", "release", "receipt"} => req.route = PublicRoute(disk)
  /\ stage \in {"publicLock", "metadata", "inTime", "beacon"} => owner[disk.id].provider = "drand"
  /\ stage \in {"release", "receipt"} => owner[disk.id].provider = "aavrit"
  /\ stage = "inputs" => req.timeKey = None /\ req.meta = None
  /\ stage \in {"inTime", "beacon"} => req.meta = disk.keychain.plain
  /\ stage \in {"receipt", "open"} \cup Holding => req.timeKey = TimeKeyOf(owner[disk.id], disk.id)
  /\ stage = "open" /\ FromCapsule => req.meta = disk.keychain.plain
  /\ stage \in Holding => req.held = disk
  /\ stage = "gate" => owner[disk.id].provider # None
  /\ stage \in {"trust", "opened"} /\ req.kind = "session" => req.stat = disk

WelcomeInv ==
  pc \in OpeningStages \cup {"refused"} /\ req.kind \in {"decrypt", "session"} /\ Blameless => Welcome(pc)

\* What the archive at the path is to its owner.
LEMMA DiskIs ==
  ASSUME SureInv, pc \in OpeningStages, Blameless,
         NEW o, o = owner[disk.id], NEW i, i = disk.id, NEW c, c = req.cred
  PROVE  /\ i \in Ids /\ Whole(o, i, disk) /\ FitsOwner(o, i, c)
         /\ \E salt : disk = FileOf(o, salt, i) /\ (salt = i \/ Method(o) = "stream")
<1>1. disk # None /\ SceneInv /\ KnownInv
  BY DEF SureInv, EarlyInv, KnownInv, OwnInv, KindAt, Unmade, MakingStages, OpeningStages, Reading
<1>2. Owned(disk, scene, owner[Ours])
  BY <1>1 DEF KnownInv, OwnInv
<1> QED
  BY <1>1, <1>2, OwnedWhole DEF Blameless

LEMMA DiskRoute ==
  ASSUME SureInv, pc \in OpeningStages, Blameless,
         NEW o, o = owner[disk.id], NEW i, i = disk.id, NEW r, r = PublicRoute(disk)
  PROVE  /\ RouteInputs(r, req.cred)
         /\ r.provider = o.provider /\ (o.provider # None => r.unlock = o.unlock)
         /\ o.provider = "aavrit" => r.gated /\ r.escrow = EscrowFor(i, o.unlock) /\ r.escrow # None
<1>1. i \in Ids /\ Whole(o, i, disk) /\ FitsOwner(o, i, req.cred)
  BY DiskIs
<1>2. PICK salt : disk = FileOf(o, salt, i)
  BY DiskIs
<1>3. RouteInputs(r, req.cred)
  BY <1>1, <1>2, OwnersInputs
<1>4. /\ disk.tags.gated <=> o.provider = "aavrit"
      /\ disk.tags.escrow = (IF o.provider = "aavrit" THEN EscrowFor(i, o.unlock) ELSE None)
      /\ disk.tags.unlock = (IF o.provider = None THEN None ELSE o.unlock)
      /\ r.provider = o.provider /\ r.escrow = disk.tags.escrow /\ r.unlock = disk.tags.unlock
      /\ r.gated = disk.tags.gated
  BY <1>1, <1>2, RouteIs
<1>5. o.provider = "aavrit" => EscrowFor(i, o.unlock) # None /\ o.provider # None
  BY <1>1, StringsThere DEF Whole
<1> QED
  BY <1>3, <1>4, <1>5

LEMMA DiskMeta ==
  ASSUME SureInv, pc \in OpeningStages, Blameless,
         NEW o, o = owner[disk.id], NEW i, i = disk.id, NEW m, m = disk.keychain.plain
  PROVE  /\ m.id = i /\ m.provider = o.provider /\ m.unlock = o.unlock /\ m.timeHash = TimeKeyOf(o, i)
         /\ o.provider = "drand" => m.sealed = SealedTo(o.unlock, KeyOf(i)) /\ m.sealed # None
         /\ o.provider = "aavrit" => m.escrow = EscrowFor(i, o.unlock)
         /\ \A k : (o.provider = "aavrit" => k = KeyOf(i)) => UnlocksKeychain(disk, req.cred, k)
<1>1. i \in Ids /\ Whole(o, i, disk) /\ FitsOwner(o, i, req.cred)
  BY DiskIs
<1>2. PICK salt : disk = FileOf(o, salt, i)
  BY DiskIs
<1>3. m = MetaOf(o, salt, i)
  BY <1>2, FileIs
<1>4. /\ m.id = i /\ m.provider = o.provider /\ m.unlock = o.unlock /\ m.timeHash = TimeKeyOf(o, i)
      /\ m.sealed = (IF o.provider = "drand" THEN SealedTo(o.unlock, KeyOf(i)) ELSE None)
      /\ m.escrow = (IF o.provider = "aavrit" THEN EscrowFor(i, o.unlock) ELSE None)
  BY <1>1, <1>3, MetaIs DEF Whole, TimeKeyOf
<1>5. o.provider = "drand" => SealedTo(o.unlock, KeyOf(i)) # None
  BY <1>1, StringsThere DEF Whole
<1>6. \A k : (o.provider = "aavrit" => k = KeyOf(i)) => UnlocksKeychain(disk, req.cred, k)
  BY <1>1, <1>2, OwnersUnlock
<1> QED
  BY <1>4, <1>5, <1>6

LEMMA DiskPayload ==
  ASSUME SureInv, pc \in OpeningStages, Blameless,
         NEW o, o = owner[disk.id], NEW k, k = TimeKeyOf(o, disk.id)
  PROVE  /\ OpensPayload(disk, req.cred, k)
         /\ Opens(disk.payload, PayloadKey(disk, disk.keychain.plain, req.cred, k), disk.header)
         /\ disk.payload.plain = disk.keychain.plain.id
         /\ disk.signature.by = o.signer
<1>1. disk.id \in Ids /\ Whole(o, disk.id, disk) /\ FitsOwner(o, disk.id, req.cred)
  BY DiskIs
<1>2. PICK salt : disk = FileOf(o, salt, disk.id) /\ (salt = disk.id \/ Method(o) = "stream")
  BY DiskIs
<1>3. OpensPayload(disk, req.cred, k)
      /\ Opens(disk.payload, PayloadKey(disk, disk.keychain.plain, req.cred, k), disk.header)
  BY <1>1, <1>2, OwnersPayload, OwnersKey DEF TimeKeyOf
<1>4. disk.payload.plain = disk.id /\ disk.signature.by = o.signer
  BY <1>2, FileIs
<1>5. disk.keychain.plain.id = disk.id
  BY DiskMeta
<1> QED
  BY <1>3, <1>4, <1>5

-----------------------------------------------------------------------------
\* A step of the request that leaves the archive and what is asked for alone.
SameAsked ==
  /\ UNCHANGED <<scene, owner, disk>>
  /\ req'.kind = req.kind /\ req'.cred = req.cred /\ req'.began = req.began /\ req.excused \subseteq req'.excused

LEMMA BlamelessBefore == ASSUME SameAsked, Blameless' PROVE Blameless
<1>1. req.excused = {}
  BY DEF SameAsked, Blameless
<1> QED
  BY <1>1 DEF SameAsked, Blameless, FitsOwner, Due, RoundFor

LEMMA BlamelessStays == ASSUME SameAsked, Blameless, req'.excused = {} PROVE Blameless'
  BY DEF SameAsked, Blameless, FitsOwner, Due, RoundFor

LEMMA DueAlready ==
  ASSUME TimedInv, pc \in OpeningStages, Blameless, NEW o, o = owner[disk.id]
  PROVE  /\ IsOptions(o) /\ now \in Nat /\ req.began \in Nat /\ req.began <= now
         /\ o.provider # None => o.unlock <= req.began
         /\ o.provider = "drand" => Published(RoundFor(o.unlock))
<1>1. SureInv /\ req.began \in Nat /\ req.began <= now /\ now \in Nat
  BY DEF TimedInv, AskedInv, SureInv, EarlyInv, SceneInv
<1>2. IsOptions(o)
  BY <1>1, DiskIs DEF Whole
<1> QED
  BY <1>1, <1>2, DueBy DEF Blameless

\* The gates that ask the clock.
LEMMA WelcomeGates ==
  ASSUME TimedInv, WelcomeInv,
         CheckUnlockTime \/ CheckStillAhead \/ CheckNotTooFar \/ CheckPublicLock \/ PassGate
         \/ CheckAligned("aligned", "seal") \/ CheckAligned("inTime", "beacon")
  PROVE  WelcomeInv'
<1> SUFFICES ASSUME pc' \in OpeningStages \cup {"refused"}, req'.kind \in {"decrypt", "session"}, Blameless'
             PROVE  Welcome(pc)'
  BY DEF WelcomeInv
<1>0. SceneInv /\ KindAt /\ SureInv
  BY DEF TimedInv, SureInv, EarlyInv, KnownInv
<1>1. \A x : LET r == [req EXCEPT !.excused = x] IN
             /\ r.kind = req.kind /\ r.cred = req.cred /\ r.began = req.began /\ r.excused = x
             /\ r.route = req.route /\ r.meta = req.meta /\ r.timeKey = req.timeKey /\ r.held = req.held
             /\ r.stat = req.stat
  BY <1>0 DEF SceneInv, ReqFields
<1>2. req'.excused = {}
  BY DEF Blameless
<1> DEFINE Same == /\ req'.kind = req.kind /\ req'.route = req.route /\ req'.meta = req.meta
                   /\ req'.timeKey = req.timeKey /\ req'.held = req.held /\ req'.stat = req.stat
<1>3. ASSUME NEW stage, NEW next, CheckAligned(stage, next), next # "refused", stage \in {"aligned", "inTime"}
      PROVE  SameAsked /\ Same /\ pc = stage /\ pc' = next
  <2>1. pc' # "refused"
    BY <1>0, <1>2, <1>3, SkewNoted
  <2>2. PICK x : req' = [req EXCEPT !.excused = @ \cup x]
    BY <1>3 DEF CheckAligned
  <2> QED
    BY <1>1, <1>3, <2>1, <2>2 DEF CheckAligned, SameAsked, Requires, Goto
<1>4. CASE CheckPublicLock
  <2> DEFINE a == answer[Loop]
  <2>1. /\ pc = "publicLock" /\ pcOf[Loop] = "done" /\ calls = 0 /\ UNCHANGED <<scene, owner, disk>>
        /\ pc' = (IF Reached(a, req.route.unlock) THEN "metadata" ELSE "refused")
        /\ req' = IF a \in Failures /\ ~Reached(a, req.route.unlock) THEN [req EXCEPT !.excused = @ \cup {a}] ELSE req
    BY <1>4 DEF CheckPublicLock, Clocked, Requires, Goto, Asker, envVars
  <2>2. a \notin Failures /\ req' = req
    BY <1>1, <1>2, <2>1 DEF Reached
  <2>3. SameAsked /\ Same
    BY <2>1, <2>2 DEF SameAsked
  <2>4. pc \in OpeningStages /\ Blameless
    BY <2>1, <2>3, BlamelessBefore DEF OpeningStages, Reading
  <2>5. Welcome("publicLock")
    BY <2>1, <2>3, <2>4 DEF WelcomeInv
  <2>6. req.route = PublicRoute(disk) /\ owner[disk.id].provider = "drand"
    BY <2>5 DEF Welcome
  <2>7. req.route.unlock = owner[disk.id].unlock
    BY <1>0, <2>4, <2>6, DiskRoute, StringsThere
  <2>8. owner[disk.id].unlock \in Nat /\ owner[disk.id].unlock <= req.began
    BY <2>4, <2>6, DueAlready, StringsThere DEF IsOptions
  <2>9. a \in Nat /\ req.began \in Nat /\ req.began <= a
    BY <2>1, <2>2, AnswerInTime DEF ClockStages, Asker
  <2>10. Reached(a, req.route.unlock)
    <3> HIDE DEF a
    <3> QED
      BY <2>2, <2>7, <2>8, <2>9 DEF Reached
  <2> QED
    BY <2>1, <2>3, <2>6, <2>10 DEF Welcome, Holding, SameAsked
<1>5. CASE PassGate
  <2> DEFINE a == answer[Worker]
             u == req.held.keychain.plain.unlock
  <2>1. /\ pc = "gate" /\ pcOf[Worker] = "done" /\ UNCHANGED <<scene, owner, disk>>
        /\ pc' = (IF Reached(a, u) THEN "payload" ELSE "refused")
        /\ req' = IF a \in Failures /\ ~Reached(a, u) THEN [req EXCEPT !.excused = @ \cup {a}] ELSE req
    BY <1>5 DEF PassGate, Clocked, Requires, Goto, Asker, envVars
  <2>2. a \notin Failures /\ req' = req
    BY <1>1, <1>2, <2>1 DEF Reached
  <2>3. SameAsked /\ Same
    BY <2>1, <2>2 DEF SameAsked
  <2>4. pc \in OpeningStages /\ Blameless
    BY <2>1, <2>3, BlamelessBefore DEF OpeningStages, Reading
  <2>5. Welcome("gate")
    BY <2>1, <2>3, <2>4 DEF WelcomeInv
  <2>6. req.held = disk /\ req.timeKey = TimeKeyOf(owner[disk.id], disk.id)
    BY <2>5 DEF Welcome, Holding
  <2>7. u = owner[disk.id].unlock
    BY <1>0, <2>4, <2>6, DiskMeta
  <2>8. owner[disk.id].provider # None
    BY <2>5 DEF Welcome
  <2>9. u \in Nat /\ u <= req.began
    BY <2>4, <2>7, <2>8, DueAlready DEF IsOptions
  <2>10. a \in Nat /\ req.began \in Nat /\ req.began <= a
    BY <2>1, <2>2, AnswerInTime DEF ClockStages, Asker
  <2>11. Reached(a, u)
    <3> HIDE DEF a, u
    <3> QED
      BY <2>2, <2>9, <2>10 DEF Reached
  <2>12. pc' = "payload" /\ req'.held = disk' /\ req'.timeKey = TimeKeyOf(owner[disk.id], disk.id)'
    BY <2>1, <2>2, <2>6, <2>11 DEF TimeKeyOf
  <2> QED
    BY <2>12 DEF Welcome, Holding
<1>6. CASE CheckAligned("inTime", "beacon")
  <2>1. SameAsked /\ Same /\ pc = "inTime" /\ pc' = "beacon"
    BY <1>3, <1>6
  <2>2. Welcome("inTime")
    BY <2>1, BlamelessBefore DEF WelcomeInv, OpeningStages, Reading
  <2> QED
    BY <2>1, <2>2 DEF Welcome, Holding, SameAsked
<1>7. CASE CheckUnlockTime \/ CheckStillAhead \/ CheckNotTooFar \/ CheckAligned("aligned", "seal")
  <2>1. pc \in MakingStages
    BY <1>7 DEF CheckUnlockTime, CheckStillAhead, CheckNotTooFar, CheckAligned, Clocked, MakingStages
  <2>2. PICK x : req' = req \/ req' = [req EXCEPT !.excused = x]
    BY <1>7 DEF CheckUnlockTime, CheckStillAhead, CheckNotTooFar, CheckAligned, Clocked
  <2>3. req'.kind = req.kind
    BY <1>1, <2>2
  <2>4. req.kind = "create"
    BY <1>0, <2>1 DEF KindAt
  <2> QED
    BY <2>3, <2>4
<1> QED
  BY <1>4, <1>5, <1>6, <1>7

\* What a request knows before such a step.
LEMMA WelcomeBefore ==
  ASSUME TimedInv, WelcomeInv, pc \in OpeningStages, SameAsked, Blameless'
  PROVE  /\ Blameless /\ Welcome(pc) /\ SceneInv /\ SureInv
         /\ disk.id \in Ids /\ owner[disk.id].provider \in {None, "drand", "aavrit"}
         /\ req'.excused = {} /\ TimeKeyOf(owner[disk.id], disk.id)' = TimeKeyOf(owner[disk.id], disk.id)
<1>1. Blameless /\ SureInv /\ SceneInv /\ KindAt
  BY BlamelessBefore DEF TimedInv, SureInv, EarlyInv, KnownInv
<1>2. Welcome(pc)
  BY <1>1 DEF WelcomeInv, KindAt
<1>3. disk.id \in Ids
  BY <1>1, DiskIs
<1>4. owner[disk.id].provider \in {None, "drand", "aavrit"}
  BY <1>1, DueAlready DEF IsOptions
<1> QED
  BY <1>1, <1>2, <1>3, <1>4 DEF Blameless, SameAsked, TimeKeyOf

LEMMA SameAskedIs ==
  ASSUME SceneInv, Keeps, UNCHANGED disk
  PROVE  /\ req' = req => SameAsked
         /\ \A x : req' = [req EXCEPT !.meta = x] => SameAsked
         /\ \A x, y : req' = [req EXCEPT !.held = x, !.meta = y] => SameAsked
         /\ \A x, y : req' = [req EXCEPT !.opened = x, !.stat = y] => SameAsked
         /\ \A x, y : req' = [req EXCEPT !.route = x, !.timeKey = y] => SameAsked
         /\ \A x : req' = [req EXCEPT !.timeKey = x] => SameAsked
         /\ \A x : req' = [req EXCEPT !.opened = x] => SameAsked
         /\ \A x : req' = [req EXCEPT !.excused = @ \cup {x}] => SameAsked
  BY DEF SceneInv, ReqFields, SameAsked, Keeps

LEMMA WelcomeRoute == ASSUME TimedInv, ReadRoute PROVE WelcomeInv'
<1>1. /\ pc' = "inputs" /\ disk' = disk
      /\ \E k, c : req' = [NoRequest EXCEPT !.kind = k, !.began = now, !.cred = Credentials(c),
                                            !.route = PublicRoute(disk)]
  BY DEF ReadRoute, Goto
<1>2. req'.route = PublicRoute(disk) /\ req'.meta = None /\ req'.timeKey = None
  BY <1>1 DEF NoRequest
<1>3. PublicRoute(disk)' = PublicRoute(disk)
  BY <1>1 DEF PublicRoute
<1>4. Welcome(pc)'
  BY <1>1, <1>2, <1>3 DEF Welcome, Holding
<1> QED
  BY <1>4 DEF WelcomeInv

LEMMA WelcomeInputs == ASSUME TimedInv, WelcomeInv, CheckInputs PROVE WelcomeInv'
<1> SUFFICES ASSUME Blameless' PROVE Welcome(pc)'
  BY DEF WelcomeInv
<1> DEFINE o == owner[disk.id]
<1>0. SceneInv
  BY DEF TimedInv, SureInv, EarlyInv
<1>1. SameAsked
  BY <1>0, SameAskedIs DEF CheckInputs
<1>2. pc = "inputs" /\ pc \in OpeningStages /\ disk' = disk /\ req' = req /\ owner' = owner
  BY DEF CheckInputs, Keeps, OpeningStages, Reading
<1>3. Blameless /\ Welcome("inputs") /\ SureInv /\ o.provider \in {None, "drand", "aavrit"}
  BY <1>1, <1>2, WelcomeBefore
<1>4. req.route = PublicRoute(disk) /\ req.timeKey = None /\ req.meta = None
  BY <1>3 DEF Welcome
<1>5. RouteInputs(req.route, req.cred) /\ req.route.provider = o.provider
  BY <1>2, <1>3, <1>4, DiskRoute
<1>6. pc' = CASE o.provider = "drand" -> "publicLock" [] o.provider = "aavrit" -> "release" [] OTHER -> "open"
  BY <1>5 DEF CheckInputs, Requires, Goto
<1>7. PublicRoute(disk)' = PublicRoute(disk) /\ TimeKeyOf(o, disk.id)' = TimeKeyOf(o, disk.id) /\ o' = o
  BY <1>2 DEF PublicRoute, TimeKeyOf
<1>8. o.provider = None => TimeKeyOf(o, disk.id) = None
  BY DEF TimeKeyOf
<1>9. ~FromCapsule'
  BY <1>2, <1>4 DEF FromCapsule
<1> HIDE DEF o
<1>10. /\ pc' \in {"publicLock", "release", "open"}
       /\ pc' = "publicLock" => o.provider = "drand"
       /\ pc' = "release" => o.provider = "aavrit"
       /\ pc' = "open" => o.provider = None
  BY <1>3, <1>6
<1> QED
  BY <1>2, <1>4, <1>7, <1>8, <1>9, <1>10 DEF Welcome, Holding, o

LEMMA WelcomeMetadata == ASSUME TimedInv, WelcomeInv, ReadMetadata PROVE WelcomeInv'
<1> SUFFICES ASSUME Blameless' PROVE Welcome(pc)'
  BY DEF WelcomeInv
<1> DEFINE o == owner[disk.id]
<1>0. SceneInv
  BY DEF TimedInv, SureInv, EarlyInv
<1>1. SameAsked
  BY <1>0, SameAskedIs DEF ReadMetadata
<1>2. pc = "metadata" /\ pc \in OpeningStages /\ disk' = disk /\ owner' = owner
      /\ req' = [req EXCEPT !.meta = disk.keychain.plain]
  BY DEF ReadMetadata, Keeps, OpeningStages, Reading
<1>3. Blameless /\ Welcome("metadata") /\ SureInv
  BY <1>1, <1>2, WelcomeBefore
<1>4. o.provider = "drand"
  BY <1>3 DEF Welcome
<1>5. UnlocksKeychain(disk, req.cred, None) /\ disk.keychain.plain.provider = "drand"
  BY <1>2, <1>3, <1>4, DiskMeta
<1>6. pc' = "inTime"
  BY <1>5 DEF ReadMetadata, Requires, Goto
<1>7. req'.meta = disk'.keychain.plain
  BY <1>0, <1>2 DEF SceneInv, ReqFields
<1> QED
  BY <1>2, <1>4, <1>6, <1>7 DEF Welcome, Holding

LEMMA WelcomeBeacon == ASSUME TimedInv, WelcomeInv, AskBeacon PROVE WelcomeInv'
<1> SUFFICES ASSUME Blameless' PROVE Welcome(pc)'
  BY DEF WelcomeInv
<1> DEFINE o == owner[disk.id]  sealed == req.meta.sealed
<1>0. SceneInv
  BY DEF TimedInv, SureInv, EarlyInv
<1>1. /\ pc = "beacon" /\ pc \in OpeningStages /\ disk' = disk /\ owner' = owner /\ Keeps
      /\ \/ /\ BeaconOpens(sealed) /\ req' = [req EXCEPT !.timeKey = sealed.key]
            /\ Requires(req.kind = "session" \/ req.meta.timeHash \in {None, sealed.key}, "open")
         \/ ~BeaconOpens(sealed) /\ req' = req
         \/ req' = [req EXCEPT !.excused = @ \cup {"outage"}]
  BY DEF AskBeacon, Keeps, OpeningStages, Reading
<1>2. SameAsked
  BY <1>0, <1>1, SameAskedIs
<1>3. Blameless /\ Welcome("beacon") /\ SureInv /\ req'.excused = {}
  BY <1>1, <1>2, WelcomeBefore
<1>4. o.provider = "drand" /\ req.meta = disk.keychain.plain
  BY <1>3 DEF Welcome
<1>5. sealed = SealedTo(o.unlock, KeyOf(disk.id)) /\ sealed # None /\ req.meta.timeHash = TimeKeyOf(o, disk.id)
  BY <1>1, <1>3, <1>4, DiskMeta
<1>6. sealed.round = RoundFor(o.unlock) /\ sealed.key = KeyOf(disk.id)
  BY <1>5 DEF SealedTo
<1>7. BeaconOpens(sealed)
  BY <1>1, <1>3, <1>4, <1>5, <1>6, DueAlready DEF BeaconOpens
<1>8. TimeKeyOf(o, disk.id) = KeyOf(disk.id)
  BY <1>4, StringsThere DEF TimeKeyOf
<1>9. [req EXCEPT !.excused = @ \cup {"outage"}].excused # {}
  BY <1>0 DEF SceneInv, ReqFields
<1>10. req' = [req EXCEPT !.timeKey = sealed.key] /\ pc' = "open"
  BY <1>1, <1>3, <1>5, <1>6, <1>7, <1>8, <1>9 DEF Requires, Goto
<1>11. req'.timeKey = KeyOf(disk.id) /\ req'.meta = req.meta
  BY <1>0, <1>6, <1>10 DEF SceneInv, ReqFields
<1>12. TimeKeyOf(o, disk.id)' = TimeKeyOf(o, disk.id)
  BY <1>1 DEF TimeKeyOf
<1> QED
  BY <1>1, <1>4, <1>8, <1>10, <1>11, <1>12 DEF Welcome, Holding

LEMMA WelcomeEscrow == ASSUME TimedInv, WelcomeInv, ReleaseEscrow PROVE WelcomeInv'
<1> SUFFICES ASSUME Blameless' PROVE Welcome(pc)'
  BY DEF WelcomeInv
<1> DEFINE o == owner[disk.id]  r == PublicRoute(disk)
           route == IF req.kind = "decrypt" THEN PublicRoute(disk) ELSE req.route
<1>0. SceneInv /\ KindAt
  BY DEF TimedInv, SureInv, EarlyInv, KnownInv
<1>1. /\ pc = "release" /\ pc \in OpeningStages /\ disk' = disk /\ owner' = owner /\ Keeps
      /\ \/ /\ Releases(route) /\ req' = [req EXCEPT !.route = route, !.timeKey = KeyOf(route.escrow.id)]
            /\ pc' = IF req.kind = "decrypt" THEN "receipt" ELSE "open"
         \/ ~Releases(route) /\ req' = req
         \/ req' = [req EXCEPT !.excused = @ \cup {"outage"}]
  BY DEF ReleaseEscrow, Goto, Keeps, OpeningStages, Reading
<1>2. SameAsked
  BY <1>0, <1>1, SameAskedIs
<1>3. Blameless /\ Welcome("release") /\ SureInv /\ req'.excused = {}
  BY <1>1, <1>2, WelcomeBefore
<1>4. o.provider = "aavrit" /\ route = r
  BY <1>3 DEF Welcome
<1>5. r.unlock = o.unlock /\ r.gated /\ r.escrow = EscrowFor(disk.id, o.unlock) /\ r.escrow # None
  BY <1>1, <1>3, <1>4, DiskRoute, StringsThere
<1>6. r.escrow.id = disk.id /\ r.escrow.unlock = o.unlock
  BY <1>5 DEF EscrowFor
<1>7. o.unlock <= now
  <2>1. o.unlock \in Nat /\ o.unlock <= req.began /\ req.began \in Nat /\ req.began <= now /\ now \in Nat
    BY <1>1, <1>3, <1>4, DueAlready, StringsThere DEF IsOptions
  <2> QED
    BY <2>1
<1>8. Releases(route)
  <2>1. Releases(r)
    BY <1>5, <1>6, <1>7 DEF Releases
  <2> QED
    BY <1>4, <2>1
<1>9. [req EXCEPT !.excused = @ \cup {"outage"}].excused # {}
  BY <1>0 DEF SceneInv, ReqFields
<1>10. /\ req' = [req EXCEPT !.route = r, !.timeKey = KeyOf(disk.id)]
       /\ pc' = IF req.kind = "decrypt" THEN "receipt" ELSE "open"
  BY <1>1, <1>3, <1>4, <1>6, <1>8, <1>9
<1>11. req'.timeKey = KeyOf(disk.id) /\ req'.kind = req.kind /\ req'.route = r
  BY <1>0, <1>10 DEF SceneInv, ReqFields
<1>12. TimeKeyOf(o, disk.id)' = KeyOf(disk.id) /\ r' = r
  BY <1>1, <1>4, StringsThere DEF TimeKeyOf, PublicRoute
<1>13. pc' = "open" => ~FromCapsule'
  BY <1>10, <1>11 DEF FromCapsule
<1> QED
  BY <1>1, <1>4, <1>10, <1>11, <1>12, <1>13 DEF Welcome, Holding

LEMMA WelcomeReceipt == ASSUME TimedInv, WelcomeInv, CheckReceipt PROVE WelcomeInv'
<1> SUFFICES ASSUME Blameless' PROVE Welcome(pc)'
  BY DEF WelcomeInv
<1> DEFINE o == owner[disk.id]  m == disk.keychain.plain
<1>0. SceneInv
  BY DEF TimedInv, SureInv, EarlyInv
<1>1. SameAsked
  BY <1>0, SameAskedIs DEF CheckReceipt
<1>2. pc = "receipt" /\ pc \in OpeningStages /\ disk' = disk /\ owner' = owner
      /\ req' = [req EXCEPT !.meta = disk.keychain.plain]
  BY DEF CheckReceipt, Keeps, OpeningStages, Reading
<1>3. Blameless /\ Welcome("receipt") /\ SureInv
  BY <1>1, <1>2, WelcomeBefore
<1>4. o.provider = "aavrit" /\ req.route = PublicRoute(disk) /\ req.timeKey = TimeKeyOf(o, disk.id)
  BY <1>3 DEF Welcome
<1>5. TimeKeyOf(o, disk.id) = KeyOf(disk.id)
  BY <1>4, StringsThere DEF TimeKeyOf
<1>6. /\ UnlocksKeychain(disk, req.cred, req.timeKey) /\ m.timeHash = req.timeKey
      /\ m.escrow = EscrowFor(disk.id, o.unlock)
  BY <1>2, <1>3, <1>4, <1>5, DiskMeta
<1>7. req.route.escrow = EscrowFor(disk.id, o.unlock)
  BY <1>2, <1>3, <1>4, DiskRoute
<1>8. pc' = "open"
  BY <1>6, <1>7 DEF CheckReceipt, Requires, Goto, BoundToReceipt
<1>9. req'.meta = disk'.keychain.plain /\ req'.timeKey = req.timeKey
  BY <1>0, <1>2 DEF SceneInv, ReqFields
<1>10. TimeKeyOf(o, disk.id)' = TimeKeyOf(o, disk.id)
  BY <1>2 DEF TimeKeyOf
<1> QED
  BY <1>2, <1>4, <1>8, <1>9, <1>10 DEF Welcome, Holding

LEMMA WelcomeArchive == ASSUME TimedInv, WelcomeInv, OpenArchive PROVE WelcomeInv'
<1> SUFFICES ASSUME Blameless' PROVE Welcome(pc)'
  BY DEF WelcomeInv
<1> DEFINE o == owner[disk.id]  m == disk.keychain.plain
<1>0. SceneInv
  BY DEF TimedInv, SureInv, EarlyInv
<1>1. /\ pc = "open" /\ pc \in OpeningStages /\ disk' = disk /\ owner' = owner /\ Keeps
      /\ req' = [req EXCEPT !.held = disk, !.meta = IF FromCapsule THEN @ ELSE disk.keychain.plain]
  BY DEF OpenArchive, Keeps, OpeningStages, Reading
<1>2. SameAsked
  BY <1>0, <1>1, SameAskedIs
<1>3. Blameless /\ Welcome("open") /\ SureInv
  BY <1>1, <1>2, WelcomeBefore
<1>4. req.timeKey = TimeKeyOf(o, disk.id) /\ (FromCapsule => req.meta = m)
  BY <1>3 DEF Welcome
<1>5. o.provider = "aavrit" => TimeKeyOf(o, disk.id) = KeyOf(disk.id)
  BY StringsThere DEF TimeKeyOf
<1>6. UnlocksKeychain(disk, req.cred, req.timeKey) /\ m.provider = o.provider
  BY <1>1, <1>3, <1>4, <1>5, DiskMeta
<1>7. pc' = IF FromCapsule \/ o.provider = None THEN "payload" ELSE "gate"
  BY <1>4, <1>6 DEF OpenArchive, SameMetadata, Requires, Goto
<1>8. req'.held = disk /\ req'.timeKey = req.timeKey
  BY <1>0, <1>1 DEF SceneInv, ReqFields
<1>9. TimeKeyOf(o, disk.id)' = TimeKeyOf(o, disk.id)
  BY <1>1 DEF TimeKeyOf
<1> QED
  BY <1>1, <1>4, <1>7, <1>8, <1>9 DEF Welcome, Holding

LEMMA WelcomePayload == ASSUME TimedInv, WelcomeInv, OpenPayload PROVE WelcomeInv'
<1> SUFFICES ASSUME Blameless' PROVE Welcome(pc)'
  BY DEF WelcomeInv
<1> DEFINE o == owner[disk.id]
<1>0. SceneInv
  BY DEF TimedInv, SureInv, EarlyInv
<1>1. /\ pc = "payload" /\ pc \in OpeningStages /\ disk' = disk /\ owner' = owner /\ Keeps
      /\ req' = [req EXCEPT !.opened = [file |-> req.held, at |-> now],
                            !.stat = IF req.kind = "session" THEN disk ELSE None]
  BY DEF OpenPayload, Keeps, OpeningStages, Reading
<1>2. SameAsked
  BY <1>0, <1>1, SameAskedIs
<1>3. Blameless /\ Welcome("payload") /\ SureInv
  BY <1>1, <1>2, WelcomeBefore
<1>4. req.held = disk /\ req.timeKey = TimeKeyOf(o, disk.id)
  BY <1>3 DEF Welcome, Holding
<1>5. OpensPayload(req.held, req.cred, req.timeKey)
  BY <1>1, <1>3, <1>4, DiskPayload
<1>6. pc' = IF req.kind = "session" THEN "trust" ELSE "opened"
  BY <1>5 DEF OpenPayload, Requires, Goto
<1>7. /\ req'.held = disk /\ req'.timeKey = req.timeKey /\ req'.kind = req.kind
      /\ req.kind = "session" => req'.stat = disk
  BY <1>0, <1>1, <1>4 DEF SceneInv, ReqFields
<1>8. TimeKeyOf(o, disk.id)' = TimeKeyOf(o, disk.id)
  BY <1>1 DEF TimeKeyOf
<1> QED
  BY <1>1, <1>4, <1>6, <1>7, <1>8 DEF Welcome, Holding

LEMMA WelcomeCreator == ASSUME TimedInv, WelcomeInv, CheckCreator PROVE WelcomeInv'
<1> SUFFICES ASSUME Blameless' PROVE Welcome(pc)'
  BY DEF WelcomeInv
<1> DEFINE o == owner[disk.id]
<1>0. SceneInv /\ KindAt
  BY DEF TimedInv, SureInv, EarlyInv, KnownInv
<1>1. pc = "trust" /\ pc \in OpeningStages /\ disk' = disk /\ owner' = owner /\ Keeps /\ req' = req
  BY DEF CheckCreator, Keeps, OpeningStages, Reading
<1>2. SameAsked
  BY <1>0, <1>1, SameAskedIs
<1>3. Blameless /\ Welcome("trust") /\ SureInv
  BY <1>1, <1>2, WelcomeBefore
<1>4. req.held = disk /\ req.timeKey = TimeKeyOf(o, disk.id) /\ req.kind = "session" /\ req.stat = disk
  BY <1>0, <1>1, <1>3 DEF Welcome, Holding, KindAt
<1>5. req.held.signature.by = o.signer
  BY <1>1, <1>3, <1>4, DiskPayload
<1>6. o.signer \notin scene.revoked
  BY <1>3, <1>4 DEF Blameless
<1>7. pc' = "opened"
  BY <1>5, <1>6 DEF CheckCreator, Requires, Goto
<1>8. TimeKeyOf(o, disk.id)' = TimeKeyOf(o, disk.id)
  BY <1>1 DEF TimeKeyOf
<1> QED
  BY <1>1, <1>4, <1>7, <1>8 DEF Welcome, Holding

LEMMA WelcomeSession == ASSUME TimedInv, WelcomeInv, SelectFromSession \/ ReadSelection PROVE WelcomeInv'
<1> SUFFICES ASSUME Blameless' PROVE Welcome(pc)'
  BY DEF WelcomeInv
<1> DEFINE o == owner[disk.id]
<1>0. SceneInv /\ KindAt
  BY DEF TimedInv, SureInv, EarlyInv, KnownInv
<1>1. disk' = disk /\ owner' = owner /\ Keeps /\ pc \in OpeningStages
      /\ \E x : req' = [req EXCEPT !.opened = x]
  BY DEF SelectFromSession, ReadSelection, Keeps, OpeningStages, Reading
<1>2. SameAsked
  BY <1>0, <1>1, SameAskedIs
<1>3. Blameless /\ Welcome(pc) /\ SureInv
  BY <1>1, <1>2, WelcomeBefore
<1>4. req'.held = req.held /\ req'.timeKey = req.timeKey
  BY <1>0, <1>1 DEF SceneInv, ReqFields
<1>5. TimeKeyOf(o, disk.id)' = TimeKeyOf(o, disk.id)
  BY <1>1 DEF TimeKeyOf
<1>6. CASE SelectFromSession
  <2>1. req.held = disk /\ req.timeKey = TimeKeyOf(o, disk.id) /\ req.stat = disk
    BY <1>3, <1>6 DEF SelectFromSession, Welcome, Holding
  <2>2. pc' = "selected"
    BY <1>6, <2>1 DEF SelectFromSession, Requires, Goto
  <2> QED
    BY <1>1, <1>4, <1>5, <2>1, <2>2 DEF Welcome, Holding
<1>7. CASE ReadSelection
  <2>1. pc = "selected"
    BY <1>7 DEF ReadSelection
  <2>2. req.held = disk /\ req.timeKey = TimeKeyOf(o, disk.id)
    BY <1>3, <2>1 DEF Welcome, Holding
  <2>3. req.meta = disk.keychain.plain
    BY <1>3, <2>1, <2>2 DEF SureInv, HoldInv, Holding
  <2>4. /\ Opens(disk.payload, PayloadKey(req.held, req.meta, req.cred, req.timeKey), req.held.header)
        /\ disk.payload.plain = req.meta.id
    BY <1>1, <1>3, <2>2, <2>3, DiskPayload
  <2>5. pc' = "delivered"
    BY <1>7, <2>4 DEF ReadSelection, Requires, Goto
  <2> QED
    BY <2>5 DEF Welcome, Holding
<1> QED
  BY <1>6, <1>7

\* Making an archive, and what goes on around a request.
LEMMA WelcomeMaking ==
  ASSUME SceneInv, KindAt, BeginCreate \/ SealToRound \/ CreateEscrow \/ Create \/ Answer
  PROVE  WelcomeInv'
<1>1. CASE Create \/ Answer
  BY <1>1 DEF Create, Answer, Goto, WelcomeInv, OpeningStages, Reading
<1>2. CASE BeginCreate
  <2>1. req'.kind = "create"
    BY <1>2 DEF BeginCreate, NoRequest
  <2> QED
    BY <2>1 DEF WelcomeInv
<1>3. CASE SealToRound \/ CreateEscrow
  <2>1. req.kind = "create"
    BY <1>3 DEF KindAt, MakingStages, SealToRound, CreateEscrow
  <2>2. req'.kind = req.kind
    BY <1>3 DEF SealToRound, CreateEscrow, SceneInv, ReqFields
  <2> QED
    BY <2>1, <2>2 DEF WelcomeInv
<1> QED
  BY <1>1, <1>2, <1>3

LEMMA OthersLeave ==
  ASSUME AskClock \/ ClockWorks \/ BeginRefresh \/ Refreshing \/ RefreshAsks \/ RefreshTold
         \/ WarmUpStarts \/ WarmUpEnds \/ TimePasses \/ UNCHANGED vars
  PROVE  UNCHANGED <<pc, req, disk, owner, scene>>
BY DEF AskClock, ClockWorks, BeginRefresh, Refreshing, RefreshAsks, RefreshTold, WarmUpStarts, WarmUpEnds, TimePasses,
       vars, gateVars

LEMMA WelcomeOthers ==
  ASSUME SceneInv, WelcomeInv,
         Rekey \/ Swap \/ AskClock \/ ClockWorks \/ BeginRefresh \/ Refreshing \/ RefreshAsks \/ RefreshTold
         \/ WarmUpStarts \/ WarmUpEnds \/ TimePasses \/ UNCHANGED vars
  PROVE  WelcomeInv'
<1>1. \A x : [req EXCEPT !.excused = @ \cup {x}].excused # {}
  BY DEF SceneInv, ReqFields
<1>2. CASE Rekey
  <2>1. CASE pc = "ready"
    BY <1>2, <2>1 DEF Rekey, WelcomeInv, OpeningStages, Reading
  <2>2. CASE pc # "ready"
    BY <1>1, <1>2, <2>2 DEF Rekey, WelcomeInv, Blameless
  <2> QED
    BY <2>1, <2>2
<1>3. CASE Swap
  BY <1>1, <1>3 DEF Swap, WelcomeInv, Blameless
<1>4. ASSUME UNCHANGED <<pc, req, disk, owner, scene>> PROVE WelcomeInv'
  <2>1. Blameless' => Blameless
    BY <1>4 DEF Blameless, FitsOwner, Due, RoundFor
  <2>2. \A stage : Welcome(stage) => Welcome(stage)'
    BY <1>4 DEF Welcome, TimeKeyOf, PublicRoute, FromCapsule
  <2> QED
    BY <1>4, <2>1, <2>2 DEF WelcomeInv
<1> QED
  BY <1>2, <1>3, <1>4, OthersLeave

LEMMA WelcomeNext == ASSUME TimedInv, WelcomeInv, [Next]_vars PROVE WelcomeInv'
<1>1. SceneInv /\ KindAt
  BY DEF TimedInv, SureInv, EarlyInv, KnownInv
<1> QED
  BY <1>1, WelcomeGates, WelcomeRoute, WelcomeInputs, WelcomeMetadata, WelcomeBeacon, WelcomeEscrow, WelcomeReceipt,
     WelcomeArchive, WelcomePayload, WelcomeCreator, WelcomeSession, WelcomeMaking, WelcomeOthers DEF Next

\* The steps that open an archive do not refuse to make one.
LEMMA MadeOpening ==
  ASSUME SceneInv, KindAt,
         CheckInputs \/ ReadMetadata \/ AskBeacon \/ ReleaseEscrow \/ CheckReceipt \/ OpenArchive \/ OpenPayload
         \/ CheckCreator \/ SelectFromSession \/ ReadSelection \/ ReadRoute \/ Create \/ Answer
  PROVE  MadeOrExcused'
<1>1. CASE ReadRoute \/ Create \/ Answer
  BY <1>1 DEF ReadRoute, Create, Answer, Goto, MadeOrExcused
<1>2. CASE CheckInputs \/ ReadMetadata \/ AskBeacon \/ ReleaseEscrow \/ CheckReceipt \/ OpenArchive \/ OpenPayload
           \/ CheckCreator \/ SelectFromSession \/ ReadSelection
  <2>1. pc \in OpeningStages
    BY <1>2 DEF CheckInputs, ReadMetadata, AskBeacon, ReleaseEscrow, CheckReceipt, OpenArchive, OpenPayload,
                CheckCreator, SelectFromSession, ReadSelection, OpeningStages, Reading
  <2>2. req'.kind = req.kind
    BY <1>2 DEF CheckInputs, ReadMetadata, AskBeacon, ReleaseEscrow, CheckReceipt, OpenArchive, OpenPayload,
                CheckCreator, SelectFromSession, ReadSelection, SceneInv, ReqFields
  <2>3. req'.kind # "create"
    BY <2>1, <2>2 DEF KindAt
  <2> QED
    BY <2>3 DEF MadeOrExcused
<1> QED
  BY <1>1, <1>2

LEMMA MadeAround ==
  ASSUME TimedInv, MadeOrExcused, now' \in Nat, now <= now',
         Rekey \/ Swap \/ AskClock \/ ClockWorks \/ BeginRefresh \/ Refreshing \/ RefreshAsks \/ RefreshTold
         \/ WarmUpStarts \/ WarmUpEnds \/ TimePasses \/ UNCHANGED vars
  PROVE  MadeOrExcused'
<1>0. SceneInv
  BY DEF TimedInv, SureInv, EarlyInv
<1>1. \A x : LET r == [req EXCEPT !.excused = @ \cup {x}] IN
             r.kind = req.kind /\ r.began = req.began /\ req.excused \subseteq r.excused
  BY <1>0 DEF SceneInv, ReqFields
<1>2. CASE Rekey \/ Swap
  <2>1. UNCHANGED <<scene, pc>> /\ (req' = req \/ \E x : req' = [req EXCEPT !.excused = @ \cup {x}])
    BY <1>2 DEF Rekey, Swap
  <2> QED
    BY <1>1, <2>1, MadeOthers
<1>3. CASE UNCHANGED <<pc, req, disk, owner, scene>>
  BY <1>3, MadeOthers
<1> QED
  BY <1>2, <1>3, OthersLeave

LEMMA MadeNext == ASSUME TimedInv, MadeOrExcused, [Next]_vars PROVE MadeOrExcused'
<1>1. SceneInv /\ KindAt /\ now \in Nat
  BY DEF TimedInv, SureInv, EarlyInv, KnownInv, SceneInv
<1>2. now' \in Nat /\ now <= now'
  <2>1. ClockNext \/ UNCHANGED clockVars
    BY StepsOfTheClock DEF vars
  <2> QED
    BY <1>1, <2>1, ClockAround
<1> QED
  BY <1>1, <1>2, MadeGates, MadeSteps, MadeOpening, MadeAround DEF Next

\* A request is refused for a reason: an archive that may be made is made, and who has
\* the credentials of an archive that is due gets in, if the surroundings let him.
THEOREM RefusedOnlyWithReason == Spec => []RefusedWithReason
<1>1. Init => WelcomeInv /\ MadeOrExcused
  BY DEF Init, WelcomeInv, MadeOrExcused, OpeningStages, Reading
<1>2. Spec => [](WelcomeInv /\ MadeOrExcused)
  BY <1>1, WelcomeNext, MadeNext, AlwaysTimed, PTL DEF Spec
<1>3. TimedInv /\ WelcomeInv /\ MadeOrExcused => RefusedWithReason
  <2> SUFFICES ASSUME TimedInv, WelcomeInv, MadeOrExcused, pc = "refused", req.excused = {}, req.kind # "create"
               PROVE  \/ SecretOf(req.cred) # SecretOf(owner[disk.id]) \/ ~Fits(disk, req.cred)
                      \/ ~Due(owner[disk.id], req.began)
                      \/ req.kind = "session" /\ owner[disk.id].signer \in scene.revoked
    BY DEF RefusedWithReason, MadeOrExcused, MakerOf
  <2>1. req.kind \in {"decrypt", "session"}
    BY DEF TimedInv, SureInv, KnownInv, KindAt
  <2>2. ~Welcome(pc)
    BY DEF Welcome
  <2>3. ~Blameless
    BY <2>1, <2>2 DEF WelcomeInv
  <2> QED
    BY <2>3 DEF Blameless, FitsOwner, Fits, MakerOf
<1> QED
  BY <1>2, <1>3, AlwaysTimed, PTL
=============================================================================
