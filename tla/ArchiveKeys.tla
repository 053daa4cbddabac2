---------------------------- MODULE ArchiveKeys -----------------------------
(***************************************************************************)
(* The keys of an archive, its keychain and its keyfile: what is derived    *)
(* from what (archive/security), what a new archive is sealed with          *)
(* (pipeline/multi_file_encoder.py), and which checks a reader makes before *)
(* it has the metadata and the payload (pipeline/keychain_security.py and   *)
(* multi_file_decoder.py).                                                  *)
(*                                                                         *)
(* Cryptography is perfect: a key is the record of what it was derived      *)
(* from, and a box opens with the key and the associated data it was sealed *)
(* with.  Everything random in one archive is named by one number.          *)
(***************************************************************************)
EXTENDS Naturals, FiniteSets

CONSTANT None

NoSecret == [pw |-> None, kp |-> None]
SecretOf(c) == [pw |-> c.pw, kp |-> c.kp]
HasUserSecret(s) == s # NoSecret

\* derive_argon2id_key and what derive_hierarchical_keys makes of it: a key for
\* every use, from one secret.
Key(use, secret, salt) ==
  [use |-> use, secret |-> secret, time |-> None, pqc |-> None, salt |-> salt]

\* combine_split_keys and derive_time_gated_metadata_key; the hybrid derivations.
WithTime(key, timeKey) == [key EXCEPT !.time = timeKey]
WithPqc(key, shared) == [key EXCEPT !.pqc = shared]

\* A key of two halves, the second one held by a provider, if there is one.
SplitKey(key, timeKey) == IF timeKey = None THEN key ELSE WithTime(key, timeKey)
HybridKey(key, shared) == IF shared = None THEN key ELSE WithPqc(key, shared)

TimeOnlyKey(timeKey, salt) == WithTime(Key("timeOnly", NoSecret, salt), timeKey)

\* AES-256-GCM, wherever it is used.
Seal(key, aad, plain) == [key |-> key, aad |-> aad, plain |-> plain]
Opens(box, key, aad) == box.key = key /\ box.aad = aad

-----------------------------------------------------------------------------
\* Post-quantum material: a key pair per archive, whose private half is in a
\* keyfile or in the archive, behind the archive's own secret.

\* create_pqc_archive_material: what belongs together has one key id.
PqcMaterial(id) == [keyId |-> id, ciphertext |-> id, private |-> id, shared |-> id]

\* decapsulate_pqc_archive_material: the bundle and the ciphertext have the id that
\* is expected, and the private half opens what is meant for it.
Decapsulates(private, bootstrap) ==
  bootstrap.keyId = bootstrap.ciphertext /\ private = bootstrap.ciphertext

KeyfileKey(secret, id) == Key("keyfile", secret, id)
EmbeddedKey(secret, id) == Key("embedded", secret, id)
OuterKey(kfpw, id) == Key("outer", [pw |-> kfpw, kp |-> None], id)

KeyfileAad(keyId) == <<"keyfile", keyId>>
EmbeddedAad(header, keyId) == <<"embedded", header, keyId>>

\* wrap_pqc_keyfile_document
Wrap(document, kfpw) == [document EXCEPT !.outer = OuterKey(kfpw, document.keyId)]

\* mutant of Unwraps: the second password is asked for and not used
UnwrapsAny(document, kfpw) == document.outer # None => kfpw # None

\* unwrap_pqc_keyfile_document
Unwraps(document, kfpw) ==
  document.outer # None => kfpw # None /\ document.outer = OuterKey(kfpw, document.keyId)

\* write_pqc_keyfile
KeyfileFor(opts, id) ==
  LET material == PqcMaterial(id)
      document == [keyId |-> material.keyId, outer |-> None,
                   inner |-> Seal(KeyfileKey(SecretOf(opts), id), KeyfileAad(id), material.private)]
  IN IF opts.pqc = "dual" THEN Wrap(document, opts.kfpw) ELSE document

\* read_pqc_keyfile
ReadKeyfile(document, c, bootstrap) ==
  /\ document # None
  /\ Unwraps(document, c.kfpw)
  /\ document.keyId = bootstrap.keyId
  /\ HasUserSecret(SecretOf(c))
  /\ Opens(document.inner, KeyfileKey(SecretOf(c), document.keyId), KeyfileAad(document.keyId))
  /\ Decapsulates(document.inner.plain, bootstrap)

\* build_embedded_pqc_blob: it is bound to the archive's header.
EmbeddedBlob(opts, id, header) ==
  LET material == PqcMaterial(id) IN
  [keyId |-> material.keyId,
   inner |-> Seal(EmbeddedKey(SecretOf(opts), id), EmbeddedAad(header, id), material.private)]

\* read_embedded_pqc_blob
ReadEmbedded(blob, c, bootstrap, header) ==
  /\ blob # None /\ blob.keyId = bootstrap.keyId
  /\ HasUserSecret(SecretOf(c))
  /\ Opens(blob.inner, EmbeddedKey(SecretOf(c), blob.keyId), EmbeddedAad(header, blob.keyId))
  /\ Decapsulates(blob.inner.plain, bootstrap)

\* pqc_storage_mode
StorageOf(opts) ==
  IF opts.pqc = None THEN None ELSE IF opts.pqc = "embedded" THEN "embedded" ELSE "external"

\* build_pqc_keychain_bootstrap: what anybody may read of it.
Bootstrap(opts, id) ==
  IF opts.pqc = None THEN None
  ELSE [keyId |-> id, storage |-> StorageOf(opts), ciphertext |-> PqcMaterial(id).ciphertext, id |-> id]

-----------------------------------------------------------------------------
\* Making.  A provider gives a new time capsule the key of its second half, and
\* what the archive keeps to get it back: drand, the key sealed to a round;
\* Aavrit, the route to an escrow of the authority.

\* What create_multi_file_avk accepts; the passwords' policies of services.py.
ValidOptions(opts) ==
  /\ opts.pqc # None => HasUserSecret(SecretOf(opts))
  /\ opts.pqc = "dual" => opts.kfpw # None /\ opts.kfpw # opts.pw
  /\ opts.message => HasUserSecret(SecretOf(opts)) \/ opts.provider # None

\* build_header_bytes: the same for every archive of a provider.
HeaderOf(opts) == [mode |-> "multi", provider |-> opts.provider]

\* attach_public_route_tags: what anybody may read.  Versions 1 and 2 say how
\* post-quantum material is stored by being what they are.
RouteTags(secret, storage, unlock, escrow) ==
  [version |-> IF escrow # None THEN 3 ELSE IF storage = "embedded" THEN 2 ELSE 1,
   password |-> secret.pw # None, keyphrase |-> secret.kp # None, pqc |-> storage # None,
   storage |-> IF storage = "embedded" \/ (escrow # None /\ storage # None) THEN storage ELSE None,
   unlock |-> unlock, escrow |-> escrow, gated |-> escrow # None]

\* extract_public_route_tags and parse_header: what a reader makes of them.
PublicRoute(file) ==
  LET tags == file.tags IN
  [provider |-> file.header.provider, mode |-> file.header.mode,
   password |-> tags.password, keyphrase |-> tags.keyphrase, pqc |-> tags.pqc,
   storage |-> IF tags.pqc /\ tags.version = 1 THEN "external" ELSE tags.storage,
   unlock |-> tags.unlock, escrow |-> tags.escrow, gated |-> tags.gated]

\* The key of the keychain: from the secret, then the release key if the route
\* says so, then the post-quantum secret.
KeychainKey(secret, gatedBy, shared, salt) ==
  HybridKey(SplitKey(Key("keychain", secret, salt), gatedBy), shared)

PublicKey == Key("public", NoSecret, None)

\* The key that wraps, or is, the payload's.
AccessKey(secret, timeKey, shared, salt) ==
  HybridKey(SplitKey(Key("payload", secret, salt), timeKey), shared)

-----------------------------------------------------------------------------
\* validate_cascade_metadata_dict: the provider's fields exclude each other,
\* post-quantum fields go together, and only an encrypted payload has a wrapped key.
ProviderFields(meta) ==
  /\ meta.provider = "aavrit" => meta.escrow # None /\ meta.sealed = None
  /\ meta.provider = "drand" => meta.escrow = None /\ meta.sealed # None
  /\ meta.provider = None => meta.escrow = None /\ meta.sealed = None

PqcFields(meta) == meta.storage = None <=> meta.keyId = None

WrappedPayloadKey(meta) == meta.wrapped # None => meta.method # "plaintext"

ValidMetadata(meta) ==
  /\ meta.method \in {"stream", "timekey", "plaintext"}
  /\ ProviderFields(meta) /\ PqcFields(meta) /\ WrappedPayloadKey(meta)

\* build_archive_signature_manifest: what both signatures commit to.
Manifest(file) ==
  [header |-> file.header, core |-> <<file.tags, file.keychain, file.bootstrap>>,
   payload |-> file.payload, blob |-> file.blob, id |-> file.id]

\* sign_and_attach_archive_manifest
Sign(file, identity) == [file EXCEPT !.signature = [by |-> identity, over |-> Manifest(file)]]

\* verify_archive_signature: all but the payload, which is yet to be read.
VerifySignature(file) ==
  /\ file.signature # None
  /\ [file.signature.over EXCEPT !.payload = None] = [Manifest(file) EXCEPT !.payload = None]

SignedPayload(file) == file.payload = file.signature.over.payload

-----------------------------------------------------------------------------
\* create_multi_file_avk, from the options, the provider's material (timeKey,
\* sealed, escrow) and a fresh number.
Method(opts) ==
  IF HasUserSecret(SecretOf(opts)) THEN "stream"
  ELSE IF opts.provider # None THEN "timekey" ELSE "plaintext"

Metadata(opts, given, id) ==
  LET secret == SecretOf(opts)
      shared == IF opts.pqc = None THEN None ELSE PqcMaterial(id).shared
  IN [id |-> id, salt |-> id, provider |-> opts.provider, unlock |-> opts.unlock,
      method |-> Method(opts), keyphrase |-> secret.kp # None,
      wrapped |-> IF Method(opts) = "stream"
                  THEN Seal(AccessKey(secret, given.timeKey, shared, id), HeaderOf(opts), Key("dek", NoSecret, id))
                  ELSE None,
      timeHash |-> given.timeKey, sealed |-> given.sealed, escrow |-> given.escrow,
      storage |-> StorageOf(opts), keyId |-> shared, message |-> opts.message]

\* What seals the keychain is bound to the header and to the public bootstrap.
KeychainAad(header, bootstrap) == <<header, bootstrap>>

\* encode_metadata_to_chess_enhanced: without a secret and a gate it is public.
Enclose(meta, secret, gatedBy, bootstrap, header) ==
  IF ~HasUserSecret(secret) /\ gatedBy = None THEN Seal(PublicKey, None, meta)
  ELSE Seal(KeychainKey(secret, gatedBy, meta.keyId, meta.salt), KeychainAad(header, bootstrap), meta)

\* The key of the payload itself.
DataKey(opts, given, id) ==
  CASE Method(opts) = "stream" -> Key("dek", NoSecret, id)
    [] Method(opts) = "timekey" -> TimeOnlyKey(given.timeKey, id)
    [] Method(opts) = "plaintext" -> PublicKey

Build(opts, given, id) ==
  LET header == HeaderOf(opts)
      gatedBy == IF opts.provider = "aavrit" THEN given.timeKey ELSE None
      unlock == IF opts.provider = None THEN None ELSE opts.unlock
      file == [id |-> id, header |-> header,
               tags |-> RouteTags(SecretOf(opts), StorageOf(opts), unlock, given.escrow),
               bootstrap |-> Bootstrap(opts, id),
               keychain |-> Enclose(Metadata(opts, given, id), SecretOf(opts), gatedBy,
                                    Bootstrap(opts, id), header),
               blob |-> IF opts.pqc = "embedded" THEN EmbeddedBlob(opts, id, header) ELSE None,
               payload |-> Seal(DataKey(opts, given, id), header, id), signature |-> None]
  IN Sign(file, opts.signer)

-----------------------------------------------------------------------------
\* Reading.

\* _validate_public_route_inputs
RouteInputs(route, c) ==
  /\ route.password => c.pw # None
  /\ route.keyphrase => c.kp # None
  /\ route.pqc /\ route.storage # "embedded" => c.keyfile # None

\* What the reader of a keychain gets to with its credentials: the post-quantum
\* secret, or None if there is none to get.
PqcResolved(file, c) ==
  LET boot == file.bootstrap  route == PublicRoute(file) IN
  boot = None \/
  /\ route.pqc /\ route.storage = boot.storage
  /\ IF boot.storage = "embedded"
     THEN ReadEmbedded(file.blob, c, boot, file.header)
     ELSE file.blob = None /\ ReadKeyfile(c.keyfile, c, boot)

SharedOf(file) == IF file.bootstrap = None THEN None ELSE PqcMaterial(file.bootstrap.keyId).shared

\* decode_chess_to_metadata_enhanced: the key is derived from whatever the caller
\* has; a public envelope needs none.
DecodesWith(file, c, timeKey) ==
  \/ file.keychain.key = PublicKey
  \/ /\ file.tags.gated => timeKey # None
     /\ HasUserSecret(SecretOf(c)) \/ file.tags.gated
     /\ Opens(file.keychain,
              KeychainKey(SecretOf(c), IF file.tags.gated THEN timeKey ELSE None,
                          SharedOf(file), file.keychain.plain.salt),
              KeychainAad(file.header, file.bootstrap))

\* _validate_aavrit_route_binding
BoundToRoute(file, meta) == meta.escrow = file.tags.escrow /\ (meta.escrow # None => file.tags.gated)

\* _validate_metadata_bootstrap_binding
BoundToBootstrap(file, meta) ==
  file.bootstrap # None =>
    meta.keyId = file.bootstrap.keyId /\ meta.storage = file.bootstrap.storage

\* _validate_signed_metadata_binding, and the number in the bootstrap
BoundToSignature(file, meta) ==
  /\ file.signature.over.id = meta.id
  /\ file.bootstrap # None => file.bootstrap.id = file.signature.over.id

\* validate_metadata_against_header
BoundToHeader(file, meta) == meta.provider = file.header.provider

\* unlock_archive_keychain: without the time lock, which needs a clock.
UnlocksKeychain(file, c, timeKey) ==
  LET meta == file.keychain.plain IN
  /\ PqcResolved(file, c)
  /\ DecodesWith(file, c, timeKey)
  /\ ValidMetadata(meta)
  /\ BoundToBootstrap(file, meta) /\ BoundToRoute(file, meta)
  /\ VerifySignature(file) /\ BoundToSignature(file, meta)
  /\ BoundToHeader(file, meta)

\* open_indexed_archive_metadata and extract_multi_file_avk: the payload's key.
PayloadKey(file, meta, c, timeKey) ==
  LET access == AccessKey(SecretOf(c), timeKey, SharedOf(file), meta.salt) IN
  CASE meta.method = "plaintext" -> PublicKey
    [] meta.method = "timekey" -> TimeOnlyKey(timeKey, meta.salt)
    [] meta.method = "stream" ->
         IF Opens(meta.wrapped, access, file.header) THEN meta.wrapped.plain ELSE None

OpensPayload(file, c, timeKey) ==
  LET meta == file.keychain.plain IN
  /\ meta.method = "timekey" => timeKey # None
  /\ meta.keyphrase => c.kp # None
  /\ meta.storage # "embedded" => file.blob = None
  /\ Opens(file.payload, PayloadKey(file, meta, c, timeKey), file.header)
  /\ file.payload.plain = meta.id /\ SignedPayload(file)

-----------------------------------------------------------------------------
\* rekey_avk_archive

CanRekey(file, old, new, signer) ==
  LET meta == file.keychain.plain IN
  /\ HasUserSecret(SecretOf(old)) /\ HasUserSecret(SecretOf(new))
  /\ UnlocksKeychain(file, old, None)
  /\ meta.method # "plaintext" /\ meta.provider = None
  /\ meta.storage = None /\ file.blob = None /\ meta.wrapped # None
  /\ Opens(meta.wrapped, AccessKey(SecretOf(old), None, None, meta.salt), file.header)
  /\ file.signature.by # None => signer = file.signature.by
  /\ SignedPayload(file)

\* mutant of Rekeyed: the payload key stays wrapped as it was
RekeyedKeychainOnly(file, new, signer, salt) ==
  LET old == file.keychain.plain
      meta == [old EXCEPT !.keyphrase = SecretOf(new).kp # None]
  IN Sign([file EXCEPT !.keychain = Enclose(meta, SecretOf(new), None, None, file.header),
                       !.tags = RouteTags(SecretOf(new), None, None, None)], signer)

\* The payload stays as it is; its key is wrapped anew, and the keychain sealed.
Rekeyed(file, new, signer, salt) ==
  LET old == file.keychain.plain
      meta == [old EXCEPT !.salt = salt, !.keyphrase = SecretOf(new).kp # None,
                 !.wrapped = Seal(AccessKey(SecretOf(new), None, None, salt), file.header, @.plain)]
  IN Sign([file EXCEPT !.keychain = Enclose(meta, SecretOf(new), None, None, file.header),
                       !.tags = RouteTags(SecretOf(new), None, None, None)], signer)
=============================================================================
