# guest-components in TLA+

guest-components is what runs inside a confidential guest: the **attestation
agent** (AA) proves to a remote key broker service (KBS) what the guest is, the
**confidential data hub** (CDH) obtains secrets with that proof and puts them to
use (resources, sealed secrets, encrypted images, encrypted volumes), **image-rs**
pulls container images, and a small REST server hands both services to the
containers.  This directory holds TLA+ modules translated from that code, TLC
configurations that check them on small instances, and proofs, checked by TLAPS,
that hold for every value of the constants.

## 1. Files

| file | contents |
|---|---|
| `EventLog.tla` | the agent's event log: WAL cache, measurement register, log file, recovery |
| `MeasuredLog.tla` | what the event log promises, on three variables |
| `EventLogProofs.tla` | theorems about `EventLog` |
| `ImagePull.tla` | image-rs: one client that pulls images into the layer store and the meta store |
| `RcarClient.tla` | kbs_protocol: the handshake client with its retries, against a KBS |
| `TokenClient.tla` | kbs_protocol: the hub's client, which gets its token from an agent (`EXTENDS RcarClient`) |
| `HubPull.tla` | the hub's start with its credentials, and image pulls measured through the agent |
| `RestClient.tla` | api-server-rest: routes and the shared, cached clients of agent and hub |
| `BlockDevice.tla` | the hub's secure mount of block devices (LUKS2 and ZFS) and its umount |
| `BlockDeviceProofs.tla` | theorems about `BlockDevice` |
| `ServicesProofs.tla` | theorems about `HubPull` and `RestClient` |
| `ImagePullProofs.tla` | theorems about `ImagePull` |
| `TokenClientProofs.tla` | theorems about `RcarClient` and `TokenClient` |
| `ImagePartsProofs.tla` | theorems about `ImageResources`, `ImageBundle`, `LayerStream`, `SignaturePolicy` and `RegistryTasks` |
| `LayerUnpackProofs.tla` | theorems about `LayerUnpack` |
| `KeyPartsProofs.tla` | theorems about `KeyProvider`, `SealedSecret`, `Attesters` and `KeyWrap` |
| `ImageReference.tla` | names of images and what is cut out of them (used by the next two) |
| `RegistryTasks.tla` | image-rs: mirrors, search registries, credentials |
| `SignaturePolicy.tla` | image-rs: the validator, simple signing and cosign |
| `ImageResources.tla` | image-rs: configuration, cached resources, `ClientBuilder::build` |
| `ImageBundle.tla` | image-rs: `config.json` of a bundle, dm-verity devices |
| `LayerStream.tla` | ocicrypt-rs' cipher, decompression and digest: the stream of one layer |
| `LayerUnpack.tla` | image-rs: the archive of a layer becomes a directory |
| `KeyWrap.tla` | ocicrypt-rs: recipients, key wrappers, packets |
| `KeyProvider.tla` | coco_keyprovider against the hub and the native key provider |
| `SealedSecret.tla` | the secret tool against the hub, with the KMS clients |
| `Attesters.tla` | the attesters, evidence and runtime measurements |
| `MC*.tla`, `*.cfg` | instances for TLC; a run is one `.cfg` with its `MC` module |
| `PROJECT.json` | components, runs, mutants, the map from definitions to source lines, findings, hazards, theorems |

`tlc -config eventlog_crash.cfg MCEventLog`, and likewise for the other runs;
`tlapm EventLogProofs.tla`, and likewise for the other `*Proofs` modules.  `MCServices`
puts `RestClient` and `HubPull` in one run and `MCParts` the ten modules from
`RegistryTasks` on, with the constants of `MCImages`, `MCKeys` and `MCAttesters`: they
share no state, so a behaviour of such a run is one of one component.

## 2. Inventory

Paths are relative to `src/`.  "State" is what a component keeps between two
operations.

### Attestation agent (`attestation-agent/attestation-agent`)

| part | state | operations | hard behaviour | what makes it right |
|---|---|---|---|---|
| service (`lib.rs`, `bin/`) | configuration, attester, `Option<Arc<Mutex<EventLog>>>` | init, get_token, get_evidence, extend_runtime_measurement, get_runtime_measurement, bind_init_data | handlers run concurrently and may be dropped at an await | an answer with success means the work is done |
| event log (`eventlog/`) | log file, WAL cache file, the register, offset of the writer | `EventLog::new` (recovery), `extend_entry` | killed between any two writes, failing device, writes through a descriptor without `O_APPEND` | log and register agree whenever the agent is at rest |
| tokens (`token/`) | none: a `KbsClient` per call | get_token of KBS and CoCoAS | retries of many requests inside a call of the hub with a shorter timeout | see RCAR client |
| init data, configuration | bound or read once at start | | precedence of sources | |
| attesters (`attester`) | the TEE's registers, report directories, the files of Gramine | detect_tee_type, evidence, extend, read back, pcr_to_ccmr, bind | requests share directories and files; a TPM is read in several sessions; indices are cut and renumbered | evidence is over the request's own data, and its log explains its registers |
| RCAR client (`kbs_protocol`) | cookie, token, TEE key pair, nonce | get_token, get_resource, handshake | lost answers, expiry, a KBS that restarts | evidence is bound to the session's nonce; attempts are bounded |
| token client (`kbs_protocol`) | token and key pair of the agent | get_resource with renewal | two fields renewed together | the token certifies the key pair that decrypts |
| key provider (`coco_keyprovider`), KBCs | none; keys in the KBS | wrap a layer key, register it with the KBS | the key is registered under one rendering of its name and written in the packet as another | the hub unwraps what it wraps |

### Confidential data hub (`confidential-data-hub`)

| part | state | operations | hard behaviour | what makes it right |
|---|---|---|---|---|
| hub (`hub.rs`) | image client behind `OnceCell<Mutex<_>>`, client of the agent in a `OnceCell`, credentials written at start | get_resource, unseal_secret, unwrap_key, secure_mount, pull_image | pull, then measure through the agent with a timeout of its own; what a OnceCell caches stays | an image that was pulled was measured |
| block devices (`storage/volume_type/blockdevice`, `storage/drivers`) | mappings, pools, headers in `/run`, mount points, links | real_mount, umount | several requests at once, each many commands that may fail, and a restart that forgets the objects | the mount point leads to the device asked for, whose data no other request destroys |
| Aliyun OSS (`storage/volume_type/aliyun`) | two stacked mounts | mount | the second command fails | |
| sealed secrets, image key packets, kms | credential files, the keys that kids name | seal, unseal, keygen, unwrap_key, get_secret | two versions, envelope and vault; settings, keys and credentials change between seal and unseal | unseal inverts seal; what was not signed by the kid's key is refused |

### image-rs and ocicrypt-rs

| part | state | operations | hard behaviour | what makes it right |
|---|---|---|---|---|
| pull (`image.rs`, `pull.rs`, `layer_store.rs`, `meta_store.rs`, `snapshots`) | layer directories, `meta_store.json`, mounts, two databases, the next index | `ClientBuilder::build`, `ImageClient::new`, pull_image | concurrent layers, mirrors, a pull that is dropped, a process that ends at any step | what the databases name is whole, was accepted, and survives |
| registries, credentials (`registry`, `auth`) | configuration | tasks of a reference, credential of a registry | order of mirrors, longest match, which credentials a registry is shown | a pull asks where the configuration sends it, and a credential stays with its registry |
| signature policy (`signature`) | the validator: policy, sigstore configuration | requirements of an image, their verdicts | most specific scope, conjunction; the tag may move while it is judged | no image runs that the policy refuses |
| resources, configuration (`config.rs`, `resource`, `builder.rs`) | cached files, the secure channel | get_resource, build | a crash inside a download, several readers of one file | a client whose configuration names a policy enforces a whole version of it |
| bundle, verity (`bundle.rs`, `verity`) | device mapper, mounts | create_runtime_config, mount and unmount an image block | one of three kernel calls fails | what is mounted is verified |
| layers (`stream`, `decrypt.rs`, `decoder.rs`) | the layer's directory | decrypt, decompress, hash, unpack | whiteouts, hard links and directory times in any order; verdicts that come only at the end of the stream | the directory is what the archive says, and the archive what was published |
| `ocicrypt-rs` | the wrappers of the process, the native channel | wrap and unwrap layer keys, AES-CTR with HMAC | several recipients and key wrappers | any recipient opens what was wrapped |

### api-server-rest

State: cached ttrpc clients of the agent and the hub.  Operations: the routes of
`router.rs`, each a call of one of them, repeated once when the connection was
closed locally.  Hard: handlers that share one cached client and replace it; a
call repeated that was carried out already.

### Interactions

A container asks the REST server or the hub over ttrpc; the hub asks the agent
for a token, the agent makes the RCAR handshake with the KBS, the hub asks the KBS
for the resource with the token and decrypts it with the agent's key pair
(`TokenClient`).  Image pulls run inside the hub, which asks the agent to extend
the runtime measurement when the pull has ended; the agent's event log measures
it (`EventLog`).  Inside a pull, image-rs reads its policy and credentials over a
channel (`ImageResources`), finds the places to ask (`RegistryTasks`), judges the
signatures (`SignaturePolicy`) and takes each layer through the cipher, the
decompressor and the archive (`LayerStream`, `LayerUnpack`), with a layer key that
ocicrypt-rs gets unwrapped (`KeyWrap`) by the hub (`KeyProvider`).  Keys of volumes
and layers are resources of the same KBS.

## 3. Modules and code

### EventLog

`eventlog/mod.rs` with its callers in `lib.rs`.  A measurement register is the
sequence of events extended into it; an entry of the log file is two cells, so
that a write can stop in between.

| module | code |
|---|---|
| `Start`, `Reread`, `Check`, `Reextend`, `Rehead`, `Retail`, `Reclean`, `RewriteFails`, `DeleteWal` | `EventLog::new`: open the log, seek to its end, read the WAL cache, then the register, parse the event and compare, extend again or not, write the entry at the recorded offset, remove the cache; the operator deletes a cache the agent does not start with |
| `Call`, `Lock`, `Return` | `extend_runtime_measurement`: the Mutex and its guard |
| `ReadPcr`, `CreateWal`, `FillHeader`, `FillEvent`, `ExtendPcr`, `WriteHead`, `WriteTail`, `CleanWal`, `LogFails` | the awaits and file operations of `extend_entry`, with their early returns |
| `Cancel`, `OrphanExtend` | the handler's future is dropped at an await; an extension already handed to a blocking thread goes on |
| `Crash` | the agent is killed; files and registers stay |

A WAL cache is torn while its header is not whole, which `read_wal_cache_from` refuses,
and short while its event is not: that one is read without an error, and `Cut` says what
the text of an event may read as when its end is missing (nothing, or other events).

`MeasuredLog` is the promise: an event is measured only when the log is complete,
then recorded, and only then answered.  `ImplementsMeasuredLog` is the refinement,
with `measured`, `logged` and `answered` read off the register, the complete
entries of the file and the history of answers.

### ImagePull

`ImageClient`, `PullClient`, `LayerStore`, `MetaStore` and what `stream` and
`overlay` do to the disk.  `Start` is building the client (`Builder` tells
`ClientBuilder::build`, which refuses to start on a layers directory it cannot
read, from `ImageClient::new`, which falls back to a default store).  A pull goes
through its tasks (`PullManifest`, `CheckSignature`, `CreateImageMeta`), its
layers, which interleave (`RequestBlob`, `NewPath`, `Unpack`, `UnpackEnds`), the
mount (`LayersPulled`, `Populated`) and the save, which truncates before it writes
(`SaveTruncates`, `SaveEnds`).  What the registry serves, which pairs the policy
accepts, and how blobs relate to diff ids are constants.  The history variable
`unsaved` tells the answers that a failed save has left out of the file.

### RcarClient and TokenClient

Session `n` of the KBS stands for its cookie, its nonce and its token.  A client
is a record of what `KbsClient` keeps and of where it is in `rcar_handshake`;
`Retry` and `HandshakeEnds` are the loop heads of `get_token` and `get_resource`
with their counters.  The KBS is external and does what the client relies on:
`Expire` and `KbsRestart` are its own steps, and each request may be refused or
its answer be lost after it was carried out.

`TokenClient` composes: a hub's call of the agent (`Ask`) starts a client of
`RcarClient` of its own, as `get_token` in the agent builds a new `KbsClient` with
a new key pair for each call; `CallTimesOut` is the hub's 50 s timeout, after
which the agent's work goes on.

### HubPull

`StartHub`, `FetchKey`, `FetchFails` and `Serve` are `Hub::new` with
`init_kbs_resources`: the credentials are fetched one after the other, and one
that cannot be fetched or written ends the start.  A pull is the sequence of
awaits of `pull_image`: the image client (made once, `GetClient`), its Mutex, the
pull of image-rs in one step (`ImagePull` has what happens inside), the connection
to the agent (`NoAgent`, `ConnectAgent`, `HasAgent`: a `OnceCell` that keeps what
it finds first), the extension with its 10 s timeout.  The agent extends in one
step (`EventLog` has what happens inside), also after the hub has stopped waiting
(`late`).

### RestClient

`Route` is `Router::route` up to its first await: refuse, or note which calls are
to be made.  `ReadClient`, `WriteClient` and `Connect` are `ensure_client` with its
RwLock, `Send`, `LocalClosed`, `DropClient`, `Disconnected` and `Refused` are
`call_with_retry`.  The clone of a client shares its connection, so `Down` turns
the cached client and every clone of it from live to dead.  That `LocalClosed`
means "never sent" is the contract of the ttrpc library the code relies on.

### BlockDevice

One object per request, as `Storage::mount` makes them; the actions are the
commands (`cryptsetup luksFormat` and `luksOpen`, `mkfs`, `zpool create` and
`import`, `zfs create` and `load-key`, mount) in the order of `real_mount` and its
drivers, each of which may fail, then `umount` with its four loops.  `Crash` is a
restart of the hub: objects are lost; headers, mappings, pools, mount points and
data stay.  The kernel is external: a mapping or pool name is taken once, a device
in use cannot be opened or formatted, mounts stack.  Two assumptions on callers:
nobody gives one mount point to two requests that are both active, and `umount` is
called on objects whose mount has succeeded (`Storage::mount` drops the others).

### What image-rs reads: ImageResources, RegistryTasks, SignaturePolicy

`ImageResources` is the configuration (`ConfigFails`, `FromKernelCmdline`) and
`ClientBuilder::build`, which reads credentials, sigstore configuration, policy and
registry rules in turn (`StartBuild`, `BuildReads`, `BuildTakesInline`,
`BuildTakesResource`, `BuildGetsNothing`, `BuildEnds`).  A call of `get_resource`
opens and writes a cached file step by step (`CallSteps`, `OpenFile`, `WriteFile`), at
the same time as validators read keys (`ReadKey`); a resource may be published anew
and the client may crash at any step.  `KbsFeature` is the build's.

`RegistryTasks`: `Configure` is `RegistryHandler::new` with `validate_and_tidy` and the
credentials, `Process` makes the tasks of a reference (`Unqualified`, `MatchedLength`,
`RuleFor`, `Redirected`, `Handle`; `Parse` in `ImageReference` gives a name without a
registry Docker's, and "library" to one without a namespace), `Try` is one round of
`pull_image` with the credential `credential_from_auth_config` finds.

`SignaturePolicy`: `NewValidator` and `CheckImage` are the validator and
`check_image_signature` up to the requirements of the most specific scope, then
`Accept`, `Reject`, `SimpleSigning` and, for cosign, `FetchPayloads` and
`JudgePayloads` meet them one by one.  `Retag` lets the registry move the name
between two requests.  What `ImagePull` keeps of these two are its constants
`TasksOf` and `Accepted`.

### What becomes of a layer: LayerStream, LayerUnpack, ImageBundle

`LayerStream` follows a layer from its publisher (`Publish`, `Encrypt`,
`EncryptRead`, `FinalizeLayer`) over a registry that serves something else
(`Damage`) to a pull (`OpenLayer`) or a decryption in memory (`OpenPlaintext`).  Each
`ReadBlock` goes through the cipher, the decompressor, the hasher and the archive
reader as far as they ask for it, which is the order in which the code's readers
contain each other; `EndOfStream` is where the HMAC and the digest are compared.

`LayerUnpack` takes one entry of the archive at a time, in any order (`Whiteout`,
`OpaqueDir`, `RootEntry`, `Directory`, `FileOrSymlink`, `HardLink`, `IllegalEntry`),
and `EndOfArchive` sets the times that were kept.  They are kept under the path as the
entry spells it, so that "d" and "d/" are two of them, and set in the order of a hash
map, which is any (`last` in `EndOfArchive`).  `attr` tells the extended attributes that
can be set: `is_attr_available` tries one of "user", an opaque directory needs one of
"trusted".  The directory is a function from
paths to inodes, so that hard links share what the code sets through either name.
`nodes` is a history of the inode each entry was unpacked to: which entry is the last
for a file depends on the names the file had when the entries were read, not on those
it has at the end.

`ImageBundle` is `create_runtime_config` and the mounting of a block device over
dm-verity, where each of the kernel's three calls may fail behind the others.  Mounts
stack: what is mounted at a path is a sequence of devices, the last of them in sight.

### Who opens a layer: KeyWrap, KeyProvider

`KeyWrap` is ocicrypt-rs in one process: `Register` fills `KEY_WRAPPERS` once,
`EncryptLayer` and `FinalizeNew` wrap a layer key for the recipients of a list,
`AddRecipients` adds some to an encrypted layer, `DecryptLayer` asks the wrappers in
every order a hash map may have, and `AddForeign` puts packets of other tools among
the layer's.

`KeyProvider`: `StartProvider` is the command line of coco_keyprovider, `Wrap`,
`WrapFails` and `WrapAnswerLost` its handler, with the key it takes, makes and registers
and the name it writes in the packet; in the last of them the KBS has the key although the
registration is answered with an error.  `UnwrapByHub` is `unwrap_key` of the hub,
`UnwrapNatively` the native key provider with the KBCs of the agent; `OwnerRegisters` and
`OtherTool` are the owner's keys and packets of version 1.

### SealedSecret

The owner's tool (`Keygen`, `Seal`), the guest (`BeginUnseal`, `VerifySecret`,
`AskProvider`, `OpenProvider`, `WriteUnsealed`), the hub or the tool doing the
unsealing, and what changes meanwhile: credential files, the keys behind a kid, the
versions of a vault's secret.  `ExportSettings` is what sealing
writes of the client's settings, which `AskProvider` makes a client of again.

### Attesters

`BootMachine` detects the platform and its devices (`DetectTeeType`); with an event log it
does not start on a platform without a hash for it (`CcelHashBlocks`).  A request for
evidence is a sequence of steps that depends on the attester: the TSM report directory
with its generation (`MakeReportDir`, `WriteInblob`, `ReadOutblob`, `CheckGeneration`),
the event log read after it (`ReadLog`), the TPM's quote and, in a second session, its
PCRs (`QuoteTpm`, `ReadAllPcrs`), the files of Gramine (`WriteUserData`, `ReadUserQuote`),
the certificate chain, the devices, or one call (`SnpReport`, `SeReport`, `CsvReport`,
...).  Registers are extended, logged and read back in between
(`ExtendRuntimeMeasurement`, `WriteEvent`, `GetRuntimeMeasurement`); an event names the
register of `init_pcr` in the log (`LogRegister`), whatever index was extended.  Report
data and digests are sequences of 16-byte blocks, so that what is padded, cut or hashed is
told apart.

## 4. Runs

| run | instance | what it shows |
|---|---|---|
| `eventlog_crash` | 2 clients, 2 events up to 3 times, the text of one cut short reading as the other, crash and failing reads, extensions and WAL operations | `ExtendIsAtomic`, `WalProtects`, `RecoveryDecides`, `ImplementsMeasuredLog`, `ServesAgain` |
| `eventlog_faults` | the same with up to 2 calls and all faults, failing log writes and dropped handlers included | `OnlyRequestedIsMeasured`, `RequestsEnd`: what is left of atomicity then |
| `eventlog_log_write_fails` | the write of the log may fail | `ExtendIsAtomic` is violated: the next request truncates the WAL cache that remembers the event |
| `image_faults` | 2 pulls out of 3 references with 4 places to ask, 6 manifests that share layers or a configuration, 2 layers at a time, all faults: crash, failing network, layers, roll-backs, mounts and saves, dropped pulls, stray directory entries | `StoredImagesAreRight`, `AnsweredIsSaved`, `LayersUnpackAlone`, `DatabasesAreTrue`, `MountsHoldTheirImage`, `RequestsEnd` |
| `image_reuse` | the same without faults | `StoredImagesMatchConfig` is violated: a layer that another image has brought is taken without a comparison with this image's diff id |
| `rcar_faults` | one client, 2 operations, at most 2 handshakes and 3 attempts, all faults | `HandshakesAreSound`, `NoNeedlessFailure`, `OperationsEnd` |
| `token_faults` | one hub, 2 resources, agent calls with clients of their own, timeouts and expiry | `TokenCertifiesKey`, `HubNoNeedlessFailure`, `GetsEnd` |
| `services_faults` | the REST server: 2 handlers, 3 requests out of 4, services that end and start, errors, timeouts, HTTP clients that go away; or the hub: 2 pulls at a time out of 3, 2 credentials, an agent that ends, starts late, does not answer or answers late, dropped pulls, a hub that restarts | `CarriedOutOnce`, `NoNeedlessFailure`, `RequestsEnd`; `PulledIsMeasured`, `ServesWithKeys`, `PullsEnd` |
| `mount_faults` | 2 requests at a time out of 10 that compete for devices, names, pools and headers; a device known under two paths | `TargetShowsItsDevice`, `DataIsKept`, `OnlyMountedIsServed`, `MountsEnd` |
| `mount_cleanup` | the same without faults | `UmountCleansUp` is violated: mapping and header stay after a successful umount |
| `parts` | the ten components below, one per behaviour | one property of each, two of the attesters |
| `evidence_crossed` | two requests for evidence at a time on the machines of `parts` | `EvidenceIsOfRequest` is violated: an SGX enclave under Gramine answers one request with evidence over the data of another |

The properties of `parts`:

| module | property | instance |
|---|---|---|
| `LayerUnpack` | `LayerIsArchive`: owner and time are those of the last entry, under any of its names (the time of a directory that of the last entry with one of the spellings of its name), the overlay shows what the archive means, and an archive in order is unpacked | up to 4 entries (`MaxEntries`) of 16, over a layer below, with all, some or no extended attributes |
| `LayerStream` | `StoredIsPublished`: nothing encrypted comes out before its HMAC was compared over the whole blob, and what is published as it should be is stored | archives of up to 3 blocks in each packing, one or two frames, a registry that drops, repeats or swaps blocks or changes the options |
| `SignaturePolicy` | `AllowedMeetsPolicy`: an image is allowed only when every requirement of the most specific scope is met for this manifest and this name | policies of each kind of scope and requirement, a tag that moves |
| `RegistryTasks` | `TriedAsConfigured`: tasks are those of the rules that say most of the image, in order, a task is passed over only for credentials of its own, and credentials stay with their registry | rules with prefixes, wildcards in both orders, mirrors, short locations, blocked, and credential files in all their key forms |
| `ImageResources` | `PolicyInUse`: a client whose configuration names a policy enforces a whole version of it | 2 readers, 2 versions (`MaxVersion`), crash at any step |
| `ImageBundle` | `MountsAreVerified`: what is mounted has an active device whose hash tree lies behind its data | sizes of blocks and offsets around the boundary (`MaxBlocks` 16) |
| `KeyWrap` | `RecipientsOpen`: each recipient opens, whatever other packets, keys and orders | up to 3 wraps, additions and decryptions (`MaxWraps`) |
| `KeyProvider` | `WrappedIsUnwrapped`: the hub finds in the KBS the key the packet names | 2 keys (`MaxKeys`), packets of both versions and of other tools |
| `SealedSecret` | `SealingRoundTrips`: nothing but what was sealed and signed comes out, and that does when its keys are in place | one secret (`MaxSealed`), 2 changes (`MaxChanges`) |
| `Attesters` | `EvidenceIsSound`: evidence is over its request's data, PCRs are the quote's or what followed, a log replays to the quote; `MeasurementHasExtensions`: what is extended under an index is read back under it | 13 machines of 11 platforms, with and without an event log, 2 requests, 2 extensions (`MaxExtends`) at indices 0, 8 and 264, with `init_pcr` 17 |

**Bounds, and why they are enough.**  `MaxCalls` is the number of requests of one event;
three of them with a crash between any two steps let recovery meet an entry before, at and
after the one it replays, and a second crash inside recovery. `MaxIndex` 5 with images of
at most two unique layers leaves gaps in the indices of the layer store and lets them be
used up after a restart.  `MaxSessions` 6 is more than two operations of two handshakes
can open, so that the bound never cuts off a retry.  The retry limits are those of the
code, one smaller in each case (2 for 3 to 5): first, last and a middle attempt occur
across the two operations.  Three requests for two handlers or two pulls let a third one
meet what the first two have left in the cached clients.  Two requests suffice for
`BlockDevice` because every conflict is between the object that holds a name, header or
device and one that wants it; the proofs are for any number.  In `parts` the inputs are
chosen by hand (`MCImages`, `MCKeys`, `MCAttesters`) so that each guard of the code is met
from both sides: four entries hold a directory, a file in it, a link to that and a
whiteout in every order; two extensions, a read and bound values are enough for a step
that comes before, between or after those of a request for evidence, and for two events of
one register or of two. `Few` in `MCAttesters` bounds the attesters further: nothing is
read back while evidence is made and, but by a TPM, no init data bound (neither changes what
the evidence of the others is made of), and two requests are made at a time only where they
share files.

**Fairness.**  `EventLog`: the agent is restarted when it ends, its steps and
those of its recovery are taken, and the Mutex of tokio is granted in order (SF of
`Lock`).  `ImagePull`: the pull under way is polled and the client is built again
after a crash.  `RcarClient`, `TokenClient`: requests are answered or time out
(60 s, and 50 s for the hub's call), and a sleep ends.  `HubPull`: a pull of image-rs
ends and the hub's timeout passes, but the agent need not answer.  `RestClient`: a
call is answered or times out, and the RwLock is granted in order.  `BlockDevice`: a
command that was started ends.  No failure, crash, expiry or cancellation is ever
fair, and nobody has to call.  `ServesAgain` therefore says "unless crashes or
failing recoveries repeat for ever, or a WAL cache that was not written to its end waits
for the operator"; a whole one that recovery could not place is no excuse.  The
ten modules of `parts` state safety only: their steps follow one another without
waiting for anybody.

**Deadlock** is not checked where the system may stop: every model ends when the
bounded number of calls has been made.

**Type invariants** are stated in the modules of the core and proved in their proof
modules (for `BlockDevice` as part of `IInv`), which is why no run checks them again.

**Mutants.**  Each property of a passing run has a mutant in the module it is
about, a definition such as `CheckNeverExtends` placed before the one it would
replace: the check that the property can fail at all.

## 5. Proofs

Each proof module names one inductive invariant for each group of theorems, built
of named parts; TLC has checked each of them on the instance of the module's run
before it was proved.  A proof has a lemma for each action or each part.

`EventLogProofs`:

- `TypeCorrect`: `Spec => []TypeOK`, under all faults.  The inductive invariant
  `TypeInv` adds who holds the Mutex (`Ownership`), that a WAL cache and a request
  carry an event (`Carriers`) and where the descriptor and the writer stand
  (`Positions`): without the last, a write behind the end of the file would leave
  a gap, and the file would be no sequence of cells.
- `Atomicity`, `WalIsEnough`, `RecoveryPlaces`: `Spec => []ExtendIsAtomic`,
  `[]WalProtects`, `[]RecoveryDecides`, each for an agent that is `Contained`: all
  requests name PCRs of the register recovery reads, no write of the log fails and no
  handler is dropped.  `RecoveryDecides` says that a whole WAL cache never meets the fatal
  error and that a short one, which does, is never replayed.  Each of these conditions is
  needed: recovery of an event of another register ends in the fatal error (section 6),
  `eventlog_log_write_fails` is what happens without the second, and a handler dropped
  between `ExtendPcr` and `WriteTail` releases the Mutex with the same effect as a failed
  write.  The invariant `AtomicInv` adds that the file is the log of a prefix of the
  register (`LogIsPrefix`), where recovery is (`RecoveryInv`) and where the request that
  holds the Mutex is (`RequestInv`), the others being bystanders. The two lemmas
  `WriteHeadOfLast` and `WriteTailOfLast` say that rewriting the last entry at its offset
  restores the log, whatever part of it was on file.
- `OnlyRequested`: `Spec => []OnlyRequestedIsMeasured`, under all faults, where the
  requests name PCRs of the register that recovery reads (`OneRegister`).  `CountInv`
  gives each call one extension: what the registers hold of an event, what the WAL
  cache may still have extended by recovery, and the requests that have yet to extend
  it are no more than its calls (`Counted`, `WalCounted`), and the file names only events
  that a register has, or what the text of one reads as when it is cut short
  (`LogIsMeasured`).  Without `OneRegister` it
  fails (section 6).
- `Refinement`: `Spec => ImplementsMeasuredLog` for an agent that is `Contained`: each
  step of the agent is a step of `MeasuredLog` or leaves its variables alone.
  `AnswerInv` adds to `AtomicInv` that what was answered is in the log.

`BlockDeviceProofs`:

- `Invariance`: `IInv` is inductive for any number of requests, parameters and
  devices.  Its parts: objects list only what their request asks for (`Own`),
  active requests have mount points of their own (`TargetsApart`), a request that
  has opened its device holds its mapping or pool, and no two hold one
  (`Held`, `HeldApart`), an answered request has its entry at its mount point
  (`Shown`), a header that is being used has one request (`Headers`), and only
  empty devices are formatted (`Formatting`).
- `TargetsAreRight`: `Spec => []TargetShowsItsDevice`.
- `DataIsSafe`: `Spec => []DataIsKept`.
- `ServedIsMounted`: `Spec => []OnlyMountedIsServed`.  `ServedInv` follows the entry of
  a request at its mount point: none before the answer and none after umount
  (`Unserved`), on top of the stack in between (`Topmost`), gone when the loop over
  the list that names it has ended (`TakenDown`), and always on one of the lists
  (`Listed`).

`ServicesProofs`.  Of `HubPull`, for any number of pulls and credentials: `HubTypeCorrect`,
`AnsweredIsMeasured` (`HubSpec => []PulledIsMeasured`) and `StartedWithKeys`
(`HubSpec => []ServesWithKeys`).  `Accounts` says of each pull what its place in
`pull_image` implies: whether it was pulled and measured, that it asks only a
connection the hub has had (`Ages`: the cell is filled once and dies once), and
that what the agent is still at belongs to a pull that was given up before it was
measured.  `Keys` says that in a start every credential not on `todo` is there.

Of `RestClient`, for any number of handlers: `TypeCorrect`, `CallsAreMadeOnce`
(`Spec => []CarriedOutOnce`) and `FaultlessAreServed`
(`Spec => []NoNeedlessFailure`).  The invariant is `Sound`, of one handler, the
cache and the services: a call is counted only behind its point of no repetition
(`Carried`); a handler that met no fault holds a live clone, or the dead one
others have left it, which it finds at most once, because after it has dropped the
client the cache holds none or one made since (`Unhurt`); and a failure is excused
by a fault or a refusal (`Excused`).  `OneHandler` is the lemma about the others:
a step that lets no connection die and ends no service leaves them sound.

`TokenClientProofs`, for any number of clients, hubs, operations, sessions and
attempts.  The bounds on sessions and operations are constants of any size.

- `RcarTyped`, `Soundness`: `Spec => []HandshakesAreSound`.  `RcarInv` says of a client
  at each point of the handshake that nonce, additional evidence and evidence are
  those of its cookie (`Challenge`), that sessions of its cookie and its token are
  attested for its key pair only (`Mine`), and how many handshakes its counters have
  left (`Counted`); and that no two clients hold one cookie (`OwnCookies`), without
  which another client's evidence could attest a session.
- `Succeeds`: `Spec => []NoNeedlessFailure`.  `AllSmooth`: an operation that nothing
  has disturbed is in a live session, and what it was refused once it is not refused
  again.
- `HubTyped`, `Certified` (`HubSpec => []TokenCertifiesKey`) and `HubSucceeds`
  (`HubSpec => []HubNoNeedlessFailure`): `HubInv` carries `RcarInv` through the agent's
  calls and adds what the hub holds of them (`HubGood`).

`Succeeds` and `HubSucceeds` assume `GetMaxAttempt > 1`: the first request after an
expiry is refused by design.  The code's constant is 3.

`ImagePullProofs`, for any references, manifests, policies and registries, any number
of concurrent layers and all faults:

- `PullTyped`, `AnswersAreRight` (`[]StoredImagesAreRight`), `AnswersAreKept`
  (`[]AnsweredIsSaved`).  `AnswerInv`: a pull acts only on a manifest that was accepted
  (`TaskInv`), a layer that is done was compared by this pull or an earlier one
  (`Checked`), and the file has what memory has, except while it could not be
  written (`Filed`).
- `LayersApart` (`[]LayersUnpackAlone`), `DatabasesTrue` (`[]DatabasesAreTrue`),
  `MountsTrue` (`[]MountsHoldTheirImage`), for a client that is `Indexed`: made by
  `ClientBuilder::build`, which the hub uses, or on a layers directory without stray
  entries.  Without it `ImageClient::new` starts on indices in use (section 6).
  `DiskInv` says that no directory at or behind the next index exists (`IndexInv`),
  what each future has made of its own (`FutureInv`) and that the databases are maps
  and images in order (`StoredInv`).

`ImagePartsProofs`:

- `PolicyEnforced`: `ResourcesSpec => []PolicyInUse`.  `ResInv`: a call of `get_resource`
  carries what was asked for under its URI, whole or torn as the file was, and once
  `build` is past the policy it has a whole one if the configuration names one.
- `MountsVerified`: `BundleSpec => []MountsAreVerified`, for all sizes, with the
  arithmetic of blocks, sectors and the start of the hash tree (`RoundedUp`,
  `Sectors`, `TableIsSound`).
- `StreamSound`: `StreamSpec => []StoredIsPublished`, for archives of any length and any
  number of frames.  `StreamInv`: what the HMAC was taken over is the blob as far as it
  was read, what came out of the cipher is what went in for a layer that is as
  published, and what reached the archive reader is the archive so far.

- `SignaturesMeetPolicy`: `SignatureSpec => []AllowedMeetsPolicy`, for names of any
  length over any `Parts`, any policies and any signatures.  `SigInv`: the requirements
  still to come are the end of those of the image's scope and all before them are met
  (`Progress`), and the payloads at hand are those of the requirement that is due
  (`JudgedByCosign`).  The lemmas are about names: what the names an image is looked up
  by are (`LookupFacts`: those that cover it, each of them, and in the order of
  how much they say, for which cuts of a name are counted and ordered), that the first of
  them that the policy has is therefore the scope meant (`RequirementsMeant`), and that
  what a rule for names accepts is of the name meant (`MatchIsOfName`, `NameIsParsed`).

- `TasksAsConfigured`: `TaskSpec => []TriedAsConfigured`, for names and prefixes of any
  length, any rules, lists of registries to search and credential files.  `TaskInv`: the
  tasks tried followed by those still to be tried are those the rules mean (`OnItsWay`),
  from `MatchedIsAnchored` (a prefix that is found only where it should be is matched
  exactly as far as it is meant to be, a domain's up to the end of the host) and
  `HandledTasks` (what a rule makes of a task is a list of tasks).  Which rules are meant
  (`MeantRules`) is said without the code's comparison of lengths: of two, the name before
  the domain, and the longer one.  What the code does not rule out is two hypotheses: that
  a prefix is found elsewhere (`RulesAreAnchored`), and that a rule comes before one it
  says more than though both match up to the same place (`RulesAreOrdered`; section 6).
  `KeysAreHome`, which needs no hypothesis: a key found for a name is a part of the name
  up to a separator, or has its host.

`LayerUnpackProofs`, for archives of any entries, in any order, over any layer:

- `LayersAreArchives`: `UnpackSpec => []LayerIsArchive`.  `EntriesInv` holds between two
  entries: which paths the directory has (`TreeInv`, where also no two paths share a
  directory), which of them are directories (`DirInv`), opaque (`OpaqueInv`), whiteouts
  (`WhiteoutInv`) and symbolic links (`SymlinkInv`), that an entry for a directory still
  is of it (`NodeInv`), and that everything has the owner of the last entry for it and
  its time, or for a directory the times kept for the end, one for each spelling
  (`TimesInv`, `OwnerInv`).  A
  step is proved in two halves: each of the entries does what `Unpacked` says, which no
  longer tells them apart (`WhiteoutAdvances` to `LinkAdvances`), and what `Unpacked`
  says keeps the invariant, part by part (`TreeStep` to `OwnerStep`).  `StepOfEnd` sets
  the times, `ShownIsMeant` reads the overlay off the invariant, and `OrderFacts` gives
  what an entry needs in an archive that is in order (`StepOfFailedEntry`).  The proof
  showed an earlier form of the property to be false, in which the last entry for a file
  was the last for one of the names it has at the end (section 6).

`KeyPartsProofs`:

- `LayersOpen`: `WrapSpec => []RecipientsOpen`, for any wrappers, keys, packets, key
  providers and bounds, whatever is wrapped, added and opened in whatever order.  A
  decryption is about the annotations there are now (`NoneDecrypted`: what
  changes them forgets it); a wrapper that can open one of its packets gives options
  (`OpenerUnwraps`), those asked before it are passed over, and so the first that is
  not passed over is one that opens (`FirstOpens`).
- `Unwrapped`: `ProviderSpec => []WrappedIsUnwrapped`.  The packet is the one made for
  the key (`PacketIsMade`), and the KBS has that key under its name for as long as
  nobody has registered another (`KeyIsThere`).
- `RoundTrips`: `SecretSpec => []SealingRoundTrips`, for any secrets, settings, keys and
  changes.  `SecretInv`: what is on its way from the check of a signature to the
  answer is what was signed (`IsSigned`, `OnItsWay`), a client of a cloud gives back
  what was encrypted with the settings it exports (`GivesItsData`), and what the tool
  has sealed is as it sealed it (`SealedAreSealed`).
- `Measured`: `AttestersSpec => []MeasurementHasExtensions`, on every platform, in any
  order of extensions, bindings and reading back.
- `EvidenceSound`: `AttestersSpec => []EvidenceIsSound`, for any number of requests,
  processes and extensions at a time.  `EvidInv` says what each request has in hand at
  each step, that the report directory holds the request's own data when it was written
  once only (`OwnReport`), and so does the file of Gramine when no other request is made
  meanwhile (`OwnFile`); the generation that `CheckGeneration` compares is what makes
  the former enough.  `LogInv`: on the platforms with a
  log in their evidence the events extended so far replay to the registers, digest by
  digest (`Tallied`), a quote has those up to the one it was made after
  (`QuoteIsExplained`), and the events a verifier finds before the first mark
  (`FirstMark`, by the least-number principle) are one for one the agent's (`LogIsRead`).
  That they also replay as the log names them needs requests of `init_pcr`'s register
  only (`AskedForInitPcr`; section 6).
  This theorem and
  `Measured` are about the attesters without the bounds of `Few`.

The constants' assumptions (`EventLogAssumption`, `BlockDeviceAssumption`,
`DiskAssumption`, `HubAssumption`, `RestAssumption`, `RcarAssumption`,
`ImagePullAssumption`, `ImageResourcesAssumption`, `ImageBundleAssumption`,
`StreamAssumption`, `PartsAssumption`, `SignatureAssumption`, `RegistryAssumption`,
`KeyWrapAssumption`, `AttestersAssumption`, `SealedSecretAssumption`, `UnpackAssumption`)
are what the definitions need to make sense, for instance that digests are sequences of
blocks and that `aliyun` and `aws` are the clouds there are; TLC evaluates them in every
run.

Only model-checked is liveness: fairness and ENABLED are outside the provers' reach.
Every invariant and action property of a passing run is stated by a theorem.

## 6. What the runs show about the code

The findings in `PROJECT.json` are disagreements between the code and a comment or
document: the failed write of the event log, the umount of a LUKS device, a layer taken
from another image without its diff id being compared, and evidence of one request over
the data of another under Gramine.  Further behaviour, read in the code while it was
modelled or met in a proof; where a document says otherwise it is named.  The
properties leave it open or are stated for the other cases.

**Event log and hub**

- Recovery looks at the register of `init_pcr` only (`eventlog/mod.rs:122-147`) while
  `extend_entry` extends the request's: after a crash in a request for another register
  recovery ends in the fatal error, and `RecoveryDecides` holds for requests of
  `init_pcr`'s register.  Where the two registers held the same events before, recovery
  takes the crash for one before the extension and extends its own register, so that
  one request is measured in both: `OnlyRequested` could not be proved without
  `OneRegister`.
- A WAL cache whose event was cut short, by a crash or a failing write of the agent
  itself, is read without an error and ends every start in the parse error or in the
  fatal error (`eventlog/mod.rs:138-142`), which blames the log file or other processes:
  the agent comes back only when somebody deletes the cache, which that message, unlike
  the one for a torn cache, does not ask for (`DeleteWal`, and the excuse in
  `ServesAgain`).
- A request is dropped, its blocking task extends all the same while the next request for
  the same event is at its WAL cache, and a crash leaves that short: recovery finds the
  register it expects and logs what the short text reads as, which `LogIsMeasured` allows.
- A handler of `extend_runtime_measurement` that is dropped after the register was
  extended leaves the log one event short, as the failed write does.
- The hub looks for the agent once.  If its socket is missing at the first pull,
  no pull is measured until the hub is restarted; and the connection is never
  renewed, so that after a restart of the agent every pull is answered with an
  error although the image was pulled.
- A handshake that fails inside get_resource ends the operation; the same failure
  inside get_token is retried.

**Pulling images**

- `ImageClient::new` on a layers directory with an entry whose name is no index
  falls back to a store whose layers are `./0`, `./1`, ... after every restart, so
  that layers a meta store names are overwritten (`Builder` FALSE with "stray" in
  `Faults`); `ClientBuilder::build`, which the hub uses, refuses to start.
- An image is looked up by the digest of its configuration before its manifest is
  judged: `StoredImagesAreRight` is about what the databases hold.
- The root filesystem of a pull that fails after the mount stays mounted.
- A pull with `max_concurrent_layer_downloads_per_image` 0 never ends and holds
  the client's Mutex.
- A rule's prefix matches anywhere in a reference, not only at the start of what
  `registry/mod.rs:34` calls the user-specified image name.
- Of the rules that match, the one whose match ends last is taken, and of several that end
  at the same place the last in the file (`registry/mod.rs:227-237`, `max_by_key`): a rule
  for "*.example.com" behind one for "reg.example.com" takes that registry's images over,
  with its mirrors, its location or its block.  No document gives an order; `TriedAsRulesSay`
  is about files in which a rule comes after those it says more than (`RulesAreOrdered`).
- What is left behind a match is put behind a mirror or location and read as a reference
  again: a mirror without a registry becomes Docker's, and what has no namespace there
  gets "library".
- The policy is asked for the name of the mirror's task, not for the name the user
  gave.  With cosign the payload of every layer of the signature image must match,
  though the key need have signed only one.  The default of `signedIdentity` is
  matchRepoDigestOrExact (`simple/mod.rs:49-52`) where `policy/mod.rs:70` says
  match-exact.
- While one reader downloads a resource another can be served the torn or empty file;
  a crash leaves it to the next start, which then fails on a policy that is no JSON.
- A zstd layer of several frames cannot be pulled, and encrypted zstd or docker types
  are not recognised as encrypted.
- A hard link to a symbolic link sets owner and time of the link's target; a whiteout for
  an entry that was already extracted fails; an opaque directory is skipped without
  extended attributes, whatever it is, and fails the layer where those of "user" can be
  set and those of "trusted" cannot; the owner and time of a hard link stay with its file
  also when a later entry replaces the link; a hard link to the device of a whiteout is a
  whiteout itself.
- The times of directories are kept under the path as it is spelled in the archive and set
  in the order of a hash map (`unpack.rs:384-386` and `450-461`): of two entries "d" and
  "d/" for one directory the earlier may set the time, and owner and mode come from the
  other.
- When the mount over dm-verity fails, the device stays and the same image cannot be
  mounted again; `exposedPorts` is written over a label of the same name.

**Keys and secrets**

- Recipients added to an encrypted layer come with a first packet without options, so
  that the layer may no longer open for the ones it had (`config.rs:186`: "Allow for
  adding wrapped keys to an encrypted layer").
- All wrappers that are registered must be configured or no layer can be encrypted; a
  provider configured with a command is never used through `KEY_WRAPPERS`; pgp, pkcs7
  and pkcs11 recipients are silently ignored; the native channel keeps the first KBC
  and KBS it was used with; a wrapper that fails with an error ends the search.
- The name coco_keyprovider makes up is no resource URI, which the packet of
  `annotation_packet/v2.rs:26` promises; such images are opened by tools that take the
  name as it is.  The answer of the KBS to a registration is not looked at; when it is lost, the
  KBS has the key and the image is not wrapped.  A random
  key that is not registered is lost, and a second image wrapped under the same name
  replaces the key of the first.  The algorithm is taken from `keypath`, so A256CTR
  cannot be chosen.  The `DecryptConfig` that ocicrypt-rs sends without parameters is
  refused.
- The tool cannot unseal a secret whose kid is a KBS URI, because it asks for
  AA_KBC_PARAMS before it sets them; envelope secrets of provider kbs can never be
  opened; a `keygen` that stopped between its two files cannot be repeated.

**Attesters**

- The PCRs of a TPM are read in a second session after the quote: an extension in between
  (of PCR 8 by bind_init_data, for a TPM extends no events) leaves PCRs that are not
  the quote's, but its and what followed (`PcrsFollow`).  An event that is extended and not
  yet written when the log is read is in the quote and not in the log (`late` in
  `EvidenceIsSound`).
- An event names the register of `init_pcr` in the log whatever index it was asked for
  (`eventlog/mod.rs:230`): with the default of 17, an extension at index 8 on TDX or CSV
  leaves a log that does not replay as it names its registers.  It replays under the indices
  that were asked for, which are not in it.
- The agent reads a register before it extends it: on az-tdx, which reads none back, no
  event can be extended.  Digests of events are made with the platform's hash and are of
  its register's length, so that the padding and cutting that `attester/src/lib.rs:220`
  speaks of is never met by the agent; the TPMs refuse other lengths.
- The comment on the TPM's report data says 64 bytes, the code keeps 32; SNP compares
  the first 32 bytes of an init-data digest; evidence for a CoCoAS token is asked for
  with empty report data.
- On the Azure vTPM an index is cut to a byte before it is checked, so that 264 would
  extend PCR 8, had the read before it not refused it; the digest of the init data is
  extended there anew at every start.
- `TpmAttester` has neither `pcr_to_ccmr` nor `ccel_hash_algorithm`: an agent whose
  platform is a TPM (or one of those that have neither) panics in `EventLog::new` when
  the event log is enabled, and so never extends an event.
- Extending on TDX in a build without sysfs and ioctl succeeds without an effect; a
  failure of the NVIDIA attester leaves its devices out of the evidence.

## 7. Not modelled, and why

- **Cryptography, parsing and formatting**: keys, digests, evidence and tokens are
  values that are equal or not; JSON, base64, protobuf and the text of errors are
  left out wherever no property depends on them.
- **Configuration of agent and hub, parsing of init data**: read once at the start,
  without a step in between that could interfere.  The configuration of image-rs, which
  decides whether there is a policy, is in `ImageResources`.
- **CoCoAS tokens, evidence providers, Aliyun OSS volumes**: one or two calls of another
  service without state of their own.
- **Requests to the cloud services**: their signing is left out, their answers and
  failures are in `SealedSecret`.
- **Key pairs and response decryption** (`kbs_protocol`): which key a response is for
  is kept, the algorithms are not.
- **Generated code** (`protos`), servers that only copy messages, test doubles.

`PROJECT.json` lists every component with its reason.

## 8. Plan

The order in which the modules were written is that of section 3: first what keeps
state over crashes and between actors, then what one actor decides.  The proofs
followed it.  Left is the composition of `HubPull` with `MeasuredLog`: the hub's
extension as a step of the abstract event log, so that "answered with success" leads
from the pull to the log file; and of `SignaturePolicy` with `ImagePull`, whose
`Accepted` is its verdict.
