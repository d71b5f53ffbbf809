----------------------------- MODULE KeyProvider -----------------------------
(***************************************************************************)
(* The key of an encrypted image on its way: wrapped by coco_keyprovider   *)
(* with a key-encryption key (KEK) that it takes or makes, registers with  *)
(* the KBS and names in the annotation packet; unwrapped in the guest by   *)
(* the hub (image, kms) or by the KBCs built into ocicrypt-rs (kbc), which *)
(* ask for the key by that name.                                           *)
(*                                                                         *)
(* Keys are numbers; what is wrapped is a record of key, iv and algorithm. *)
(* The KBS is external, and so are the cloud KMSs, which only the packets  *)
(* of other tools name.                                                    *)
(***************************************************************************)
EXTENDS Naturals, Sequences, SequencesExt, FiniteSets, TLC

CONSTANTS
  WrapRequests,   \* requests to coco_keyprovider
  KekFiles,       \* a function from the files of keys to keys
  OfflineStores,  \* what offline_fs_kbc reads: sequences of files
  OtherPackets,   \* packets coco_keyprovider did not make
  KmsFeatures,    \* the KMS clients built: "aliyun", "aws"
  MaxKeys         \* bound: keys made

\* A key identifier: a URI, or a bare path ("/a/b/c" or "host/a/b/c").
Kid(form, host, plugin, path) == [form |-> form, host |-> host, plugin |-> plugin, path |-> path]
NotGiven == ""   \* in a packet or a request
NoKid == Kid("none", NotGiven, NotGiven, <<>>)

HARDCODED_KEY == 0
HARD_CODED_KEYID == Kid("uri", NotGiven, "resource", <<"default", "test-key", "1">>)

VARIABLES
  provPc,      \* "begin", "serving", "failed"
  provider,    \* KeyProvider: the address of the KBS, and whether there is a key for it
  kbsKeys,     \* the KBS: a function from plugins and paths to keys
  packet,      \* the annotation packet of the image
  made,        \* history: the request the packet was made for, and its key
  newKeys,     \* history: the keys made so far
  unwrapped    \* the last answer: how it was asked for, and the options or an error

provVars == <<provPc, provider, kbsKeys, packet, made, newKeys, unwrapped>>

\* What coco_keyprovider writes: the fields that only version 2 of a packet has are left out.
Packet(kid, wrapped, iv, alg) ==
  [version |-> NotGiven, kid |-> kid, wrapped |-> wrapped, provider |-> NotGiven, iv |-> iv, wrap_type |-> alg,
   settings |-> FALSE]
NoPacket == Packet(NoKid, <<>>, 0, NotGiven)
NothingMade == [sample |-> FALSE, key |-> 0, registered |-> FALSE, kid |-> NoKid]
NotUnwrapped == [kbc |-> NotGiven, given |-> FALSE, data |-> "none"]

ProviderInit ==
  /\ provPc = "begin"
  /\ provider = [kbs |-> "none", key |-> FALSE]
  /\ kbsKeys = <<>>
  /\ packet = NoPacket
  /\ made = NothingMade
  /\ newKeys = 0
  /\ unwrapped = NotUnwrapped

\* KeyProvider::new: an address that cannot be parsed is no address.
NewKeyProvider(kbs, key) == [kbs |-> IF kbs = "illegal" THEN "none" ELSE kbs, key |-> key = "key"]

StartProvider(kbs, key) ==
  /\ provPc = "begin"
  /\ IF key = "illegal"
     THEN provPc' = "failed" /\ UNCHANGED provider
     ELSE /\ provPc' = "serving"
          /\ provider' = NewKeyProvider(kbs, key)
  /\ UNCHANGED <<kbsKeys, packet, made, newKeys, unwrapped>>

-----------------------------------------------------------------------------
(* Wrapping *)

\* The handler: what of the request is missing or cannot be decoded; parameters that
\* are not base64 are left out, and the first that remains is the one.
LegalRequest(r) == /\ r.json /\ r.optsdata = "opts" /\ r.ec
                   /\ r.params # <<>> /\ Head(r.params).base64

\* parse_input_params: the algorithm is parsed from the value of "keypath".
AlgorithmOf(p) == IF p.keypath = "A256CTR" THEN "A256CTR" ELSE "A256GCM"
IsSample(p) == p.sample = "true"

\* generate_key_parameters; the iv has 12 bytes.
KeyPathOk(p) == IsSample(p) \/ p.keypath = NotGiven \/ p.keypath \in DOMAIN KekFiles
KekOf(p) == IF IsSample(p) THEN [id |-> HARDCODED_KEY, length |-> 32]
            ELSE IF p.keypath # NotGiven THEN KekFiles[p.keypath]
            ELSE [id |-> 100 + newKeys, length |-> 32]
KidOf(p) == IF IsSample(p) THEN HARD_CODED_KEYID
            ELSE IF p.keyid # NoKid THEN p.keyid
            ELSE Kid("bare", NotGiven, NotGiven, <<"default", "image-kek", "uuid" \o ToString(newKeys)>>)

\* ResourceUri::try_from: a URL with a scheme of kbs and, after a "+", a plugin.
IsResourceUri(k) == k.form = "uri" /\ k.plugin # NotGiven /\ k.path # <<>>

\* Mutant of NormalizePath: the address of a URI is left in the path.
NormalizeWithAddress(k) == IF k.host = NotGiven THEN k.path ELSE <<k.host>> \o k.path

\* normalize_path: a resource URI, or an address and a path of three segments.
CanNormalize(k) == IsResourceUri(k) \/ (k.form = "bare" /\ Len(k.path) = 3)
NormalizePath(k) == k.path

\* crypto::encrypt: both ciphers take 32 bytes of key; GCM 12 of iv, CTR 16.
CipherTakes(alg, key, iv) == key.length = 32 /\ iv = (IF alg = "A256GCM" THEN 12 ELSE 16)

\* The KEK is registered when it is no sample and the KBS and the key to it are known;
\* register_kek knows no other plugin.
Registers(p) == provider.kbs # "none" /\ provider.key /\ ~ IsSample(p)

\* enc_optsdata_gen_anno: its errors; sent tells whether the request to the KBS goes out.
CanBeWrapped(p, sent) ==
  /\ KeyPathOk(p) /\ CanNormalize(KidOf(p))
  /\ CipherTakes(AlgorithmOf(p), KekOf(p), 12)
  /\ Registers(p) => sent

\* The keys of the KBS with one more, or another, under a name.
KeysWith(name, key) == [n \in DOMAIN kbsKeys \cup {name} |-> IF n = name THEN key ELSE kbsKeys[n]]

\* accepted is what the KBS makes of the request, which is not looked at.
Wrap(r, sent, accepted) ==
  LET p == Head(r.params)
      registered == Registers(p) /\ accepted IN
  /\ provPc = "serving"
  /\ newKeys < MaxKeys
  /\ LegalRequest(r) /\ CanBeWrapped(p, sent)
  /\ kbsKeys' = IF registered THEN KeysWith(<<"resource", NormalizePath(KidOf(p))>>, KekOf(p)) ELSE kbsKeys
  /\ packet' = Packet(KidOf(p), <<KekOf(p).id, 12, AlgorithmOf(p)>>, 12, AlgorithmOf(p))
  /\ made' = [sample |-> IsSample(p), key |-> KekOf(p).id, registered |-> registered, kid |-> KidOf(p)]
  /\ newKeys' = newKeys + 1
  /\ unwrapped' = NotUnwrapped
  /\ UNCHANGED <<provPc, provider>>

\* A request that is refused changes nothing.
WrapFails(r, sent) ==
  /\ provPc = "serving"
  /\ ~ (LegalRequest(r) /\ CanBeWrapped(Head(r.params), sent))
  /\ UNCHANGED provVars

\* A key comes under a name; that of the packet is no longer there if it is another one.
Registered(name, key) ==
  /\ kbsKeys' = KeysWith(name, key)
  /\ made' = [made EXCEPT !.registered =
                 @ /\ (<<made.kid.plugin, made.kid.path>> = name => made.key = key.id)]

\* The request fails too when the answer of the KBS is lost, which has the key by then.
WrapAnswerLost(r) ==
  LET p == Head(r.params) IN
  /\ provPc = "serving"
  /\ newKeys < MaxKeys
  /\ LegalRequest(r) /\ CanBeWrapped(p, TRUE) /\ Registers(p)
  /\ Registered(<<"resource", NormalizePath(KidOf(p))>>, KekOf(p))
  /\ newKeys' = newKeys + 1
  /\ unwrapped' = NotUnwrapped
  /\ UNCHANGED <<provPc, provider, packet>>

\* The owner gives the KBS a key, or another tool has packed the image.
OwnerRegisters(path, key) ==
  /\ provPc = "serving"
  /\ path \in DOMAIN kbsKeys => kbsKeys[path].id # key.id
  /\ Registered(path, key)
  /\ unwrapped' = NotUnwrapped
  /\ UNCHANGED <<provPc, provider, packet, newKeys>>

OtherTool(p) ==
  /\ provPc = "serving" /\ packet # p
  /\ packet' = p
  /\ made' = NothingMade
  /\ unwrapped' = NotUnwrapped
  /\ UNCHANGED <<provPc, provider, kbsKeys, newKeys>>

-----------------------------------------------------------------------------
(* Unwrapping *)

\* What the deserialisation of AnnotationPacketV2 fills in.
Version == IF packet.version = NotGiven THEN "0.1.0" ELSE packet.version
ProviderOf == IF packet.provider = NotGiven THEN "kbs" ELSE packet.provider

\* crypto::decrypt: GCM tells a wrong key, CTR gives garbage.
Decrypt(key) ==
  IF \/ packet.wrap_type \notin {"A256GCM", "A256CTR"}
     \/ ~ CipherTakes(packet.wrap_type, key, packet.iv)
  THEN "error"
  ELSE IF packet.wrapped = <<key.id, packet.iv, packet.wrap_type>> THEN "opts"
  ELSE IF packet.wrap_type = "A256GCM" THEN "error" ELSE "garbage"

\* The resources of offline_fs_kbc in the hub: all files that can be read, the later
\* ones over the earlier; one that is not a map of base64 strings is an error.
Readable(store) == \A i \in DOMAIN store : store[i].state # "illegal"
OfflineKeys(store) == FoldLeft(LAMBDA all, f : IF f.state = "ok" THEN f.keys @@ all ELSE all, <<>>, store)

\* That of the KBC crate keeps to the first file, which must be there.
Keys(store) == IF store # <<>> /\ store[1].state = "ok" THEN store[1].keys ELSE <<>>

Got(keys, path) == IF path \in DOMAIN keys THEN Decrypt(keys[path]) ELSE "error"

\* KbcClient::new and get_secret: the KBC of aa_kbc_params, anew for each key.
HubKey(kbc, store) ==
  IF kbc = "cc_kbc" THEN Got(kbsKeys, <<packet.kid.plugin, packet.kid.path>>)
  ELSE IF kbc = "offline_fs_kbc" /\ Readable(store) THEN Got(OfflineKeys(store), packet.kid.path)
  ELSE "error"

\* try_into: what version 1 of the packet needs must be there.
IsV1 == Version = "0.1.0" /\ packet.iv # 0 /\ IsResourceUri(packet.kid)

\* AnnotationPacketV2::unwrap_key: with a KMS the key stays there.
HubUnwrap(kbc, store, kms) ==
  IF ProviderOf = "kbs" THEN IF IsV1 THEN HubKey(kbc, store) ELSE "error"
  ELSE IF ProviderOf \in KmsFeatures /\ packet.settings /\ kms THEN "opts" ELSE "error"

\* The handler of the hub: the annotation must be given, in base64.
UnwrapByHub(kbc, store, kms, given) ==
  /\ provPc = "serving" /\ packet # NoPacket
  /\ unwrapped' = [kbc |-> kbc, given |-> given, data |-> IF given THEN HubUnwrap(kbc, store, kms) ELSE "error"]
  /\ UNCHANGED <<provPc, provider, kbsKeys, packet, made, newKeys>>

\* decrypt_payload of the KBC crate; that of sample_kbc has its own key and algorithm.
CcKbcUnwrap == Got(kbsKeys, <<packet.kid.plugin, packet.kid.path>>)
OfflineFsKbcUnwrap(store) == Got(Keys(store), packet.kid.path)
SampleKbcUnwrap == IF packet.wrapped = <<HARDCODED_KEY, 12, "A256GCM">> THEN "opts" ELSE "error"

NativeUnwrap(kbc, store) ==
  IF ~ IsResourceUri(packet.kid) \/ packet.iv = 0 THEN "error"
  ELSE CASE kbc = "cc_kbc" -> CcKbcUnwrap
         [] kbc = "offline_fs_kbc" -> OfflineFsKbcUnwrap(store)
         [] kbc = "sample_kbc" -> SampleKbcUnwrap
         [] OTHER -> "error"

UnwrapNatively(kbc, store) ==
  /\ provPc = "serving" /\ packet # NoPacket
  /\ unwrapped' = [kbc |-> kbc, given |-> TRUE, data |-> NativeUnwrap(kbc, store)]
  /\ UNCHANGED <<provPc, provider, kbsKeys, packet, made, newKeys>>

ProviderNext ==
  \/ \E kbs \in {"none", "illegal", "kbs"}, key \in {"none", "illegal", "key"} : StartProvider(kbs, key)
  \/ \E r \in WrapRequests, sent \in BOOLEAN :
       \/ \E accepted \in BOOLEAN : Wrap(r, sent, accepted)
       \/ WrapFails(r, sent)
       \/ WrapAnswerLost(r)
  \/ \E f \in DOMAIN KekFiles : OwnerRegisters(<<"resource", <<"default", "key", "1">>>>, KekFiles[f])
  \/ \E p \in OtherPackets : OtherTool(p)
  \/ \E kbc \in {"cc_kbc", "offline_fs_kbc", "sample_kbc", "other"}, store \in OfflineStores :
       \/ \E kms, given \in BOOLEAN : UnwrapByHub(kbc, store, kms, given)
       \/ UnwrapNatively(kbc, store)

ProviderSpec == ProviderInit /\ [][ProviderNext]_provVars

-----------------------------------------------------------------------------
(* Properties *)

\* An image whose key was registered under a resource URI is unwrapped in the guest,
\* with that key: what one side writes in the packet and registers the other side finds,
\* unless another key was registered under its name since, for another image perhaps.
WrappedIsUnwrapped ==
  /\ unwrapped.kbc = "cc_kbc" /\ unwrapped.given
  /\ made.registered /\ made.kid.form = "uri" /\ made.kid.plugin = "resource"
  => unwrapped.data = "opts"
=============================================================================
