--------------------------- MODULE KeyPartsProofs ---------------------------
(***************************************************************************)
(* Proofs about the components that carry keys, secrets and measurements:  *)
(* the key provider against the hub, sealed secrets against the cloud, the *)
(* attesters, and the wrappers of a layer's key.  Each is proved for its   *)
(* own specification.                                                      *)
(***************************************************************************)
EXTENDS KeyProvider, SealedSecret, KeyWrap, Attesters, SequenceTheorems, FiniteSetTheorems,
        WellFoundedInduction, TLAPS

(***************************************************************************)
(* Part 1: wrapping and unwrapping.  The packet and the KBS agree about a  *)
(* key from the time it is registered until another is under its name.     *)
(***************************************************************************)

\* made.registered says of a resource URI that the key is there.
Found == made.kid.form = "uri" /\ made.kid.plugin = "resource"

PacketIsMade ==
  made.registered =>
    /\ CanNormalize(made.kid)
    /\ packet = Packet(made.kid, <<made.key, 12, "A256GCM">>, 12, "A256GCM")

KeyIsThere ==
  made.registered /\ Found =>
    LET name == <<"resource", made.kid.path>> IN
    /\ name \in DOMAIN kbsKeys
    /\ kbsKeys[name].id = made.key /\ kbsKeys[name].length = 32

MadeIsRecord == made = [sample |-> made.sample, key |-> made.key, registered |-> made.registered, kid |-> made.kid]

ProvInv == MadeIsRecord /\ PacketIsMade /\ KeyIsThere /\ WrappedIsUnwrapped

LEMMA ProvInitInv == ProviderInit => ProvInv
BY DEF ProviderInit, ProvInv, MadeIsRecord, PacketIsMade, KeyIsThere, WrappedIsUnwrapped, NothingMade, NotUnwrapped

\* A key that fits the cipher with an iv of 12 bytes is for GCM.
LEMMA WrappedByGcm ==
  ASSUME NEW p, NEW key, CipherTakes(AlgorithmOf(p), key, 12)
  PROVE  AlgorithmOf(p) = "A256GCM" /\ key.length = 32
BY DEF CipherTakes, AlgorithmOf

LEMMA StepOfWrap ==
  ASSUME ProvInv, NEW r, NEW sent \in BOOLEAN, NEW accepted \in BOOLEAN, Wrap(r, sent, accepted)
  PROVE  ProvInv'
<1> DEFINE p == Head(r.params)
           kek == KekOf(p)
           kid == KidOf(p)
           registered == Registers(p) /\ accepted
<1>1. /\ CanBeWrapped(p, sent)
      /\ kbsKeys' = IF registered THEN KeysWith(<<"resource", NormalizePath(kid)>>, kek) ELSE kbsKeys
      /\ packet' = Packet(kid, <<kek.id, 12, AlgorithmOf(p)>>, 12, AlgorithmOf(p))
      /\ made' = [sample |-> IsSample(p), key |-> kek.id, registered |-> registered, kid |-> kid]
      /\ unwrapped' = NotUnwrapped
  BY DEF Wrap
<1>2. CanNormalize(kid) /\ AlgorithmOf(p) = "A256GCM" /\ kek.length = 32
  BY <1>1, WrappedByGcm DEF CanBeWrapped
<1> HIDE DEF kek, kid, registered
<1>3. made'.key = kek.id /\ made'.kid = kid /\ made'.registered = registered
  BY <1>1
<1>4. MadeIsRecord'
  BY <1>1 DEF MadeIsRecord
<1>5. PacketIsMade'
  BY <1>1, <1>2, <1>3 DEF PacketIsMade
<1>6. KeyIsThere'
  BY <1>1, <1>2, <1>3 DEF KeyIsThere, KeysWith, NormalizePath
<1>7. WrappedIsUnwrapped'
  BY <1>1 DEF WrappedIsUnwrapped, NotUnwrapped
<1> QED
  BY <1>4, <1>5, <1>6, <1>7 DEF ProvInv

\* A key under a name: that of the packet is still there, or no longer taken for it.
LEMMA StepOfRegistered ==
  ASSUME ProvInv, NEW name, NEW key, Registered(name, key), made.key = key.id => key.length = 32,
         unwrapped' = NotUnwrapped, packet' = packet
  PROVE  ProvInv'
<1> DEFINE same == <<made.kid.plugin, made.kid.path>> = name => made.key = key.id
<1>1. /\ kbsKeys' = KeysWith(name, key)
      /\ made' = [made EXCEPT !.registered = @ /\ same]
  BY DEF Registered
<1> HIDE DEF same
<1>2. made' = [sample |-> made.sample, key |-> made.key, kid |-> made.kid, registered |-> made.registered /\ same]
  BY <1>1 DEF ProvInv, MadeIsRecord
<1>3. made'.key = made.key /\ made'.kid = made.kid /\ (made'.registered => made.registered /\ same)
  BY <1>2
<1>4. MadeIsRecord'
  BY <1>2 DEF MadeIsRecord
<1>5. PacketIsMade'
  BY <1>1, <1>3 DEF ProvInv, PacketIsMade
<1>6. KeyIsThere'
  BY <1>1, <1>3 DEF ProvInv, KeyIsThere, Found, KeysWith, same
<1>7. WrappedIsUnwrapped'
  BY <1>1 DEF WrappedIsUnwrapped, NotUnwrapped
<1> QED
  BY <1>4, <1>5, <1>6, <1>7 DEF ProvInv

\* The owner gives a name another key.
LEMMA StepOfOwner ==
  ASSUME ProvInv, NEW path, NEW key, OwnerRegisters(path, key)
  PROVE  ProvInv'
<1> DEFINE same == <<made.kid.plugin, made.kid.path>> = path => made.key = key.id
<1>1. /\ kbsKeys' = KeysWith(path, key) /\ (path \in DOMAIN kbsKeys => kbsKeys[path].id # key.id)
      /\ made' = [made EXCEPT !.registered = @ /\ same]
      /\ unwrapped' = NotUnwrapped /\ packet' = packet
  BY DEF OwnerRegisters, Registered
<1> HIDE DEF same
<1>2. made' = [sample |-> made.sample, key |-> made.key, kid |-> made.kid, registered |-> made.registered /\ same]
  BY <1>1 DEF ProvInv, MadeIsRecord
<1>3. made'.key = made.key /\ made'.kid = made.kid /\ (made'.registered => made.registered /\ same)
  BY <1>2
<1>4. MadeIsRecord'
  BY <1>2 DEF MadeIsRecord
<1>5. PacketIsMade'
  BY <1>1, <1>3 DEF ProvInv, PacketIsMade
<1>6. KeyIsThere'
  BY <1>1, <1>3 DEF ProvInv, KeyIsThere, Found, KeysWith, same
<1>7. WrappedIsUnwrapped'
  BY <1>1 DEF WrappedIsUnwrapped, NotUnwrapped
<1> QED
  BY <1>4, <1>5, <1>6, <1>7 DEF ProvInv

\* What the two ways of unwrapping get with the KBS.
LEMMA UnwrapsRegistered ==
  ASSUME ProvInv, made.registered, Found
  PROVE  /\ \A store, kms : HubUnwrap("cc_kbc", store, kms) = "opts"
         /\ \A store : NativeUnwrap("cc_kbc", store) = "opts"
<1> DEFINE name == <<"resource", made.kid.path>>
<1>1. /\ CanNormalize(made.kid) /\ packet = Packet(made.kid, <<made.key, 12, "A256GCM">>, 12, "A256GCM")
      /\ name \in DOMAIN kbsKeys /\ kbsKeys[name].id = made.key /\ kbsKeys[name].length = 32
  BY DEF ProvInv, PacketIsMade, KeyIsThere
<1>2. /\ packet.kid = made.kid /\ packet.version = NotGiven /\ packet.provider = NotGiven
      /\ packet.iv = 12 /\ packet.wrap_type = "A256GCM" /\ packet.wrapped = <<made.key, 12, "A256GCM">>
  BY <1>1 DEF Packet
<1>3. IsResourceUri(packet.kid)
  BY <1>1, <1>2 DEF CanNormalize, Found
<1>4. Got(kbsKeys, <<packet.kid.plugin, packet.kid.path>>) = "opts"
  BY <1>1, <1>2 DEF Got, Decrypt, CipherTakes, Found
<1>5. Version = "0.1.0" /\ ProviderOf = "kbs"
  BY <1>2 DEF Version, ProviderOf
<1>6. \A store, kms : HubUnwrap("cc_kbc", store, kms) = "opts"
  BY <1>2, <1>3, <1>4, <1>5 DEF HubUnwrap, IsV1, HubKey
<1>7. \A store : NativeUnwrap("cc_kbc", store) = "opts"
  BY <1>2, <1>3, <1>4 DEF NativeUnwrap, CcKbcUnwrap
<1> QED
  BY <1>6, <1>7

LEMMA ProvNextInv == ProvInv /\ [ProviderNext]_provVars => ProvInv'
<1> SUFFICES ASSUME ProvInv, [ProviderNext]_provVars PROVE ProvInv'
  OBVIOUS
<1>1. ASSUME UNCHANGED <<kbsKeys, packet, made, unwrapped>> PROVE ProvInv'
  BY <1>1 DEF ProvInv, MadeIsRecord, PacketIsMade, KeyIsThere, Found, WrappedIsUnwrapped
<1>2. ASSUME NEW r \in WrapRequests, NEW sent \in BOOLEAN, NEW accepted \in BOOLEAN, Wrap(r, sent, accepted)
      PROVE  ProvInv'
  BY <1>2, StepOfWrap
<1>3. ASSUME NEW path, NEW key, OwnerRegisters(path, key) PROVE ProvInv'
  BY <1>3, StepOfOwner
<1>6. ASSUME NEW r \in WrapRequests, WrapAnswerLost(r) PROVE ProvInv'
  <2> DEFINE p == Head(r.params)
             name == <<"resource", NormalizePath(KidOf(p))>>
             kek == KekOf(p)
  <2>1. CanBeWrapped(p, TRUE) /\ Registered(name, kek) /\ unwrapped' = NotUnwrapped /\ packet' = packet
    BY <1>6 DEF WrapAnswerLost
  <2>2. kek.length = 32
    BY <2>1, WrappedByGcm DEF CanBeWrapped
  <2> HIDE DEF name, kek
  <2> QED
    BY <2>1, <2>2, StepOfRegistered
<1>4. ASSUME NEW p \in OtherPackets, OtherTool(p) PROVE ProvInv'
  <2>1. made' = NothingMade /\ unwrapped' = NotUnwrapped
    BY <1>4 DEF OtherTool
  <2> QED
    BY <2>1 DEF ProvInv, MadeIsRecord, PacketIsMade, KeyIsThere, WrappedIsUnwrapped, NothingMade, NotUnwrapped
<1>5. ASSUME NEW kbc, NEW store, NEW kms, NEW given,
             UnwrapByHub(kbc, store, kms, given) \/ UnwrapNatively(kbc, store)
      PROVE  ProvInv'
  <2>1. UNCHANGED <<kbsKeys, packet, made>>
    BY <1>5 DEF UnwrapByHub, UnwrapNatively
  <2>2. MadeIsRecord' /\ PacketIsMade' /\ KeyIsThere'
    BY <2>1 DEF ProvInv, MadeIsRecord, PacketIsMade, KeyIsThere, Found
  <2>3. WrappedIsUnwrapped'
    <3> SUFFICES ASSUME unwrapped'.kbc = "cc_kbc", unwrapped'.given, made.registered, Found
                 PROVE  unwrapped'.data = "opts"
      BY <2>1 DEF WrappedIsUnwrapped, Found
    <3>1. CASE UnwrapByHub(kbc, store, kms, given)
      BY <3>1, UnwrapsRegistered DEF UnwrapByHub
    <3>2. CASE UnwrapNatively(kbc, store)
      BY <3>2, UnwrapsRegistered DEF UnwrapNatively
    <3> QED
      BY <1>5, <3>1, <3>2
  <2> QED
    BY <2>2, <2>3 DEF ProvInv
<1> QED
  BY <1>1, <1>2, <1>3, <1>4, <1>5, <1>6 DEF ProviderNext, provVars, StartProvider, WrapFails

\* What coco_keyprovider wraps and registers is unwrapped in the guest with that key, for
\* any requests, keys and packets of other tools, as long as no other key was registered
\* under its name (enc_mods, AnnotationPacketV2::unwrap_key).
THEOREM Unwrapped == ProviderSpec => []WrappedIsUnwrapped
<1>1. ProvInv => WrappedIsUnwrapped
  BY DEF ProvInv
<1> QED
  BY <1>1, ProvInitInv, ProvNextInv, PTL DEF ProviderSpec

(***************************************************************************)
(* Part 2: runtime measurements.  What an event was extended into is the   *)
(* register that is read for its index, and registers only grow.           *)
(***************************************************************************)

Log == aael \o unlogged
Events == [kind : {"event"}, index : Indices, reg : Nat, digest : Digests]

RegsTyped == regs \in [0 .. 23 -> Seq(Digests)]
LogTyped == aael \in Seq(Events) /\ unlogged \in Seq(Events)

Holds(value, digest) == \E j \in 1 .. Len(value) : value[j] = digest

\* An event is in the register that is read for its index, and names init_pcr's.
EventsAreMeasured ==
  \A k \in 1 .. Len(Log) :
    /\ \E s \in 0 .. 23 : MeasuredRegister(Log[k].index) = {s} /\ Holds(regs[s], Log[k].digest)
    /\ Log[k].reg = LogRegister

NothingMeasured == machine = NoMachine => aael = <<>> /\ unlogged = <<>> /\ ~ readBack.ok

\* What was read has the events there were then.
ReadIsMeasured ==
  readBack.ok =>
    /\ readBack.at \in 0 .. Len(Log)
    /\ \A k \in 1 .. readBack.at : Log[k].index = readBack.index => Holds(readBack.value, Log[k].digest)

\* There are events where there is an event log.
EventsExist == aael # <<>> \/ unlogged # <<>> => LogsEvents(machine)

MeasureInv == RegsTyped /\ LogTyped /\ EventsAreMeasured /\ EventsExist /\ NothingMeasured /\ ReadIsMeasured

LEMMA LogFacts ==
  ASSUME LogTyped
  PROVE  Log \in Seq(Events) /\ Len(Log) \in Nat /\ Len(Log) = Extensions
BY ConcatProperties DEF LogTyped, Log, Extensions

LEMMA AgreeByBlocks ==
  ASSUME NEW a, NEW b, Len(a) \in Nat, Len(b) \in Nat,
         \A k \in 1 .. Len(a) : k <= Len(b) => a[k] = b[k]
  PROVE  Agree(a, b)
<1>1. CASE Len(a) < Len(b)
  BY <1>1 DEF Agree
<1>2. CASE ~ (Len(a) < Len(b))
  BY <1>2 DEF Agree
<1> QED
  BY <1>1, <1>2

LEMMA CcmrIsRegister ==
  ASSUME NEW i \in Nat
  PROVE  PcrToCcmr("tdx", i) \in 1 .. 4 /\ PcrToCcmr("csv", i) \in 0 .. 4 /\ \A tee : PcrToCcmr(tee, i) \in Nat
BY DEF PcrToCcmr

\* What is extended for an event is its digest, and goes where it is read.
LEMMA ExtensionIsMeasured ==
  ASSUME NEW i \in Indices, NEW d \in Digests, NEW x \in Extension(i, d), SupportsRuntimeMeasurement,
         Len(d) = CcelHashBlocks(Primary), MeasuredRegister(i) # {}
  PROVE  x[1] \in 0 .. 23 /\ x[2] = d /\ MeasuredRegister(i) = {x[1]}
<1>1. i \in Nat /\ d \in Seq(Nat) /\ Len(d) \in Nat
  BY AttestersAssumption
<1>2. CASE Primary = "tdx"
  <2>1. x = <<PcrToCcmr("tdx", i) - 1, Pad(d, 3)>> /\ MeasuredRegister(i) = {PcrToCcmr("tdx", i) - 1}
    BY <1>2 DEF Extension, ExtendTdx, Into, MeasuredRegister, MeasuredRtmr
  <2>2. Len(d) = 3
    BY <1>2 DEF CcelHashBlocks
  <2>3. Pad(d, 3) = d
    BY <1>1, <2>2 DEF Pad
  <2> QED
    BY <1>1, <2>1, <2>3, CcmrIsRegister
<1>3. CASE Primary = "csv"
  <2>1. x = <<PcrToCcmr("csv", i), d>> /\ MeasuredRegister(i) = {PcrToCcmr("csv", i)}
    BY <1>3 DEF Extension, ExtendCsv, Into, MeasuredRegister, MeasuredCsv
  <2> QED
    BY <1>1, <2>1, CcmrIsRegister
<1>4. CASE Primary \in {"tpm", "az-snp"}
  <2>1. MeasuredRegister(i) = {i} \cap 0 .. 23
    BY <1>4 DEF MeasuredRegister
  <2>2. i \in 0 .. 23 /\ MeasuredRegister(i) = {i} /\ i % 256 = i
    BY <1>1, <2>1
  <2>3. x \in ExtendPcr(i, d)
    BY <1>4, <2>2 DEF Extension, ExtendAzure
  <2>4. x = <<i, d>>
    BY <2>3 DEF ExtendPcr, Into
  <2> QED
    BY <2>2, <2>4
<1>5. CASE Primary = "az-tdx"
  BY <1>5 DEF MeasuredRegister
<1> QED
  BY <1>2, <1>3, <1>4, <1>5 DEF SupportsRuntimeMeasurement

LEMMA MeasureInitInv == AttestersInit => MeasureInv
<1> SUFFICES ASSUME AttestersInit PROVE MeasureInv
  OBVIOUS
<1>1. regs = [r \in 0 .. 23 |-> <<>>] /\ aael = <<>> /\ unlogged = <<>> /\ ~ readBack.ok
  BY DEF AttestersInit, NothingRead
<1>2. Len(Log) = 0
  BY <1>1 DEF Log
<1> QED
  BY <1>1, <1>2 DEF MeasureInv, RegsTyped, LogTyped, EventsAreMeasured, EventsExist, NothingMeasured, ReadIsMeasured

\* A step that extends nothing and reads nothing.
LEMMA MeasureUnchanged ==
  ASSUME MeasureInv, UNCHANGED <<regs, aael, unlogged, readBack>>, UNCHANGED machine
  PROVE  MeasureInv'
<1>1. Log' = Log /\ (\A j : MeasuredRegister(j)' = MeasuredRegister(j)) /\ LogRegister' = LogRegister
  BY DEF Log, MeasuredRegister, MeasuredRtmr, MeasuredCsv, LogRegister, Primary
<1> QED
  BY <1>1
  DEF MeasureInv, RegsTyped, LogTyped, EventsAreMeasured, EventsExist, NothingMeasured, ReadIsMeasured, LogsEvents

\* What is there stays there when registers grow.
LEMMA HoldsMore ==
  ASSUME NEW value \in Seq(Digests), NEW more \in Digests, NEW digest, Holds(value, digest)
  PROVE  Holds(Append(value, more), digest)
<1>1. PICK j \in 1 .. Len(value) : value[j] = digest
  BY DEF Holds
<1>2. j \in 1 .. Len(Append(value, more)) /\ Append(value, more)[j] = value[j]
  BY <1>1
<1> QED
  BY <1>1, <1>2 DEF Holds

LEMMA HoldsLast ==
  ASSUME NEW value \in Seq(Digests), NEW more \in Digests
  PROVE  Holds(Append(value, more), more)
<1>1. LET j == Len(value) + 1 IN j \in 1 .. Len(Append(value, more)) /\ Append(value, more)[j] = more
  OBVIOUS
<1> QED
  BY <1>1 DEF Holds

LEMMA HoldsStill ==
  ASSUME RegsTyped, NEW r \in 0 .. 23, NEW v \in Digests, regs' = [regs EXCEPT ![r] = Append(@, v)]
  PROVE  /\ RegsTyped'
         /\ \A s \in 0 .. 23 : \A digest : Holds(regs[s], digest) => Holds(regs'[s], digest)
<1>1. /\ regs[r] \in Seq(Digests) /\ regs'[r] = Append(regs[r], v)
      /\ \A s \in 0 .. 23 : s # r => regs'[s] = regs[s]
  BY DEF RegsTyped
<1>2. RegsTyped'
  <2>1. Append(regs[r], v) \in Seq(Digests)
    BY <1>1
  <2> QED
    BY <2>1 DEF RegsTyped
<1>3. ASSUME NEW digest, Holds(regs[r], digest) PROVE Holds(regs'[r], digest)
  BY <1>1, <1>3, HoldsMore
<1> QED
  BY <1>1, <1>2, <1>3

\* An extension is one more in its register, and one more event in the log.
LEMMA ExtensionGrows ==
  ASSUME MeasureInv, NEW i \in Indices, NEW d \in Digests, ExtendRuntimeMeasurement(i, d)
  PROVE  \E r \in 0 .. 23, event \in Events :
           /\ MeasuredRegister(i) = {r}
           /\ event.index = i /\ event.reg = LogRegister /\ event.digest = d
           /\ regs' = [regs EXCEPT ![r] = Append(@, d)]
           /\ LogTyped' /\ Len(Log') = Len(Log) + 1 /\ Log'[Len(Log) + 1] = event
           /\ \A k \in 1 .. Len(Log) : Log'[k] = Log[k] /\ Log[k] \in Events
<1>1. /\ SupportsRuntimeMeasurement /\ unlogged = <<>> /\ UNCHANGED aael
      /\ Len(d) = CcelHashBlocks(Primary) /\ MeasuredRegister(i) # {}
  BY DEF ExtendRuntimeMeasurement
<1>2. PICK x \in Extension(i, d) :
        /\ regs' = [regs EXCEPT ![x[1]] = Append(@, x[2])]
        /\ unlogged' = <<[kind |-> "event", index |-> i, reg |-> LogRegister, digest |-> d]>>
  BY DEF ExtendRuntimeMeasurement
<1> DEFINE r == x[1]
           event == [kind |-> "event", index |-> i, reg |-> LogRegister, digest |-> d]
<1>3. r \in 0 .. 23 /\ x[2] = d /\ MeasuredRegister(i) = {r}
  BY <1>1, ExtensionIsMeasured
<1>4. LogRegister \in Nat
  BY CcmrIsRegister, AttestersAssumption DEF LogRegister
<1>5. event \in Events /\ event.index = i /\ event.reg = LogRegister /\ event.digest = d
  <2> HIDE DEF LogRegister
  <2> QED
    BY <1>4 DEF Events
<1>6. regs' = [regs EXCEPT ![r] = Append(@, d)] /\ unlogged' = <<event>>
  BY <1>2, <1>3
<1> HIDE DEF r, event
<1>7. LogTyped' /\ Log = aael /\ Log' = aael \o <<event>>
  BY <1>1, <1>5, <1>6 DEF MeasureInv, LogTyped, Log
<1>8. /\ Len(Log') = Len(Log) + 1 /\ Log'[Len(Log) + 1] = event
      /\ \A k \in 1 .. Len(Log) : Log'[k] = Log[k] /\ Log[k] \in Events
  BY <1>1, <1>5, <1>7 DEF MeasureInv, LogTyped
<1> QED
  BY <1>3, <1>5, <1>6, <1>7, <1>8

LEMMA StepOfExtend ==
  ASSUME MeasureInv, NEW i \in Indices, NEW d \in Digests, ExtendRuntimeMeasurement(i, d)
  PROVE  MeasureInv'
<1>1. machine # NoMachine /\ UNCHANGED <<machine, readBack>>
  BY DEF ExtendRuntimeMeasurement
<1>2. PICK r \in 0 .. 23, event \in Events :
        /\ MeasuredRegister(i) = {r}
        /\ event.index = i /\ event.reg = LogRegister /\ event.digest = d
        /\ regs' = [regs EXCEPT ![r] = Append(@, d)]
        /\ LogTyped' /\ Len(Log') = Len(Log) + 1 /\ Log'[Len(Log) + 1] = event
        /\ \A k \in 1 .. Len(Log) : Log'[k] = Log[k] /\ Log[k] \in Events
  BY ExtensionGrows
<1>3. /\ RegsTyped'
      /\ \A s \in 0 .. 23 : \A digest : Holds(regs[s], digest) => Holds(regs'[s], digest)
  BY <1>2, HoldsStill DEF MeasureInv
<1>4. (\A j : MeasuredRegister(j)' = MeasuredRegister(j)) /\ LogRegister' = LogRegister
  BY <1>1 DEF MeasuredRegister, MeasuredRtmr, MeasuredCsv, LogRegister, Primary
<1>5. EventsAreMeasured'
  <2> SUFFICES ASSUME NEW k \in 1 .. Len(Log')
               PROVE  /\ \E s \in 0 .. 23 :
                           MeasuredRegister(Log'[k].index) = {s} /\ Holds(regs'[s], Log'[k].digest)
                      /\ Log'[k].reg = LogRegister
    BY <1>4 DEF EventsAreMeasured
  <2>1. CASE k \in 1 .. Len(Log)
    <3>1. Log'[k] = Log[k]
      BY <1>2, <2>1
    <3>2. /\ \E s \in 0 .. 23 : MeasuredRegister(Log[k].index) = {s} /\ Holds(regs[s], Log[k].digest)
          /\ Log[k].reg = LogRegister
      BY <2>1 DEF MeasureInv, EventsAreMeasured
    <3> QED
      BY <1>3, <3>1, <3>2
  <2>2. CASE k = Len(Log) + 1
    <3>1. Holds(regs'[r], d)
      BY <1>2, HoldsLast DEF MeasureInv, RegsTyped
    <3> QED
      BY <1>2, <2>2, <3>1
  <2>3. k \in 1 .. Len(Log) \/ k = Len(Log) + 1
    <3>1. Len(Log) \in Nat /\ Len(Log') = Len(Log) + 1
      BY <1>2, LogFacts DEF MeasureInv
    <3> QED
      BY <3>1
  <2> QED
    BY <2>1, <2>2, <2>3
<1>6. ReadIsMeasured'
  <2>1. Len(Log) \in Nat
    BY LogFacts DEF MeasureInv
  <2> QED
    BY <1>1, <1>2, <2>1 DEF MeasureInv, ReadIsMeasured
<1>7. NothingMeasured' /\ EventsExist'
  BY <1>1 DEF NothingMeasured, EventsExist, LogsEvents, ExtendRuntimeMeasurement
<1> QED
  BY <1>2, <1>3, <1>5, <1>6, <1>7 DEF MeasureInv

LEMMA StepOfWriteEvent == MeasureInv /\ WriteEvent => MeasureInv'
<1> SUFFICES ASSUME MeasureInv, WriteEvent PROVE MeasureInv'
  OBVIOUS
<1>1. /\ unlogged # <<>> /\ aael' = aael \o unlogged /\ unlogged' = <<>>
      /\ UNCHANGED <<machine, regs, readBack>>
  BY DEF WriteEvent
<1>2. LogTyped' /\ Log' = Log
  BY <1>1, LogFacts DEF MeasureInv, LogTyped, Log
<1>3. (\A j : MeasuredRegister(j)' = MeasuredRegister(j)) /\ LogRegister' = LogRegister
  BY <1>1 DEF MeasuredRegister, MeasuredRtmr, MeasuredCsv, LogRegister, Primary
<1>4. machine' # NoMachine
  BY <1>1 DEF MeasureInv, NothingMeasured
<1>5. EventsAreMeasured'
  BY <1>1, <1>2, <1>3 DEF MeasureInv, EventsAreMeasured
<1>6. ReadIsMeasured' /\ RegsTyped' /\ NothingMeasured' /\ EventsExist'
  BY <1>1, <1>2, <1>4 DEF MeasureInv, ReadIsMeasured, RegsTyped, NothingMeasured, EventsExist, LogsEvents
<1> QED
  BY <1>2, <1>5, <1>6 DEF MeasureInv

\* What is read of a register holds all events under the index.
LEMMA StepOfRead ==
  ASSUME MeasureInv, NEW i \in Indices, GetRuntimeMeasurement(i)
  PROVE  MeasureInv'
<1>1. machine # NoMachine /\ UNCHANGED <<machine, regs, aael, unlogged>>
  BY DEF GetRuntimeMeasurement
<1>2. RegsTyped' /\ LogTyped' /\ EventsAreMeasured' /\ EventsExist' /\ NothingMeasured'
  <2>1. Log' = Log /\ (\A j : MeasuredRegister(j)' = MeasuredRegister(j)) /\ LogRegister' = LogRegister
    BY <1>1 DEF Log, MeasuredRegister, MeasuredRtmr, MeasuredCsv, LogRegister, Primary
  <2>2. RegsTyped' /\ LogTyped' /\ NothingMeasured' /\ EventsExist'
    BY <1>1 DEF MeasureInv, RegsTyped, LogTyped, NothingMeasured, EventsExist, LogsEvents
  <2> QED
    BY <1>1, <2>1, <2>2 DEF MeasureInv, EventsAreMeasured
<1>3. ReadIsMeasured'
  <2>1. CASE MeasuredRegister(i) = {}
    BY <2>1 DEF GetRuntimeMeasurement, ReadIsMeasured, NothingRead
  <2>2. CASE MeasuredRegister(i) # {}
    <3>1. PICK r \in MeasuredRegister(i) :
            readBack' = [index |-> i, at |-> Extensions, ok |-> TRUE, value |-> regs[r]]
      BY <2>2 DEF GetRuntimeMeasurement
    <3>2. Log' = Log /\ Len(Log) \in Nat /\ Extensions = Len(Log)
      BY <1>1, LogFacts DEF MeasureInv, Log
    <3>3. readBack'.at = Len(Log) /\ readBack'.index = i /\ readBack'.value = regs[r]
      BY <3>1, <3>2
    <3>4. ASSUME NEW k \in 1 .. Len(Log), Log[k].index = i
          PROVE  Holds(regs[r], Log[k].digest)
      <4>1. \E s \in 0 .. 23 : MeasuredRegister(i) = {s} /\ Holds(regs[s], Log[k].digest)
        BY <3>4 DEF MeasureInv, EventsAreMeasured
      <4> QED
        BY <4>1
    <3> QED
      BY <3>2, <3>3, <3>4 DEF ReadIsMeasured
  <2> QED
    BY <2>1, <2>2
<1> QED
  BY <1>2, <1>3 DEF MeasureInv

LEMMA StepOfBoot == \A m \in Machines : MeasureInv /\ BootMachine(m) => MeasureInv'
<1> SUFFICES ASSUME NEW m \in Machines, MeasureInv, BootMachine(m) PROVE MeasureInv'
  OBVIOUS
<1>1. /\ UNCHANGED <<regs, aael, unlogged, readBack>>
      /\ aael = <<>> /\ unlogged = <<>> /\ ~ readBack.ok
  BY DEF BootMachine, MeasureInv, NothingMeasured
<1>2. Len(Log') = 0
  BY <1>1 DEF Log
<1>3. RegsTyped' /\ LogTyped' /\ NothingMeasured' /\ EventsExist'
  BY <1>1 DEF MeasureInv, RegsTyped, LogTyped, NothingMeasured, EventsExist
<1>4. EventsAreMeasured' /\ ReadIsMeasured'
  BY <1>1, <1>2 DEF EventsAreMeasured, ReadIsMeasured
<1> QED
  BY <1>3, <1>4 DEF MeasureInv

\* Init data that are bound extend a register that events may be in.
LEMMA StepOfBind == \A d \in Digests : MeasureInv /\ BindToPcr(d) => MeasureInv'
<1> SUFFICES ASSUME NEW d \in Digests, MeasureInv, BindToPcr(d) PROVE MeasureInv'
  OBVIOUS
<1>1. UNCHANGED <<machine, aael, unlogged, readBack>>
  BY DEF BindToPcr
<1>2. CASE regs' = regs
  BY <1>1, <1>2, MeasureUnchanged
<1>3. CASE regs' = [regs EXCEPT ![InitDataPcr] = Append(@, d)]
  <2>1. /\ RegsTyped'
        /\ \A s \in 0 .. 23 : \A digest : Holds(regs[s], digest) => Holds(regs'[s], digest)
    <3>1. InitDataPcr \in 0 .. 23
      BY DEF InitDataPcr
    <3> HIDE DEF InitDataPcr
    <3> QED
      BY <1>3, <3>1, HoldsStill DEF MeasureInv
  <2>2. Log' = Log
    BY <1>1 DEF Log
  <2>3. (\A j : MeasuredRegister(j)' = MeasuredRegister(j)) /\ LogRegister' = LogRegister
    BY <1>1 DEF MeasuredRegister, MeasuredRtmr, MeasuredCsv, LogRegister, Primary
  <2>4. EventsAreMeasured'
    BY <2>1, <2>2, <2>3 DEF MeasureInv, EventsAreMeasured
  <2> QED
    BY <1>1, <2>1, <2>2, <2>4 DEF MeasureInv, LogTyped, ReadIsMeasured, NothingMeasured, EventsExist, LogsEvents
<1> QED
  BY <1>2, <1>3 DEF BindToPcr

LEMMA MeasureNextInv == MeasureInv /\ [AttestersNext]_attVars => MeasureInv'
<1> SUFFICES ASSUME MeasureInv, [AttestersNext]_attVars PROVE MeasureInv'
  OBVIOUS
<1>1. CASE UNCHANGED attVars
  BY <1>1, MeasureUnchanged DEF attVars
<1>2. ASSUME NEW q \in Requests, NEW t, NEW data, NEW adjusted, NEW ok,
             \/ AskEvidence(q, t, data, adjusted)
             \/ WriteInblob(q) \/ CheckGeneration(q) \/ ReadLog(q) \/ ReadUserQuote(q) \/ SampleEvidence(q)
             \/ MakeReportDir(q, ok) \/ ReadOutblob(q, ok) \/ QuoteTpm(q, ok) \/ ReadAllPcrs(q, ok)
             \/ AzureStep(q, ok) \/ WriteUserData(q, ok) \/ DownloadChain(q, ok) \/ CollectDevices(q, ok)
             \/ CsvReport(q, ok) \/ SnpReport(q, ok) \/ SeReport(q, ok) \/ DcuReport(q, ok) \/ OcclumReport(q, ok)
             \/ OtherWritesInblob(q, data)
      PROVE  MeasureInv'
  <2>1. UNCHANGED <<machine, regs, aael, unlogged, readBack>>
    BY <1>2
    DEF AskEvidence, WriteInblob, CheckGeneration, ReadLog, ReadUserQuote, SampleEvidence, MakeReportDir,
        ReadOutblob, QuoteTpm, ReadAllPcrs, AzureStep, WriteUserData, DownloadChain, CollectDevices, CsvReport,
        SnpReport, SeReport, DcuReport, OcclumReport, DriverReport, OtherWritesInblob, KeepsRest
  <2> QED
    BY <2>1, MeasureUnchanged
<1>3. ASSUME NEW d \in Digests, BindToConfiguration(d) \/ BindToPcr(d) \/ \E i \in Indices : ExtendRuntimeMeasurement(i, d)
      PROVE  MeasureInv'
  <2>1. CASE BindToConfiguration(d)
    BY <2>1, MeasureUnchanged DEF BindToConfiguration
  <2>2. CASE BindToPcr(d)
    BY <2>2, StepOfBind
  <2>3. CASE \E i \in Indices : ExtendRuntimeMeasurement(i, d)
    BY <2>3, StepOfExtend
  <2> QED
    BY <1>3, <2>1, <2>2, <2>3
<1>4. ASSUME NEW m \in Machines, BootMachine(m) PROVE MeasureInv'
  BY <1>4, StepOfBoot
<1>5. CASE WriteEvent
  BY <1>5, StepOfWriteEvent
<1>6. ASSUME NEW i \in Indices, GetRuntimeMeasurement(i) PROVE MeasureInv'
  BY <1>6, StepOfRead
<1> QED
  BY <1>1, <1>2, <1>3, <1>4, <1>5, <1>6 DEF AttestersNext

\* Whatever is extended, in any order and between init data and evidence, is in the
\* measurement read back under its index (extend_runtime_measurement,
\* get_runtime_measurement of the attesters).
THEOREM Measured == AttestersSpec => []MeasurementHasExtensions
<1>1. MeasureInv => MeasurementHasExtensions
  BY DEF MeasureInv, ReadIsMeasured, MeasurementHasExtensions, Holds, Log
<1> QED
  BY <1>1, MeasureInitInv, MeasureNextInv, PTL DEF AttestersSpec

(***************************************************************************)
(* Part 3: evidence.  Each request is followed from its report data to its *)
(* quote; the report directory is its own as long as the generation says   *)
(* so, and Gramine's file as long as no other request is made.             *)
(***************************************************************************)

\* A request with another step and another quote, and then the PCRs too.
Becomes(e, pc, quote, pcrs) ==
  [pc |-> pc, tee |-> e.tee, asked |-> e.asked, data |-> e.data, quote |-> quote, pcrs |-> pcrs, log |-> e.log,
   alone |-> e.alone, late |-> e.late]

EvidTyped ==
  /\ DOMAIN inblobs = Requests /\ DOMAIN evid = Requests
  /\ \A q \in Requests : evid[q] = Becomes(evid[q], evid[q].pc, evid[q].quote, evid[q].pcrs)

\* A request that is served at its own time has nobody beside it.
AloneIsAlone ==
  \A q \in Requests : evid[q].alone /\ evid[q].pc \notin Over =>
    \A o \in Requests \ {q} : evid[o].pc \in Over

\* What is kept of the report data is as DataIsAsked has it of the quote.
Fits(e) ==
  /\ Agree(e.data, e.asked)
  /\ e.tee \notin {"tpm", "nvidia"} => Len(e.data) >= Len(e.asked) \/ Len(e.asked) > ReportBlocks

\* The directory has been written once at least by the request, and if only once then by it.
OwnReport(e, own) ==
  /\ e.pc \in {"inblob", "outblob", "generation"} => own[1] \in Nat
  /\ e.pc = "outblob" => own[1] > 0 /\ (own[1] = 1 => own[2] = e.data)
  /\ e.pc = "generation" => own[1] > 0 /\ (own[1] = 1 => e.quote.data = e.data)

OwnFile(e, file) ==
  /\ e.pc \in {"userdata", "userquote"} => e.tee = "sgx"
  /\ e.pc = "userquote" /\ e.alone => file = e.data

QuoteIsOverData(e) ==
  e.pc \in {"pcrs", "certs", "chain", "log", "done"} /\ (e.tee # "sgx" \/ e.alone) => e.quote.data = e.data

\* Registers only grow.
Grown(old, new) == \A r \in 0 .. 23 : Len(old[r]) \in Nat /\ IsPrefix(old[r], new[r])

QuoteIsOverPcrs(e, now) ==
  /\ e.pc \in {"quote", "pcrs"} => e.tee = "tpm"
  /\ e.pc = "pcrs" => e.quote # NoQuote
  /\ e.quote # NoQuote => Grown(e.quote.regs, now)
  /\ e.quote = NoQuote \/ e.pc \notin {"certs", "done", "failed"} => e.pcrs = <<>>
  /\ PcrsFollow(e)

InHand(e, own, file, now) ==
  /\ e.pc \notin {"idle", "failed"} => Fits(e)
  /\ OwnReport(e, own) /\ OwnFile(e, file) /\ QuoteIsOverData(e) /\ QuoteIsOverPcrs(e, now)

EvidInv ==
  /\ EvidTyped /\ AloneIsAlone /\ RegsTyped
  /\ \A q \in Requests : InHand(evid[q], inblobs[q], userData, regs)

LEMMA EvidInitInv == AttestersInit => EvidInv
<1> SUFFICES ASSUME AttestersInit PROVE EvidInv
  OBVIOUS
<1>1. /\ evid = [q \in Requests |-> NoRequest] /\ inblobs = [q \in Requests |-> <<>>]
      /\ regs = [r \in 0 .. 23 |-> <<>>]
  BY DEF AttestersInit
<1>2. /\ NoRequest = Becomes(NoRequest, "idle", NoQuote, <<>>)
      /\ NoRequest.pc = "idle" /\ NoRequest.quote = NoQuote /\ NoRequest.pcrs = <<>>
  BY DEF NoRequest, Becomes
<1>3. EvidTyped /\ RegsTyped
  BY <1>1, <1>2 DEF EvidTyped, RegsTyped
<1>4. AloneIsAlone
  BY <1>1, <1>2 DEF AloneIsAlone, Over
<1>5. \A own, file, now : InHand(NoRequest, own, file, now)
  BY <1>2 DEF InHand, OwnReport, OwnFile, QuoteIsOverData, QuoteIsOverPcrs, PcrsFollow
<1> QED
  BY <1>1, <1>3, <1>4, <1>5 DEF EvidInv

LEMMA PrefixOfItself == ASSUME NEW S, NEW s \in Seq(S) PROVE IsPrefix(s, s)
BY DEF IsPrefix

LEMMA PrefixGrows ==
  ASSUME NEW S, NEW s, Len(s) \in Nat, NEW t \in Seq(S), NEW x \in S, IsPrefix(s, t)
  PROVE  IsPrefix(s, Append(t, x))
<1>1. Len(s) <= Len(t) /\ SubSeq(s, 1, Len(s)) = SubSeq(t, 1, Len(s))
  BY DEF IsPrefix
<1>2. Len(Append(t, x)) = Len(t) + 1 /\ SubSeq(Append(t, x), 1, Len(s)) = SubSeq(t, 1, Len(s))
  BY <1>1
<1> QED
  BY <1>1, <1>2 DEF IsPrefix

LEMMA QuoteIsMade ==
  ASSUME RegsTyped, NEW data
  PROVE  LET quote == QuoteOf(data) IN
         /\ quote # NoQuote /\ quote.data = data /\ quote.regs = regs /\ quote.after = Extensions
         /\ Grown(quote.regs, regs)
<1>1. 0 \in DOMAIN regs
  BY DEF RegsTyped
<1>2. regs # <<>>
  BY <1>1
<1>3. QuoteOf(data).regs = regs /\ QuoteOf(data).data = data /\ QuoteOf(data).after = Extensions
  BY DEF QuoteOf
<1>4. NoQuote.regs = <<>>
  BY DEF NoQuote
<1>5. Grown(regs, regs)
  <2>1. \A r \in 0 .. 23 : regs[r] \in Seq(Digests)
    BY DEF RegsTyped
  <2>2. ASSUME NEW r \in 0 .. 23 PROVE Len(regs[r]) \in Nat
    <3>1. regs[r] \in Seq(Digests)
      BY <2>1
    <3> QED
      BY <3>1
  <2>3. \A r \in 0 .. 23 : IsPrefix(regs[r], regs[r])
    BY <2>1, PrefixOfItself
  <2> QED
    BY <2>2, <2>3 DEF Grown
<1> QED
  BY <1>2, <1>3, <1>4, <1>5

BecomesItself(e) == e = Becomes(e, e.pc, e.quote, e.pcrs)

\* A step of one request: the others are as they were, and not alone if it is under way.
LEMMA OneMoves ==
  ASSUME EvidInv, NEW q \in Requests, NEW e, BecomesItself(e), e.alone = evid[q].alone,
         evid[q].pc \notin Over, evid' = [evid EXCEPT ![q] = e],
         DOMAIN inblobs' = Requests, \A o \in Requests \ {q} : inblobs'[o] = inblobs[o], regs' = regs,
         InHand(e, inblobs'[q], userData', regs)
  PROVE  EvidInv'
<1>1. DOMAIN evid' = Requests /\ evid'[q] = e /\ \A o \in Requests \ {q} : evid'[o] = evid[o]
  BY DEF EvidInv, EvidTyped
<1>2. EvidTyped' /\ RegsTyped'
  BY <1>1 DEF EvidInv, EvidTyped, RegsTyped, BecomesItself
<1>3. AloneIsAlone'
  BY <1>1 DEF EvidInv, AloneIsAlone
<1>4. \A o \in Requests \ {q} : InHand(evid'[o], inblobs'[o], userData', regs')
  <2> TAKE o \in Requests \ {q}
  <2>1. InHand(evid[o], inblobs[o], userData, regs) /\ ~ (evid[o].pc = "userquote" /\ evid[o].alone)
    BY DEF EvidInv, AloneIsAlone, Over
  <2>2. OwnFile(evid[o], userData')
    BY <2>1 DEF InHand, OwnFile
  <2> QED
    BY <1>1, <2>1, <2>2 DEF InHand
<1> QED
  BY <1>1, <1>2, <1>3, <1>4 DEF EvidInv

\* What Becomes makes.
LEMMA BecomesFields ==
  ASSUME NEW f, NEW pc, NEW quote, NEW pcrs
  PROVE  LET e == Becomes(f, pc, quote, pcrs) IN
         /\ BecomesItself(e) /\ e.pc = pc /\ e.quote = quote /\ e.pcrs = pcrs
         /\ e.tee = f.tee /\ e.asked = f.asked /\ e.data = f.data /\ e.alone = f.alone /\ e.late = f.late
BY DEF Becomes, BecomesItself

LEMMA GoesBecomes ==
  ASSUME EvidInv, NEW q \in Requests, NEW pc, Goes(q, pc)
  PROVE  evid' = [evid EXCEPT ![q] = Becomes(evid[q], pc, evid[q].quote, evid[q].pcrs)]
<1>1. [evid[q] EXCEPT !.pc = pc] = Becomes(evid[q], pc, evid[q].quote, evid[q].pcrs)
  BY DEF EvidInv, EvidTyped, Becomes
<1>2. evid' = [evid EXCEPT ![q] = [evid[q] EXCEPT !.pc = pc]]
  BY DEF Goes
<1> QED
  BY <1>1, <1>2

LEMMA QuoteAndStep ==
  ASSUME NEW e, NEW pc, NEW quote, e = Becomes(e, e.pc, e.quote, e.pcrs)
  PROVE  [e EXCEPT !.quote = quote, !.pc = pc] = Becomes(e, pc, quote, e.pcrs)
<1> DEFINE r == Becomes(e, e.pc, e.quote, e.pcrs)
<1>1. [r EXCEPT !.quote = quote] = Becomes(e, e.pc, quote, e.pcrs)
  BY DEF Becomes
<1>2. [Becomes(e, e.pc, quote, e.pcrs) EXCEPT !.pc = pc] = Becomes(e, pc, quote, e.pcrs)
  BY DEF Becomes
<1>3. [e EXCEPT !.quote = quote, !.pc = pc] = [[e EXCEPT !.quote = quote] EXCEPT !.pc = pc]
  OBVIOUS
<1> QED
  BY <1>1, <1>2, <1>3

LEMMA QuotedBecomes ==
  ASSUME EvidInv, NEW q \in Requests, NEW data, NEW pc, Quoted(q, data, pc)
  PROVE  evid' = [evid EXCEPT ![q] = Becomes(evid[q], pc, QuoteOf(data), evid[q].pcrs)]
<1> DEFINE quote == QuoteOf(data)
<1>1. [evid[q] EXCEPT !.quote = quote, !.pc = pc] = Becomes(evid[q], pc, quote, evid[q].pcrs)
  BY QuoteAndStep DEF EvidInv, EvidTyped
<1>2. evid' = [evid EXCEPT ![q] = [evid[q] EXCEPT !.quote = quote, !.pc = pc]]
  BY DEF Quoted, EvidInv, EvidTyped
<1> QED
  BY <1>1, <1>2

\* A request that goes to an end, or to a step before its quote.
LEMMA GoesOn ==
  ASSUME EvidInv, NEW q \in Requests, NEW pc, Goes(q, pc), evid[q].pc \notin Over,
         pc = "failed" \/ (evid[q].pc \in {"report", "hcl", "tdquote"} /\ pc \in {"empty", "vtpm", "tdquote"}),
         DOMAIN inblobs' = Requests, \A o \in Requests \ {q} : inblobs'[o] = inblobs[o], regs' = regs
  PROVE  EvidInv'
<1> DEFINE e == Becomes(evid[q], pc, evid[q].quote, evid[q].pcrs)
<1>1. /\ e.pc = pc /\ e.quote = evid[q].quote /\ e.pcrs = evid[q].pcrs /\ e.late = evid[q].late
      /\ e.data = evid[q].data /\ e.asked = evid[q].asked /\ e.tee = evid[q].tee
      /\ BecomesItself(e) /\ e.alone = evid[q].alone
  BY BecomesFields
<1>2. InHand(evid[q], inblobs[q], userData, regs) /\ evid[q].pc \notin {"idle", "failed"}
  BY DEF EvidInv, Over
<1> HIDE DEF e
<1>3. Fits(e) /\ PcrsFollow(e)
  BY <1>1, <1>2 DEF InHand, Fits, QuoteIsOverPcrs, PcrsFollow
<1>4. InHand(e, inblobs'[q], userData', regs)
  BY <1>1, <1>2, <1>3 DEF InHand, OwnReport, OwnFile, QuoteIsOverData, QuoteIsOverPcrs
<1> QED
  BY <1>1, <1>4, GoesBecomes, OneMoves DEF e

\* A quote over the data of the request, or over those in the file if it is alone.
LEMMA QuotedOn ==
  ASSUME EvidInv, NEW q \in Requests, NEW data, NEW pc, Quoted(q, data, pc), evid[q].pc \notin Over,
         pc \in {"pcrs", "chain", "log", "done"}, pc = "pcrs" => evid[q].pc = "quote", evid[q].tee # "sgx" \/ evid[q].alone => data = evid[q].data,
         evid[q].pc # "certs", inblobs' = inblobs, regs' = regs
  PROVE  EvidInv'
<1> DEFINE quote == QuoteOf(data)
           e == Becomes(evid[q], pc, quote, evid[q].pcrs)
<1>1. quote # NoQuote /\ quote.data = data /\ quote.regs = regs /\ Grown(quote.regs, regs)
  BY QuoteIsMade DEF EvidInv
<1> HIDE DEF quote
<1>2. /\ e.pc = pc /\ e.quote = quote /\ e.pcrs = evid[q].pcrs /\ e.alone = evid[q].alone
      /\ e.data = evid[q].data /\ e.asked = evid[q].asked /\ e.tee = evid[q].tee /\ BecomesItself(e)
  BY BecomesFields
<1>3. InHand(evid[q], inblobs[q], userData, regs) /\ evid[q].pc \notin {"idle", "failed"}
  BY DEF EvidInv, Over
<1> HIDE DEF e
<1>4. Fits(e)
  BY <1>2, <1>3 DEF InHand, Fits
<1>5. InHand(e, inblobs'[q], userData', regs)
  BY <1>1, <1>2, <1>3, <1>4 DEF Over, InHand, OwnReport, OwnFile, QuoteIsOverData, QuoteIsOverPcrs, PcrsFollow
<1>6. DOMAIN inblobs' = Requests
  BY DEF EvidInv, EvidTyped
<1>7. evid' = [evid EXCEPT ![q] = Becomes(evid[q], pc, quote, evid[q].pcrs)]
  BY QuotedBecomes DEF quote
<1> QED
  BY <1>2, <1>5, <1>6, <1>7, OneMoves DEF e

\* A request that goes on after its quote.
LEMMA GoesAfter ==
  ASSUME EvidInv, NEW q \in Requests, NEW pc, Goes(q, pc),
         \/ evid[q].pc \in {"chain", "generation"} /\ pc \in {"log", "done"}
         \/ evid[q].pc = "certs" /\ pc = "done",
         evid[q].tee # "sgx" \/ evid[q].alone => evid[q].quote.data = evid[q].data,
         DOMAIN inblobs' = Requests, \A o \in Requests \ {q} : inblobs'[o] = inblobs[o], regs' = regs
  PROVE  EvidInv'
<1> DEFINE e == Becomes(evid[q], pc, evid[q].quote, evid[q].pcrs)
<1>1. /\ e.pc = pc /\ e.quote = evid[q].quote /\ e.pcrs = evid[q].pcrs /\ e.late = evid[q].late
      /\ e.data = evid[q].data /\ e.asked = evid[q].asked /\ e.tee = evid[q].tee
      /\ BecomesItself(e) /\ e.alone = evid[q].alone
  BY BecomesFields
<1>2. InHand(evid[q], inblobs[q], userData, regs) /\ evid[q].pc \notin Over
  BY DEF EvidInv, Over
<1> HIDE DEF e
<1>3. Fits(e) /\ PcrsFollow(e)
  BY <1>1, <1>2 DEF InHand, Fits, QuoteIsOverPcrs, PcrsFollow
<1>4. InHand(e, inblobs'[q], userData', regs)
  BY <1>1, <1>2, <1>3 DEF InHand, OwnReport, OwnFile, QuoteIsOverData, QuoteIsOverPcrs
<1> QED
  BY <1>1, <1>2, <1>4, GoesBecomes, OneMoves DEF e

LEMMA StepsOfReport ==
  ASSUME EvidInv, NEW q \in Requests, NEW ok \in BOOLEAN,
         MakeReportDir(q, ok) \/ WriteInblob(q) \/ ReadOutblob(q, ok) \/ CheckGeneration(q)
  PROVE  EvidInv'
<1>1. /\ InHand(evid[q], inblobs[q], userData, regs) /\ DOMAIN inblobs = Requests
      /\ regs' = regs /\ evid[q].pc \notin Over /\ evid[q].pc \notin {"idle", "failed"}
      /\ DOMAIN inblobs' = Requests /\ \A o \in Requests \ {q} : inblobs'[o] = inblobs[o]
  BY DEF EvidInv, EvidTyped, MakeReportDir, WriteInblob, ReadOutblob, CheckGeneration, KeepsRest, Over
<1>2. ASSUME NEW pc \in {"inblob", "outblob"}, Goes(q, pc), inblobs'[q][1] \in Nat,
             pc = "outblob" => inblobs'[q][1] > 0 /\ inblobs'[q][2] = evid[q].data,
             evid[q].pc \in {"dir", "inblob"}
      PROVE  EvidInv'
  <2> DEFINE e == Becomes(evid[q], pc, evid[q].quote, evid[q].pcrs)
  <2>1. /\ e.pc = pc /\ e.quote = evid[q].quote /\ e.pcrs = evid[q].pcrs /\ e.late = evid[q].late
        /\ e.data = evid[q].data /\ e.asked = evid[q].asked /\ e.tee = evid[q].tee
        /\ BecomesItself(e) /\ e.alone = evid[q].alone
    BY BecomesFields
  <2> HIDE DEF e
  <2>2. Fits(e) /\ PcrsFollow(e)
    BY <1>1, <2>1 DEF InHand, Fits, QuoteIsOverPcrs, PcrsFollow
  <2>3. InHand(e, inblobs'[q], userData', regs)
    BY <1>1, <1>2, <2>1, <2>2 DEF InHand, OwnReport, OwnFile, QuoteIsOverData, QuoteIsOverPcrs
  <2> QED
    BY <1>1, <1>2, <2>1, <2>3, GoesBecomes, OneMoves DEF e
<1>3. CASE MakeReportDir(q, ok)
  <2>1. CASE ok
    <3>1. Goes(q, "inblob") /\ inblobs'[q] = <<0, <<>>>> /\ evid[q].pc = "dir"
      BY <1>1, <1>3, <2>1 DEF MakeReportDir
    <3> QED
      BY <1>2, <3>1
  <2>2. CASE ~ ok
    BY <1>1, <1>3, <2>2, GoesOn DEF MakeReportDir
  <2> QED
    BY <2>1, <2>2
<1>4. CASE WriteInblob(q)
  <2>1. Goes(q, "outblob") /\ evid[q].pc = "inblob" /\ inblobs'[q] = <<inblobs[q][1] + 1, evid[q].data>>
    BY <1>1, <1>4 DEF WriteInblob
  <2>2. inblobs[q][1] \in Nat
    BY <1>1, <2>1 DEF InHand, OwnReport
  <2> QED
    BY <1>2, <2>1, <2>2
<1>5. CASE ReadOutblob(q, ok)
  <2>1. CASE ok
    <3> DEFINE quote == QuoteOf(inblobs[q][2])
               e == Becomes(evid[q], "generation", quote, evid[q].pcrs)
    <3>1. Quoted(q, inblobs[q][2], "generation") /\ inblobs' = inblobs /\ evid[q].pc = "outblob"
      BY <1>5, <2>1 DEF ReadOutblob
    <3>2. /\ quote # NoQuote /\ quote.data = inblobs[q][2] /\ evid' = [evid EXCEPT ![q] = e]
          /\ Grown(quote.regs, regs)
      BY <3>1, QuoteIsMade, QuotedBecomes DEF EvidInv
    <3> HIDE DEF quote
    <3>3. /\ e.pc = "generation" /\ e.quote = quote /\ e.pcrs = evid[q].pcrs /\ e.alone = evid[q].alone
          /\ e.data = evid[q].data /\ e.asked = evid[q].asked /\ e.tee = evid[q].tee /\ BecomesItself(e)
      BY BecomesFields
    <3> HIDE DEF e
    <3>4. Fits(e)
      BY <1>1, <3>3 DEF InHand, Fits
    <3>5. InHand(e, inblobs'[q], userData', regs)
      BY <1>1, <3>1, <3>2, <3>3, <3>4
      DEF InHand, OwnReport, OwnFile, QuoteIsOverData, QuoteIsOverPcrs, PcrsFollow
    <3> QED
      BY <1>1, <3>2, <3>3, <3>5, OneMoves
  <2>2. CASE ~ ok
    BY <1>1, <1>5, <2>2, GoesOn DEF ReadOutblob
  <2> QED
    BY <2>1, <2>2
<1>6. CASE CheckGeneration(q)
  <2>1. CASE ~ IsOwnReport(inblobs[q][1])
    BY <1>1, <1>6, <2>1, GoesOn DEF CheckGeneration
  <2>2. CASE IsOwnReport(inblobs[q][1])
    <3>1. evid[q].pc = "generation" /\ evid[q].quote.data = evid[q].data
      BY <1>1, <1>6, <2>2 DEF CheckGeneration, InHand, OwnReport, IsOwnReport
    <3>2. Goes(q, IF evid[q].tee = "tdx" THEN "log" ELSE "done")
      BY <1>6, <2>2 DEF CheckGeneration
    <3> QED
      BY <1>1, <3>1, <3>2, GoesAfter
  <2> QED
    BY <2>1, <2>2
<1> QED
  BY <1>3, <1>4, <1>5, <1>6

\* Another process writes the directory: it counts.
LEMMA StepOfOther ==
  ASSUME EvidInv, NEW q \in Requests, NEW data, OtherWritesInblob(q, data)
  PROVE  EvidInv'
<1>1. /\ inblobs' = [inblobs EXCEPT ![q] = <<@[1] + 1, data>>]
      /\ UNCHANGED <<evid, userData, regs>>
  BY DEF OtherWritesInblob, KeepsRest
<1>2. /\ DOMAIN inblobs' = Requests /\ inblobs'[q][1] = inblobs[q][1] + 1
      /\ \A o \in Requests \ {q} : inblobs'[o] = inblobs[o]
  BY <1>1 DEF EvidInv, EvidTyped
<1>3. EvidTyped' /\ AloneIsAlone' /\ RegsTyped'
  BY <1>1, <1>2 DEF EvidInv, EvidTyped, AloneIsAlone, RegsTyped
<1>4. InHand(evid[q], inblobs'[q], userData, regs)
  <2>1. InHand(evid[q], inblobs[q], userData, regs)
    BY DEF EvidInv
  <2>2. OwnReport(evid[q], inblobs'[q])
    BY <1>2, <2>1 DEF InHand, OwnReport
  <2> QED
    BY <2>1, <2>2 DEF InHand
<1> QED
  BY <1>1, <1>2, <1>3, <1>4 DEF EvidInv

\* The drivers and libraries that quote in one step, with what comes after.
LEMMA StepsOfDriver ==
  ASSUME EvidInv, NEW q \in Requests, NEW ok \in BOOLEAN,
         \/ QuoteTpm(q, ok) \/ CollectDevices(q, ok) \/ SampleEvidence(q) \/ DownloadChain(q, ok)
         \/ CsvReport(q, ok) \/ SnpReport(q, ok) \/ SeReport(q, ok) \/ DcuReport(q, ok) \/ OcclumReport(q, ok)
  PROVE  EvidInv'
<1>1. /\ InHand(evid[q], inblobs[q], userData, regs) /\ UNCHANGED <<inblobs, userData, regs>>
      /\ evid[q].pc \in {"quote", "report", "chain"}
      /\ DOMAIN inblobs' = Requests /\ \A o \in Requests \ {q} : inblobs'[o] = inblobs[o]
  BY DEF EvidInv, EvidTyped, QuoteTpm, CollectDevices, SampleEvidence, DownloadChain, CsvReport, SnpReport, SeReport,
         DcuReport, OcclumReport, DriverReport, KeepsRest
<1>2. evid[q].pc \notin Over /\ evid[q].pc # "certs"
  BY <1>1 DEF Over
<1>3. ASSUME NEW after \in {"pcrs", "chain", "log", "done"}, Quoted(q, evid[q].data, after),
             after = "pcrs" => evid[q].pc = "quote"
      PROVE  EvidInv'
  BY <1>1, <1>2, <1>3, QuotedOn
<1>4. ASSUME Goes(q, "failed") PROVE EvidInv'
  BY <1>1, <1>2, <1>4, GoesOn
<1>5. ASSUME NEW after \in {"log", "done", "chain"}, DriverReport(q, ok, after) PROVE EvidInv'
  BY <1>3, <1>4, <1>5 DEF DriverReport
<1>6. CASE QuoteTpm(q, ok)
  BY <1>3, <1>4, <1>6 DEF QuoteTpm
<1>7. CASE CollectDevices(q, ok)
  <2>1. CASE Goes(q, "empty")
    BY <1>1, <1>2, <1>7, <2>1, GoesOn DEF CollectDevices
  <2> QED
    BY <1>3, <1>7, <2>1 DEF CollectDevices
<1>8. CASE SampleEvidence(q)
  BY <1>3, <1>8 DEF SampleEvidence
<1>9. CASE DownloadChain(q, ok)
  <2>1. CASE Goes(q, "log")
    BY <1>1, <1>9, <2>1, GoesAfter DEF DownloadChain, InHand, QuoteIsOverData
  <2> QED
    BY <1>4, <1>9, <2>1 DEF DownloadChain
<1>10. CASE CsvReport(q, ok)
  <2>1. CASE "chain wanted" \in machine.present
    BY <1>5, <1>10, <2>1 DEF CsvReport
  <2>2. CASE "chain wanted" \notin machine.present
    BY <1>5, <1>10, <2>2 DEF CsvReport
  <2> QED
    BY <2>1, <2>2
<1>11. CASE SnpReport(q, ok) \/ SeReport(q, ok) \/ DcuReport(q, ok) \/ OcclumReport(q, ok)
  BY <1>5, <1>11 DEF SnpReport, SeReport, DcuReport, OcclumReport
<1> QED
  BY <1>6, <1>7, <1>8, <1>9, <1>10, <1>11

\* Gramine's file is of the request that is alone.
LEMMA StepsOfFile ==
  ASSUME EvidInv, NEW q \in Requests, NEW ok \in BOOLEAN, WriteUserData(q, ok) \/ ReadUserQuote(q)
  PROVE  EvidInv'
<1>1. /\ InHand(evid[q], inblobs[q], userData, regs) /\ UNCHANGED <<inblobs, regs>>
      /\ evid[q].pc \in {"userdata", "userquote"}
      /\ DOMAIN inblobs' = Requests /\ \A o \in Requests \ {q} : inblobs'[o] = inblobs[o]
  BY DEF EvidInv, EvidTyped, WriteUserData, ReadUserQuote, KeepsRest
<1>2. evid[q].pc \notin Over /\ evid[q].pc # "certs" /\ evid[q].tee = "sgx"
  BY <1>1 DEF Over, InHand, OwnFile
<1>3. CASE ReadUserQuote(q)
  <2>1. Quoted(q, userData, "done") /\ (evid[q].alone => userData = evid[q].data)
    BY <1>1, <1>3 DEF ReadUserQuote, InHand, OwnFile
  <2> QED
    BY <1>1, <1>2, <2>1, QuotedOn
<1>4. CASE WriteUserData(q, ok)
  <2>1. CASE ~ ok
    BY <1>1, <1>2, <1>4, <2>1, GoesOn DEF WriteUserData
  <2>2. CASE ok
    <3> DEFINE e == Becomes(evid[q], "userquote", evid[q].quote, evid[q].pcrs)
    <3>1. Goes(q, "userquote") /\ userData' = evid[q].data /\ evid[q].pc = "userdata"
      BY <1>4, <2>2 DEF WriteUserData
    <3>2. /\ e.pc = "userquote" /\ e.quote = evid[q].quote /\ e.pcrs = evid[q].pcrs /\ e.late = evid[q].late
          /\ e.data = evid[q].data /\ e.asked = evid[q].asked /\ e.tee = evid[q].tee
          /\ BecomesItself(e) /\ e.alone = evid[q].alone
      BY BecomesFields
    <3> HIDE DEF e
    <3>3. Fits(e) /\ PcrsFollow(e)
      BY <1>1, <3>1, <3>2 DEF InHand, Fits, QuoteIsOverPcrs, PcrsFollow
    <3>4. InHand(e, inblobs'[q], userData', regs)
      BY <1>1, <1>2, <3>1, <3>2, <3>3 DEF InHand, OwnReport, OwnFile, QuoteIsOverData, QuoteIsOverPcrs
    <3> QED
      BY <1>1, <1>2, <3>1, <3>2, <3>4, GoesBecomes, OneMoves DEF e
  <2> QED
    BY <2>1, <2>2
<1> QED
  BY <1>3, <1>4

\* PCRs: read after the quote of a TPM, with the quote of Azure's.
LEMMA StepOfPcrs ==
  ASSUME EvidInv, NEW q \in Requests, NEW ok \in BOOLEAN, ReadAllPcrs(q, ok)
  PROVE  EvidInv'
<1> DEFINE pc == IF ok THEN "done" ELSE "failed"
           e == Becomes(evid[q], pc, evid[q].quote, regs)
<1>1. /\ InHand(evid[q], inblobs[q], userData, regs) /\ UNCHANGED <<inblobs, userData, regs>>
      /\ evid[q].pc = "pcrs" /\ evid[q].pc \notin Over
      /\ DOMAIN inblobs' = Requests /\ \A o \in Requests \ {q} : inblobs'[o] = inblobs[o]
  BY DEF EvidInv, EvidTyped, ReadAllPcrs, KeepsRest, Over
<1>2. pc \in {"done", "failed"}
  OBVIOUS
<1>3. evid' = [evid EXCEPT ![q] = [evid[q] EXCEPT !.pcrs = regs, !.pc = pc]]
  BY DEF ReadAllPcrs, EvidInv, EvidTyped
<1> HIDE DEF pc
<1>4. [evid[q] EXCEPT !.pcrs = regs, !.pc = pc] = e
  <2>1. evid[q] = Becomes(evid[q], evid[q].pc, evid[q].quote, evid[q].pcrs)
    BY DEF EvidInv, EvidTyped
  <2>2. [evid[q] EXCEPT !.pcrs = regs] = Becomes(evid[q], evid[q].pc, evid[q].quote, regs)
    BY <2>1 DEF Becomes
  <2>3. [Becomes(evid[q], evid[q].pc, evid[q].quote, regs) EXCEPT !.pc = pc] = e
    BY DEF Becomes
  <2>4. [evid[q] EXCEPT !.pcrs = regs, !.pc = pc] = [[evid[q] EXCEPT !.pcrs = regs] EXCEPT !.pc = pc]
    OBVIOUS
  <2> QED
    BY <2>2, <2>3, <2>4
<1>5. /\ e.pc = pc /\ e.quote = evid[q].quote /\ e.pcrs = regs /\ e.late = evid[q].late
      /\ e.data = evid[q].data /\ e.asked = evid[q].asked /\ e.tee = evid[q].tee
      /\ BecomesItself(e) /\ e.alone = evid[q].alone
  BY BecomesFields
<1> HIDE DEF e
<1>6. Fits(e)
  BY <1>1, <1>5 DEF InHand, Fits
<1>7. PcrsFollow(e) /\ e.quote # NoQuote
  BY <1>1, <1>5 DEF InHand, QuoteIsOverPcrs, PcrsFollow, Grown
<1>8. InHand(e, inblobs'[q], userData', regs)
  BY <1>1, <1>2, <1>5, <1>6, <1>7 DEF InHand, OwnReport, OwnFile, QuoteIsOverData, QuoteIsOverPcrs
<1> QED
  BY <1>1, <1>3, <1>4, <1>5, <1>8, OneMoves

LEMMA StepOfAzure ==
  ASSUME EvidInv, NEW q \in Requests, NEW ok \in BOOLEAN, AzureStep(q, ok)
  PROVE  EvidInv'
<1>1. /\ InHand(evid[q], inblobs[q], userData, regs) /\ UNCHANGED <<inblobs, userData, regs>>
      /\ evid[q].pc \in {"hcl", "tdquote", "vtpm", "certs"} /\ evid[q].pc \notin Over
      /\ DOMAIN inblobs' = Requests /\ \A o \in Requests \ {q} : inblobs'[o] = inblobs[o]
  BY DEF EvidInv, EvidTyped, AzureStep, KeepsRest, Over
<1>2. CASE Goes(q, "failed")
  BY <1>1, <1>2, GoesOn
<1>3. CASE ok /\ evid[q].pc \in {"hcl", "tdquote"}
  <2>1. Goes(q, "tdquote") \/ Goes(q, "vtpm")
    BY <1>3 DEF AzureStep
  <2> QED
    BY <1>1, <1>3, <2>1, GoesOn
<1>4. CASE ok /\ evid[q].pc = "certs"
  <2>1. Goes(q, "done")
    BY <1>4 DEF AzureStep
  <2> QED
    BY <1>1, <1>4, <2>1, GoesAfter DEF InHand, QuoteIsOverData
<1>5. CASE ok /\ evid[q].pc = "vtpm"
  <2> DEFINE pc == IF evid[q].tee = "az-snp" THEN "certs" ELSE "done"
             quote == QuoteOf(evid[q].data)
             e == Becomes(evid[q], pc, quote, regs)
  <2>1. /\ pc \in {"certs", "done"} /\ quote # NoQuote /\ quote.data = evid[q].data /\ quote.regs = regs
        /\ Grown(quote.regs, regs)
    BY QuoteIsMade DEF EvidInv
  <2>2. evid' = [evid EXCEPT ![q] = [evid[q] EXCEPT !.quote = quote, !.pcrs = regs, !.pc = pc]]
    BY <1>5 DEF AzureStep, EvidInv, EvidTyped
  <2> HIDE DEF pc, quote
  <2>3. [evid[q] EXCEPT !.quote = quote, !.pcrs = regs, !.pc = pc] = e
    <3>1. evid[q] = Becomes(evid[q], evid[q].pc, evid[q].quote, evid[q].pcrs)
      BY DEF EvidInv, EvidTyped
    <3>2. [evid[q] EXCEPT !.quote = quote] = Becomes(evid[q], evid[q].pc, quote, evid[q].pcrs)
      BY <3>1 DEF Becomes
    <3>3. [Becomes(evid[q], evid[q].pc, quote, evid[q].pcrs) EXCEPT !.pcrs = regs]
            = Becomes(evid[q], evid[q].pc, quote, regs)
      BY DEF Becomes
    <3>4. [Becomes(evid[q], evid[q].pc, quote, regs) EXCEPT !.pc = pc] = e
      BY DEF Becomes
    <3>5. [evid[q] EXCEPT !.quote = quote, !.pcrs = regs, !.pc = pc]
            = [[[evid[q] EXCEPT !.quote = quote] EXCEPT !.pcrs = regs] EXCEPT !.pc = pc]
      OBVIOUS
    <3> QED
      BY <3>2, <3>3, <3>4, <3>5
  <2>4. /\ e.pc = pc /\ e.quote = quote /\ e.pcrs = regs /\ e.late = evid[q].late
        /\ e.data = evid[q].data /\ e.asked = evid[q].asked /\ e.tee = evid[q].tee
        /\ BecomesItself(e) /\ e.alone = evid[q].alone
    BY BecomesFields
  <2> HIDE DEF e
  <2>5. Fits(e) /\ PcrsFollow(e)
    BY <1>1, <1>5, <2>1, <2>4 DEF InHand, Fits, PcrsFollow, Grown
  <2>6. InHand(e, inblobs'[q], userData', regs)
    BY <1>1, <2>1, <2>4, <2>5 DEF InHand, OwnReport, OwnFile, QuoteIsOverData, QuoteIsOverPcrs
  <2> QED
    BY <1>1, <2>2, <2>3, <2>4, <2>6, OneMoves
<1> QED
  BY <1>1, <1>2, <1>3, <1>4, <1>5 DEF AzureStep

\* The log comes last, whatever is in it.
LEMMA StepOfLog ==
  ASSUME EvidInv, NEW q \in Requests, ReadLog(q)
  PROVE  EvidInv'
<1> DEFINE log == ReadEventlog(machine.ccel, LogsEvents(machine), aael)
           late == evid[q].quote.after > Len(aael)
           pc == IF CcelIsLegal(machine.ccel) THEN "done" ELSE "failed"
           e == [evid[q] EXCEPT !.log = log, !.late = late, !.pc = pc]
<1>1. /\ InHand(evid[q], inblobs[q], userData, regs) /\ UNCHANGED <<inblobs, userData, regs>>
      /\ evid[q].pc = "log" /\ evid[q].pc \notin Over
      /\ DOMAIN inblobs' = Requests /\ \A o \in Requests \ {q} : inblobs'[o] = inblobs[o]
  BY DEF EvidInv, EvidTyped, ReadLog, KeepsRest, Over
<1>2. pc \in {"done", "failed"}
  OBVIOUS
<1>3. evid' = [evid EXCEPT ![q] = e]
  BY DEF ReadLog, EvidInv, EvidTyped
<1> HIDE DEF log, late, pc
<1>4. /\ e.pc = pc /\ e.quote = evid[q].quote /\ e.pcrs = evid[q].pcrs
      /\ e.data = evid[q].data /\ e.asked = evid[q].asked /\ e.tee = evid[q].tee
      /\ BecomesItself(e) /\ e.alone = evid[q].alone
  <2> DEFINE f == evid[q]
             R(l, s, p) == [pc |-> p, tee |-> f.tee, asked |-> f.asked, data |-> f.data, quote |-> f.quote,
                            pcrs |-> f.pcrs, log |-> l, alone |-> f.alone, late |-> s]
  <2>1. f = R(f.log, f.late, f.pc)
    BY DEF EvidInv, EvidTyped, Becomes
  <2>2. [f EXCEPT !.log = log] = R(log, f.late, f.pc)
    BY <2>1
  <2>3. [R(log, f.late, f.pc) EXCEPT !.late = late] = R(log, late, f.pc)
    OBVIOUS
  <2>4. [R(log, late, f.pc) EXCEPT !.pc = pc] = R(log, late, pc)
    OBVIOUS
  <2>5. e = [[[f EXCEPT !.log = log] EXCEPT !.late = late] EXCEPT !.pc = pc]
    OBVIOUS
  <2>6. e = R(log, late, pc)
    BY <2>2, <2>3, <2>4, <2>5
  <2> HIDE DEF e
  <2> QED
    BY <2>6 DEF Becomes, BecomesItself
<1> HIDE DEF e
<1>5. e.pcrs = <<>> /\ evid[q].pcrs = <<>>
  BY <1>1, <1>4 DEF InHand, QuoteIsOverPcrs
<1>6. Fits(e) /\ PcrsFollow(e)
  BY <1>1, <1>4, <1>5 DEF InHand, Fits, PcrsFollow
<1>7. InHand(e, inblobs'[q], userData', regs)
  BY <1>1, <1>2, <1>4, <1>5, <1>6 DEF InHand, OwnReport, OwnFile, QuoteIsOverData, QuoteIsOverPcrs
<1> QED
  BY <1>1, <1>3, <1>4, <1>7, OneMoves

\* Report data that are not refused are kept as far as there is place for them.
LEMMA ReportedFits ==
  ASSUME NEW tee, NEW data \in Seq(Nat), ~ Refused(tee, data)
  PROVE  /\ Agree(Reported(tee, data), data)
         /\ tee \notin {"tpm", "nvidia"} => Len(Reported(tee, data)) >= Len(data) \/ Len(data) > ReportBlocks
<1>1. Len(data) \in Nat /\ KeptBlocks(tee) \in Nat
  BY DEF KeptBlocks, ReportBlocks
<1>2. CASE tee \in {"az-snp", "az-tdx", "sample", "sample-device"}
  <2>1. Reported(tee, data) = data
    BY <1>2 DEF Reported
  <2> QED
    BY <1>1, <2>1, AgreeByBlocks
<1>3. CASE tee \notin {"az-snp", "az-tdx", "sample", "sample-device"}
  <2> DEFINE n == KeptBlocks(tee)
             padded == [i \in 1 .. n |-> IF i <= Len(data) THEN data[i] ELSE Zero]
  <2>1. Reported(tee, data) = padded
    BY <1>3 DEF Reported, Pad
  <2>2. n \in Nat /\ (tee \notin {"tpm", "nvidia"} => n = ReportBlocks)
    BY <1>1 DEF KeptBlocks
  <2> HIDE DEF n
  <2>3. Len(padded) = n /\ \A k \in 1 .. n : k <= Len(data) => padded[k] = data[k]
    BY <2>2
  <2> HIDE DEF padded
  <2>4. Agree(padded, data)
    BY <1>1, <2>2, <2>3, AgreeByBlocks
  <2> QED
    BY <1>1, <2>1, <2>2, <2>3, <2>4 DEF ReportBlocks
<1> QED
  BY <1>2, <1>3

LEMMA AdjustedTyped ==
  ASSUME NEW tee, NEW data \in Seq(Nat)
  PROVE  AdjustReportData(tee, data) \in Seq(Nat)
<1>1. ASSUME NEW n \in Nat, n <= Len(data) PROVE SubSeq(data, 1, n) \in Seq(Nat)
  BY <1>1, SubSeqProperties
<1>2. CASE Len(data) < 2
  BY <1>1, <1>2 DEF AdjustReportData
<1>3. CASE ~ (Len(data) < 2)
  BY <1>1, <1>3 DEF AdjustReportData
<1> QED
  BY <1>2, <1>3

\* What AskEvidence makes of a slot.
Asked(pc, tee, given, kept, alone) ==
  [NoRequest EXCEPT !.pc = pc, !.tee = tee, !.asked = given, !.data = kept, !.alone = alone]

LEMMA AskedFields ==
  ASSUME NEW pc, NEW tee, NEW given, NEW kept, NEW alone
  PROVE  LET e == Asked(pc, tee, given, kept, alone) IN
         /\ BecomesItself(e) /\ e.pc = pc /\ e.tee = tee /\ e.asked = given /\ e.data = kept /\ e.alone = alone
         /\ e.quote = NoQuote /\ e.pcrs = <<>>
<1> DEFINE e == Asked(pc, tee, given, kept, alone)
           none == <<>>
           yes == TRUE
           no == FALSE
           idle == "idle"
           unasked == "none"
           R(p, t, a, d, l) == [pc |-> p, tee |-> t, asked |-> a, data |-> d, quote |-> NoQuote, pcrs |-> <<>>,
                                log |-> <<>>, alone |-> l, late |-> no]
<1>1. NoRequest = R(idle, unasked, none, none, yes)
  BY DEF NoRequest
<1> HIDE DEF yes, no, none, idle, unasked
<1> DEFINE e1 == [NoRequest EXCEPT !.pc = pc]
           e2 == [e1 EXCEPT !.tee = tee]
           e3 == [e2 EXCEPT !.asked = given]
           e4 == [e3 EXCEPT !.data = kept]
<1>2. e = [e4 EXCEPT !.alone = alone]
  BY DEF Asked
<1>3. e1 = R(pc, unasked, none, none, yes)
  BY <1>1
<1> HIDE DEF e1
<1>4. e2 = R(pc, tee, none, none, yes)
  BY <1>3
<1> HIDE DEF e2
<1>5. e3 = R(pc, tee, given, none, yes)
  BY <1>4
<1> HIDE DEF e3
<1>6. e4 = R(pc, tee, given, kept, yes)
  BY <1>5
<1> HIDE DEF e4, e
<1>7. [e4 EXCEPT !.alone = alone] = R(pc, tee, given, kept, alone)
  BY <1>6
<1> HIDE DEF R
<1>8. e = R(pc, tee, given, kept, alone)
  BY <1>2, <1>7
<1>9. /\ BecomesItself(e) /\ e.pc = pc /\ e.tee = tee /\ e.asked = given /\ e.data = kept /\ e.alone = alone
      /\ e.quote = NoQuote /\ e.pcrs = <<>>
  BY <1>8 DEF R, Becomes, BecomesItself
<1> QED
  BY <1>9 DEF e

LEMMA StepOfAsk ==
  ASSUME EvidInv, NEW q \in Requests, NEW tee, NEW data \in Seq(Nat), NEW adjusted \in BOOLEAN,
         AskEvidence(q, tee, data, adjusted)
  PROVE  EvidInv'
<1> DEFINE given == IF adjusted THEN AdjustReportData(tee, data) ELSE data
           pc == IF Refused(tee, given) THEN "failed" ELSE FirstStep(tee)
           alone == \A o \in Requests \ {q} : evid[o].pc \in Over
           kept == Reported(tee, given)
           e == Asked(pc, tee, given, kept, alone)
<1>1. /\ UNCHANGED <<inblobs, userData, regs>> /\ evid[q].pc \in Over
      /\ evid' = [r \in Requests |-> IF r = q THEN e ELSE [evid[r] EXCEPT !.alone = (evid[r].pc = "idle")]]
  BY DEF AskEvidence, Asked
<1>2. given \in Seq(Nat)
  BY AdjustedTyped
<1>3. /\ pc \in {"failed", "dir", "quote", "hcl", "userdata", "report"}
      /\ pc = "userdata" => tee = "sgx"
  BY DEF FirstStep
<1> HIDE DEF kept
<1>12. pc = "quote" => tee = "tpm"
  BY DEF FirstStep
<1>4. pc # "failed" => ~ Refused(tee, given)
  OBVIOUS
<1> HIDE DEF given, alone, pc, kept
<1>5. /\ BecomesItself(e) /\ e.pc = pc /\ e.tee = tee /\ e.asked = given /\ e.data = kept /\ e.alone = alone
      /\ e.quote = NoQuote /\ e.pcrs = <<>>
  BY AskedFields
<1> HIDE DEF e
<1>6. pc # "failed" => Fits(e)
  BY <1>2, <1>4, <1>5, ReportedFits DEF Fits, kept
<1>7. InHand(e, inblobs[q], userData, regs)
  BY <1>3, <1>12, <1>5, <1>6 DEF InHand, OwnReport, OwnFile, QuoteIsOverData, QuoteIsOverPcrs, PcrsFollow
<1>8. ASSUME NEW o \in Requests \ {q}
      PROVE  /\ BecomesItself(evid'[o]) /\ evid'[o].pc = evid[o].pc /\ (evid'[o].alone => evid[o].pc = "idle")
             /\ InHand(evid'[o], inblobs[o], userData, regs)
  <2> DEFINE f == evid[o]
             idle == f.pc = "idle"
             m == [f EXCEPT !.alone = idle]
  <2>1. evid'[o] = m
    BY <1>1
  <2>2. f = Becomes(f, f.pc, f.quote, f.pcrs) /\ InHand(f, inblobs[o], userData, regs)
    BY DEF EvidInv, EvidTyped
  <2> HIDE DEF idle
  <2>3. /\ BecomesItself(m) /\ m.pc = f.pc /\ m.tee = f.tee /\ m.asked = f.asked /\ m.data = f.data
        /\ m.quote = f.quote /\ m.pcrs = f.pcrs /\ m.late = f.late /\ m.alone = idle
    BY <2>2 DEF Becomes, BecomesItself
  <2> HIDE DEF m, f
  <2>4. m.alone => f.pc = "idle"
    BY <2>3 DEF idle
  <2>5. f.pc \notin {"idle", "failed"} => Fits(m)
    BY <2>2, <2>3 DEF InHand, Fits
  <2>6. PcrsFollow(m)
    BY <2>2, <2>3 DEF InHand, QuoteIsOverPcrs, PcrsFollow
  <2>7. InHand(m, inblobs[o], userData, regs)
    BY <2>2, <2>3, <2>4, <2>5, <2>6 DEF InHand, OwnReport, OwnFile, QuoteIsOverData, QuoteIsOverPcrs
  <2> QED
    BY <2>1, <2>3, <2>4, <2>7 DEF f
<1>9. evid'[q] = e /\ DOMAIN evid' = Requests
  BY <1>1
<1>10. EvidTyped' /\ RegsTyped'
  BY <1>1, <1>5, <1>8, <1>9 DEF EvidInv, EvidTyped, RegsTyped, BecomesItself
<1>11. AloneIsAlone'
  <2>1. ASSUME NEW o \in Requests, evid'[o].alone, evid'[o].pc \notin Over, NEW p \in Requests \ {o}
        PROVE  evid'[p].pc \in Over
    <3>1. o = q
      BY <1>8, <2>1 DEF Over
    <3> QED
      BY <1>5, <1>8, <1>9, <2>1, <3>1 DEF alone
  <2> QED
    BY <2>1 DEF AloneIsAlone
<1> QED
  BY <1>1, <1>7, <1>8, <1>9, <1>10, <1>11 DEF EvidInv

\* Registers grow.
LEMMA StepOfGrowth ==
  ASSUME EvidInv, NEW r \in 0 .. 23, NEW v \in Digests, regs' = [regs EXCEPT ![r] = Append(@, v)],
         RegsTyped', UNCHANGED <<evid, inblobs, userData>>
  PROVE  EvidInv'
<1>1. ASSUME NEW o \in Requests PROVE InHand(evid[o], inblobs[o], userData, regs')
  <2>1. InHand(evid[o], inblobs[o], userData, regs)
    BY DEF EvidInv
  <2>2. evid[o].quote # NoQuote => Grown(evid[o].quote.regs, regs')
    <3> SUFFICES ASSUME evid[o].quote # NoQuote, NEW s \in 0 .. 23
                 PROVE  Len(evid[o].quote.regs[s]) \in Nat /\ IsPrefix(evid[o].quote.regs[s], regs'[s])
      BY DEF Grown
    <3>1. IsPrefix(evid[o].quote.regs[s], regs[s]) /\ Len(evid[o].quote.regs[s]) \in Nat
      BY <2>1 DEF InHand, QuoteIsOverPcrs, Grown
    <3>2. regs[s] \in Seq(Digests) /\ regs'[s] = IF s = r THEN Append(regs[s], v) ELSE regs[s]
      BY DEF EvidInv, RegsTyped
    <3> QED
      BY <3>1, <3>2, PrefixGrows
  <2> QED
    BY <2>1, <2>2 DEF InHand, QuoteIsOverPcrs
<1>2. EvidTyped' /\ AloneIsAlone'
  BY DEF EvidInv, EvidTyped, AloneIsAlone
<1> QED
  BY <1>1, <1>2 DEF EvidInv

LEMMA EvidNextInv == EvidInv /\ MeasureInv /\ MeasureInv' /\ [AttestersNext]_attVars => EvidInv'
<1> SUFFICES ASSUME EvidInv, MeasureInv, MeasureInv', [AttestersNext]_attVars PROVE EvidInv'
  OBVIOUS
<1>1. ASSUME UNCHANGED <<evid, inblobs, userData, regs>> PROVE EvidInv'
  BY <1>1 DEF EvidInv, EvidTyped, AloneIsAlone, RegsTyped
<1>2. ASSUME NEW q \in Requests, NEW t, NEW data \in ReportDatas, NEW adjusted \in BOOLEAN,
             AskEvidence(q, t, data, adjusted)
      PROVE  EvidInv'
  BY <1>2, StepOfAsk, AttestersAssumption
<1>3. ASSUME NEW q \in Requests, NEW ok \in BOOLEAN,
             \/ MakeReportDir(q, ok) \/ WriteInblob(q) \/ ReadOutblob(q, ok) \/ CheckGeneration(q)
             \/ QuoteTpm(q, ok) \/ CollectDevices(q, ok) \/ SampleEvidence(q) \/ DownloadChain(q, ok)
             \/ CsvReport(q, ok) \/ SnpReport(q, ok) \/ SeReport(q, ok) \/ DcuReport(q, ok) \/ OcclumReport(q, ok)
             \/ WriteUserData(q, ok) \/ ReadUserQuote(q)
             \/ ReadAllPcrs(q, ok) \/ AzureStep(q, ok) \/ ReadLog(q)
      PROVE  EvidInv'
  BY <1>3, StepsOfReport, StepsOfDriver, StepsOfFile, StepOfPcrs, StepOfAzure, StepOfLog
<1>4. ASSUME NEW q \in Requests, NEW data, OtherWritesInblob(q, data) PROVE EvidInv'
  BY <1>4, StepOfOther
<1>5. ASSUME NEW d \in Digests, BindToConfiguration(d) \/ BindToPcr(d) \/ \E i \in Indices : ExtendRuntimeMeasurement(i, d)
      PROVE  EvidInv'
  <2>1. CASE BindToConfiguration(d)
    BY <1>1, <2>1 DEF BindToConfiguration
  <2>2. CASE BindToPcr(d)
    <3>1. CASE regs' = regs
      BY <1>1, <2>2, <3>1 DEF BindToPcr
    <3>2. CASE regs' = [regs EXCEPT ![InitDataPcr] = Append(@, d)]
      <4>1. InitDataPcr \in 0 .. 23 /\ RegsTyped' /\ UNCHANGED <<evid, inblobs, userData>>
        BY <2>2 DEF InitDataPcr, BindToPcr, MeasureInv
      <4> HIDE DEF InitDataPcr
      <4> QED
        BY <3>2, <4>1, StepOfGrowth
    <3> QED
      BY <2>2, <3>1, <3>2 DEF BindToPcr
  <2>3. CASE \E i \in Indices : ExtendRuntimeMeasurement(i, d)
    <3>1. PICK i \in Indices : ExtendRuntimeMeasurement(i, d)
      BY <2>3
    <3>2. \E r \in 0 .. 23 : regs' = [regs EXCEPT ![r] = Append(@, d)]
      BY <3>1, ExtensionGrows
    <3>3. RegsTyped' /\ UNCHANGED <<evid, inblobs, userData>>
      BY <3>1 DEF ExtendRuntimeMeasurement, MeasureInv
    <3> QED
      BY <3>2, <3>3, StepOfGrowth
  <2> QED
    BY <1>5, <2>1, <2>2, <2>3
<1>6. ASSUME NEW m \in Machines, BootMachine(m) PROVE EvidInv'
  BY <1>1, <1>6 DEF BootMachine
<1>7. CASE WriteEvent
  BY <1>1, <1>7 DEF WriteEvent
<1>8. ASSUME NEW i \in Indices, GetRuntimeMeasurement(i) PROVE EvidInv'
  BY <1>1, <1>8 DEF GetRuntimeMeasurement
<1>9. CASE UNCHANGED attVars
  BY <1>1, <1>9 DEF attVars
<1> QED
  BY <1>2, <1>3, <1>4, <1>5, <1>6, <1>7, <1>8, <1>9 DEF AttestersNext

(***************************************************************************)
(* The log in evidence.  At any time the events that were extended replay  *)
(* to the registers; a quote has them up to one of these events; and what  *)
(* a verifier finds in the log before the first mark are these events.     *)
(***************************************************************************)

MeasuresByLog == Primary \in {"tdx", "csv"}

\* The events up to n replay to these registers.
Explained(registers, log, n) == Replays(registers, log, AskedInto(log, n))

Tallied == machine = NoMachine \/ MeasuresByLog => Explained(regs, Log, Len(Log))

Booted == machine = NoMachine \/ machine \in Machines

\* The steps to a quote and a log.
Path(tee) ==
  IF tee = "tdx" THEN {"dir", "inblob", "outblob", "generation", "log", "done", "failed"}
  ELSE {"report", "chain", "log", "done", "failed"}

QuoteIsExplained(e, log) ==
  e.pc \in {"generation", "chain", "log"} =>
    e.quote.after \in 0 .. Len(log) /\ Explained(e.quote.regs, log, e.quote.after)

LogInHand(e, log) ==
  e.tee \in {"tdx", "csv"} =>
    /\ machine # NoMachine /\ Primary = e.tee /\ e.pc \in Path(e.tee)
    /\ QuoteIsExplained(e, log)
    /\ e.pc = "done" => LogReplays(e)

LogInv == Booted /\ Tallied /\ \A q \in Requests : LogInHand(evid[q], Log)

\* Registers and logs mean the same as long as the machine does.
LEMMA SameMeaning ==
  ASSUME UNCHANGED machine
  PROVE  /\ \A i : MeasuredRegister(i)' = MeasuredRegister(i)
         /\ \A log, n : AskedInto(log, n)' = AskedInto(log, n)
         /\ \A registers, log, n : Explained(registers, log, n)' <=> Explained(registers, log, n)
         /\ \A e : LogReplays(e)' <=> LogReplays(e)
         /\ \A e, log : LogInHand(e, log)' <=> LogInHand(e, log)
         /\ MeasuresByLog' = MeasuresByLog
<1>1. Primary' = Primary
  BY DEF Primary
<1>2. \A i : MeasuredRegister(i)' = MeasuredRegister(i)
  BY <1>1 DEF MeasuredRegister, MeasuredRtmr, MeasuredCsv
<1>3. /\ \A log, n : AskedInto(log, n)' = AskedInto(log, n) /\ NamedInto(log, n)' = NamedInto(log, n)
      /\ \A log, n : AskedForInitPcr(log, n)' <=> AskedForInitPcr(log, n)
  BY <1>1, <1>2 DEF AskedInto, NamedInto, AskedForInitPcr, RegisterNamed
<1>4. \A registers, log, n : Explained(registers, log, n)' <=> Explained(registers, log, n)
  BY <1>3 DEF Explained
<1>5. \A e : LogReplays(e)' <=> LogReplays(e)
  BY <1>3 DEF LogReplays
<1>6. \A e, log : LogInHand(e, log)' <=> LogInHand(e, log)
  BY <1>1, <1>4, <1>5 DEF LogInHand, QuoteIsExplained
<1> QED
  BY <1>1, <1>2, <1>3, <1>4, <1>5, <1>6 DEF MeasuresByLog

\* The first n entries of a log of events alone that are into a register.
Entries(log, n, r) == {k \in 1 .. Len(log) : k <= n /\ MeasuredRegister(log[k].index) = {r}}

LEMMA EventsAreAll ==
  ASSUME NEW log \in Seq(Events)
  PROVE  /\ EventsOf(log) = 1 .. Len(log)
         /\ \A r \in 0 .. 23 : \A n : AskedInto(log, n)[r] = Entries(log, n, r)
<1>1. \A k \in 1 .. Len(log) : log[k].kind = "event" /\ ~ IsMark(log[k])
  <2>1. \A e \in Events : e.kind = "event"
    BY DEF Events
  <2> QED
    BY <2>1 DEF IsMark
<1>2. EventsOf(log) = 1 .. Len(log)
  BY <1>1 DEF EventsOf
<1> QED
  BY <1>2 DEF AskedInto, Entries

\* An explanation needs the events up to its end only.
LEMMA SameEvents ==
  ASSUME NEW a \in Seq(Events), NEW b \in Seq(Events), NEW n \in Nat, n <= Len(a), n <= Len(b),
         \A k \in 1 .. n : a[k] = b[k], NEW registers, Explained(registers, a, n)
  PROVE  Explained(registers, b, n)
<1>1. ASSUME NEW r \in 0 .. 23
      PROVE  AskedInto(a, n)[r] = AskedInto(b, n)[r] /\ \A k \in AskedInto(b, n)[r] : a[k] = b[k]
  <2>1. AskedInto(a, n)[r] = Entries(a, n, r) /\ AskedInto(b, n)[r] = Entries(b, n, r)
    BY EventsAreAll
  <2>2. \A k : /\ k \in 1 .. Len(a) /\ k <= n <=> k \in 1 .. n
               /\ k \in 1 .. Len(b) /\ k <= n <=> k \in 1 .. n
    OBVIOUS
  <2> QED
    BY <2>1, <2>2 DEF Entries
<1>2. ASSUME NEW r \in 0 .. 23
      PROVE  LET into == AskedInto(b, n)[r] IN
             /\ Len(registers[r]) = Cardinality(into)
             /\ \A k \in into : registers[r][Cardinality({j \in into : j <= k})] = b[k].digest
  <2> DEFINE from == AskedInto(a, n)[r]
             into == AskedInto(b, n)[r]
  <2>1. Replays(registers, a, AskedInto(a, n))
    BY DEF Explained
  <2>2. /\ Len(registers[r]) = Cardinality(from)
        /\ \A k \in from : registers[r][Cardinality({j \in from : j <= k})] = a[k].digest
    BY ONLY <2>1, <1>2 DEF Replays
  <2>3. from = into /\ \A k \in into : a[k] = b[k]
    BY <1>1
  <2> HIDE DEF from, into
  <2>4. /\ Len(registers[r]) = Cardinality(into)
        /\ \A k \in into : registers[r][Cardinality({j \in into : j <= k})] = b[k].digest
    BY ONLY <2>2, <2>3
  <2> QED
    BY <2>4 DEF into
<1> QED
  BY <1>2 DEF Explained, Replays

Less == {p \in Nat \X Nat : p[1] < p[2]}

LEMMA LeastNumber == ASSUME NEW T, T \subseteq Nat, T # {} PROVE \E x \in T : \A y \in T : x <= y
<1>1. IsWellFoundedOn(Less, Nat)
  BY NatLessThanWellFounded DEF OpToRel, Less
<1>2. PICK x \in T : \A y \in T : <<y, x>> \notin Less
  BY <1>1, WFMin
<1>3. \A y \in T : ~ (y < x)
  <2> TAKE y \in T
  <2>1. <<y, x>> \in Nat \X Nat /\ <<y, x>>[1] = y /\ <<y, x>>[2] = x
    OBVIOUS
  <2> QED
    BY <1>2, <2>1 DEF Less
<1> QED
  BY <1>3

LEMMA FirstMark ==
  ASSUME NEW S, NEW s \in Seq(S)
  PROVE  /\ SelectInSeq(s, IsMark) \in 0 .. Len(s)
         /\ \A j \in 1 .. SelectInSeq(s, IsMark) - 1 : ~ IsMark(s[j])
<1> DEFINE marks == {i \in 1 .. Len(s) : IsMark(s[i])}
           first == SelectInSeq(s, IsMark)
<1>1. marks \subseteq Nat /\ first = IF marks # {} THEN CHOOSE x \in marks : \A y \in marks : x <= y ELSE 0
  BY DEF SelectInSeq, Min
<1>2. \A j \in 1 .. Len(s) : IsMark(s[j]) => j \in marks
  OBVIOUS
<1>3. marks \subseteq 1 .. Len(s) /\ Len(s) \in Nat
  OBVIOUS
<1> HIDE DEF marks, first
<1>4. first \in 0 .. Len(s) /\ \A j \in 1 .. first - 1 : ~ IsMark(s[j])
  <2>1. CASE marks = {}
    BY <1>1, <1>3, <2>1
  <2>2. CASE marks # {}
    <3>1. \E x \in marks : \A y \in marks : x <= y
      BY <1>1, <2>2, LeastNumber
    <3>2. first \in marks /\ \A y \in marks : first <= y
      BY <1>1, <2>2, <3>1
    <3>3. first \in 1 .. Len(s)
      BY <1>3, <3>2
    <3>4. ASSUME NEW j \in 1 .. first - 1 PROVE ~ IsMark(s[j])
      <4>1. j \in 1 .. Len(s) /\ ~ (first <= j)
        BY <1>3, <3>3
      <4> QED
        BY <1>2, <3>2, <4>1
    <3> QED
      BY <3>3, <3>4
  <2> QED
    BY <2>1, <2>2
<1> QED
  BY <1>4 DEF first

TableEntries == [kind : {"boot", "end", "junk"}]
Heads == TableEntries \cup {Header}

\* What comes before the agent's events is not taken for one of them, nor for their end.
LEMMA HeadIsApart ==
  ASSUME NEW ccel \in Seq(TableEntries)
  PROVE  /\ TrimCcel(ccel) \in Seq(Heads)
         /\ \A j \in 1 .. Len(TrimCcel(ccel)) : TrimCcel(ccel)[j].kind \notin {"event", "end"}
<1> DEFINE first == SelectInSeq(ccel, IsMark)
<1>1. first \in 0 .. Len(ccel) /\ \A j \in 1 .. first - 1 : ~ IsMark(ccel[j])
  BY FirstMark
<1> HIDE DEF first
<1>2. TrimCcel(ccel) = SubSeq(ccel, 1, first - 1)
  BY DEF TrimCcel, first
<1>3. /\ Len(TrimCcel(ccel)) = IF first = 0 THEN 0 ELSE first - 1
      /\ TrimCcel(ccel) \in Seq(TableEntries)
      /\ \A j \in 1 .. Len(TrimCcel(ccel)) : TrimCcel(ccel)[j] = ccel[j]
  BY <1>1, <1>2
<1>4. TrimCcel(ccel) \in Seq(Heads)
  BY <1>3 DEF Heads
<1>5. \A j \in 1 .. Len(TrimCcel(ccel)) : TrimCcel(ccel)[j].kind \notin {"event", "end"}
  <2> TAKE j \in 1 .. Len(TrimCcel(ccel))
  <2>1. j \in 1 .. first - 1 /\ j \in 1 .. Len(ccel)
    BY <1>1, <1>3
  <2>2. ccel[j] \in TableEntries /\ ~ IsMark(ccel[j])
    BY <1>1, <2>1
  <2> QED
    BY <1>3, <2>2 DEF IsMark, TableEntries
<1> QED
  BY <1>4, <1>5

LEMMA AskedIsFinite ==
  ASSUME NEW log \in Seq(Events), NEW n, NEW r \in 0 .. 23, NEW S \in SUBSET AskedInto(log, n)[r]
  PROVE  IsFiniteSet(S) /\ Cardinality(S) \in Nat
<1>1. AskedInto(log, n)[r] = Entries(log, n, r)
  BY EventsAreAll
<1>2. S \subseteq 1 .. Len(log)
  BY <1>1 DEF Entries
<1>3. Len(log) \in Int /\ 1 \in Int
  OBVIOUS
<1>4. IsFiniteSet(1 .. Len(log))
  BY <1>3, FS_Interval
<1> QED
  BY <1>2, <1>4, FS_Subset, FS_CardinalityType

\* The agent's events in what read_eventlog returns.
LEMMA LogIsRead ==
  ASSUME NEW ccel \in Seq(TableEntries), NEW exists \in BOOLEAN, NEW own \in Seq(Events), own # <<>> => exists
  PROVE  LET log == ReadEventlog(ccel, exists, own) IN
         /\ Len(log) \in Nat
         /\ \E n \in Nat :
              /\ n + Len(own) <= Len(log)
              /\ \A k : k \in EventsOf(log) <=> \E i \in 1 .. Len(own) : k = n + i
              /\ \A i \in 1 .. Len(own) : log[n + i] = own[i]
<1> DEFINE boot == IF ccel = <<>> THEN <<>> ELSE TrimCcel(ccel)
           head == IF boot = <<>> /\ exists THEN <<Header>> ELSE boot
           log == ReadEventlog(ccel, exists, own)
           n == Len(head)
<1>1. boot \in Seq(Heads) /\ \A j \in 1 .. Len(boot) : boot[j].kind \notin {"event", "end"}
  <2>1. CASE ccel = <<>>
    <3>1. boot = <<>>
      BY <2>1
    <3> HIDE DEF boot
    <3> QED
      BY <3>1
  <2>2. CASE ccel # <<>>
    <3>1. boot = TrimCcel(ccel)
      BY <2>2
    <3> QED
      BY <3>1, HeadIsApart
  <2> QED
    BY <2>1, <2>2
<1> HIDE DEF boot
<1>2. head \in Seq(Heads) /\ \A j \in 1 .. Len(head) : head[j].kind \notin {"event", "end"}
  <2>1. CASE boot = <<>> /\ exists
    <3>1. head = <<Header>> /\ Header \in Heads /\ Header.kind = "header"
      BY <2>1 DEF Header, Heads
    <3> HIDE DEF head
    <3>2. Len(head) = 1 /\ head[1] = Header /\ head \in Seq(Heads)
      BY <3>1
    <3> QED
      BY <3>1, <3>2
  <2>2. CASE ~ (boot = <<>> /\ exists)
    BY <1>1, <2>2
  <2> QED
    BY <2>1, <2>2
<1>3. log = IF head = <<>> THEN <<>> ELSE head \o own \o <<EndMark>>
  BY DEF ReadEventlog, boot
<1>4. head = <<>> => own = <<>>
  BY DEF boot
<1> HIDE DEF head, log
<1>5. CASE head = <<>>
  <2>1. log = <<>> /\ own = <<>>
    BY <1>3, <1>4, <1>5
  <2>2. EventsOf(log) = {} /\ Len(log) = 0 /\ Len(own) = 0
    BY <2>1 DEF EventsOf
  <2>3. /\ 0 + Len(own) <= Len(log)
        /\ \A k : k \in EventsOf(log) <=> \E i \in 1 .. Len(own) : k = 0 + i
        /\ \A i \in 1 .. Len(own) : log[0 + i] = own[i]
    BY <2>2
  <2> QED
    BY <2>2, <2>3 DEF log
<1>6. CASE head # <<>>
  <2> DEFINE All == Heads \cup Events
  <2>1. EndMark \in All /\ head \in Seq(All) /\ own \in Seq(All) /\ n \in Nat /\ Len(own) \in Nat
    <3>1. EndMark \in All
      BY DEF EndMark, Heads, TableEntries
    <3>2. Heads \subseteq All /\ Events \subseteq All
      OBVIOUS
    <3> HIDE DEF All
    <3> QED
      BY <1>2, <3>1, <3>2
  <2>2. log = head \o own \o <<EndMark>>
    BY <1>3, <1>6
  <2> HIDE DEF All
  <2>3. /\ Len(log) = n + Len(own) + 1 /\ log[n + Len(own) + 1] = EndMark
        /\ \A k \in 1 .. n : log[k] = head[k]
        /\ \A k \in 1 .. Len(own) : log[n + k] = own[k]
        /\ DOMAIN log = 1 .. Len(log)
    BY <2>1, <2>2
  <2> HIDE DEF n
  <2>4. \A k \in 1 .. Len(own) : own[k].kind = "event"
    <3>1. \A e \in Events : e.kind = "event"
      BY DEF Events
    <3> QED
      BY <3>1
  <2>5. \A k \in 1 .. n : log[k].kind \notin {"event", "end"}
    BY <1>2, <2>3 DEF n
  <2>6. EndMark.kind = "end"
    BY DEF EndMark
  <2>7. \A k : k \in EventsOf(log) <=> \E i \in 1 .. Len(own) : k = n + i
    <3>1. ASSUME NEW k \in EventsOf(log) PROVE \E i \in 1 .. Len(own) : k = n + i
      <4>1. k \in 1 .. n + Len(own) + 1 /\ log[k].kind = "event"
        BY <2>3, <3>1 DEF EventsOf
      <4>2. k \notin 1 .. n /\ k # n + Len(own) + 1
        BY <2>3, <2>5, <2>6, <4>1
      <4>3. n \in Nat
        BY <2>1 DEF n
      <4>4. k - n \in 1 .. Len(own) /\ k = n + (k - n)
        BY <2>1, <4>1, <4>2, <4>3
      <4> QED
        BY <4>4
    <3>2. ASSUME NEW i \in 1 .. Len(own) PROVE n + i \in EventsOf(log)
      <4>1. n + i \in DOMAIN log /\ log[n + i].kind = "event"
        BY <2>1, <2>3, <2>4 DEF n
      <4>2. \A j \in 1 .. n + i : log[j].kind # "end"
        <5> TAKE j \in 1 .. n + i
        <5>1. CASE j \in 1 .. n
          BY <2>5, <5>1
        <5>2. CASE j \notin 1 .. n
          <6>1. j - n \in 1 .. Len(own) /\ j = n + (j - n)
            BY <2>1, <5>2 DEF n
          <6>2. log[n + (j - n)].kind = "event"
            BY <2>3, <2>4, <6>1
          <6> QED
            BY <6>1, <6>2
        <5> QED
          BY <5>1, <5>2
      <4> QED
        BY <4>1, <4>2 DEF EventsOf, IsMark
    <3> QED
      BY <3>1, <3>2
  <2>8. n \in Nat /\ Len(log) \in Nat /\ n + Len(own) <= Len(log)
    BY <2>1, <2>3 DEF n
  <2> HIDE DEF n
  <2>9. \E m \in Nat :
          /\ m + Len(own) <= Len(log)
          /\ \A k : k \in EventsOf(log) <=> \E i \in 1 .. Len(own) : k = m + i
          /\ \A i \in 1 .. Len(own) : log[m + i] = own[i]
    BY <2>3, <2>7, <2>8
  <2> QED
    BY <2>8, <2>9 DEF log
<1> QED
  BY <1>5, <1>6

\* Numbers that are moved on are as many.
LEMMA AsManyOn ==
  ASSUME NEW n \in Nat, NEW S \in SUBSET Nat, IsFiniteSet(S), NEW T, \A k : k \in T <=> \E i \in S : k = n + i
  PROVE  Cardinality(T) = Cardinality(S)
<1> DEFINE f == [i \in S |-> n + i]
<1>1. f \in [S -> T]
  OBVIOUS
<1>2. \A i, j \in S : f[i] = f[j] => i = j
  OBVIOUS
<1>3. \A k \in T : \E i \in S : f[i] = k
  OBVIOUS
<1>4. f \in Bijection(S, T)
  BY <1>1, <1>2, <1>3 DEF Bijection, Injection, Surjection, IsInjective
<1> QED
  BY <1>4, FS_Bijection DEF ExistsBijection

\* What explains registers explains them in a longer log too, from another place on.
LEMMA ExplainedOn ==
  ASSUME NEW own \in Seq(Events), NEW log, NEW n \in Nat, NEW c \in 0 .. Len(own),
         \A k : k \in EventsOf(log) <=> \E i \in 1 .. Len(own) : k = n + i,
         \A i \in 1 .. Len(own) : log[n + i] = own[i],
         NEW registers, Explained(registers, own, c)
  PROVE  Explained(registers, log, n + c)
<1> SUFFICES ASSUME NEW r \in 0 .. 23
             PROVE  LET into == AskedInto(log, n + c)[r] IN
                    /\ Len(registers[r]) = Cardinality(into)
                    /\ \A k \in into : registers[r][Cardinality({j \in into : j <= k})] = log[k].digest
  BY DEF Explained, Replays
<1> DEFINE into == AskedInto(log, n + c)[r]
           from == AskedInto(own, c)[r]
<1>1. from = {i \in 1 .. Len(own) : i <= c /\ MeasuredRegister(own[i].index) = {r}}
  BY EventsAreAll DEF Entries
<1>2. into = {k \in EventsOf(log) : k <= n + c /\ MeasuredRegister(log[k].index) = {r}}
  BY DEF AskedInto
<1>3. /\ Len(registers[r]) = Cardinality(from)
      /\ \A k \in from : registers[r][Cardinality({j \in from : j <= k})] = own[k].digest
  BY DEF Explained, Replays
<1>4. Len(own) \in Nat /\ c \in Nat
  OBVIOUS
<1>5. \A S \in SUBSET from : IsFiniteSet(S)
  BY AskedIsFinite
<1> HIDE DEF into, from
<1>6. from \subseteq 1 .. Len(own) /\ from \in SUBSET Nat
  BY <1>1, <1>4
<1>7. \A k : k \in into <=> \E i \in from : k = n + i
  <2>1. ASSUME NEW k \in into PROVE \E i \in from : k = n + i
    <3>1. PICK i \in 1 .. Len(own) : k = n + i
      BY <1>2, <2>1
    <3>2. log[k] = own[i] /\ i <= c
      BY <1>2, <1>4, <2>1, <3>1
    <3>3. i \in from
      BY <1>1, <1>2, <2>1, <3>1, <3>2
    <3> QED
      BY <3>1, <3>3
  <2>2. ASSUME NEW i \in from PROVE n + i \in into
    <3>1. i \in 1 .. Len(own) /\ n + i \in EventsOf(log) /\ log[n + i] = own[i] /\ n + i <= n + c
      BY <1>1, <1>4, <2>2
    <3> QED
      BY <1>1, <1>2, <2>2, <3>1
  <2> QED
    BY <2>1, <2>2
<1>8. Cardinality(into) = Cardinality(from)
  BY <1>5, <1>6, <1>7, AsManyOn
<1>9. ASSUME NEW k \in into PROVE registers[r][Cardinality({j \in into : j <= k})] = log[k].digest
  <2>1. PICK i \in from : k = n + i
    BY <1>7, <1>9
  <2> DEFINE S == {j \in from : j <= i}
             T == {j \in into : j <= k}
  <2>2. \A m : m \in T <=> \E j \in S : m = n + j
    BY <1>6, <1>7, <2>1
  <2>3. S \in SUBSET Nat /\ IsFiniteSet(S)
    BY <1>5, <1>6
  <2>4. registers[r][Cardinality(S)] = own[i].digest /\ log[k] = own[i]
    BY <1>3, <1>6, <2>1
  <2> HIDE DEF S, T
  <2>5. Cardinality(T) = Cardinality(S)
    BY <2>2, <2>3, AsManyOn
  <2>6. registers[r][Cardinality(T)] = log[k].digest
    BY <2>4, <2>5
  <2> QED
    BY <2>6 DEF T
<1> QED
  BY <1>3, <1>8, <1>9 DEF into

\* Where only init_pcr's register was asked for, the log names the registers that were.
LEMMA NamedAsAsked ==
  ASSUME MeasuresByLog, NEW log, NEW n, AskedForInitPcr(log, n), \A k \in EventsOf(log) : log[k].reg = LogRegister
  PROVE  NamedInto(log, n) = AskedInto(log, n)
<1>1. MeasuredRegister(InitPcr) = {RegisterNamed(LogRegister)}
  BY DEF MeasuresByLog, MeasuredRegister, MeasuredRtmr, MeasuredCsv, RegisterNamed, LogRegister
<1>2. \A k \in EventsOf(log) : k <= n =>
        MeasuredRegister(log[k].index) = {RegisterNamed(log[k].reg)}
  BY <1>1 DEF AskedForInitPcr
<1>3. \A r : \A k \in EventsOf(log) : k <= n =>
        (MeasuredRegister(log[k].index) = {r} <=> RegisterNamed(log[k].reg) = r)
  BY <1>2
<1>4. ASSUME NEW r \in 0 .. 23
      PROVE  {k \in EventsOf(log) : k <= n /\ MeasuredRegister(log[k].index) = {r}}
               = {k \in EventsOf(log) : k <= n /\ RegisterNamed(log[k].reg) = r}
  BY <1>3
<1> QED
  BY <1>4 DEF NamedInto, AskedInto

\* A log that has the events of the quote replays to it.
LEMMA LogExplains ==
  ASSUME LogInv, MeasureInv, machine # NoMachine, MeasuresByLog, NEW e,
         e.log = ReadEventlog(machine.ccel, LogsEvents(machine), aael), e.quote.after \in 0 .. Len(Log),
         Explained(e.quote.regs, Log, e.quote.after), ~ e.late => e.quote.after <= Len(aael)
  PROVE  LogReplays(e)
<1> SUFFICES ASSUME ~ e.late
             PROVE  \E n \in 0 .. Len(e.log) :
                      /\ Replays(e.quote.regs, e.log, AskedInto(e.log, n))
                      /\ AskedForInitPcr(e.log, n) => Replays(e.quote.regs, e.log, NamedInto(e.log, n))
  BY DEF LogReplays
<1> DEFINE c == e.quote.after
           log == e.log
           registers == e.quote.regs
<1>1. machine.ccel \in Seq(TableEntries)
  BY AttestersAssumption DEF LogInv, Booted, TableEntries
<1>2. aael \in Seq(Events) /\ unlogged \in Seq(Events) /\ Log \in Seq(Events) /\ Len(aael) <= Len(Log)
      /\ (\A k \in 1 .. Len(aael) : aael[k] = Log[k])
  BY DEF MeasureInv, LogTyped, Log
<1>3. c \in Nat /\ c <= Len(aael) /\ c \in 0 .. Len(aael) /\ c <= Len(Log)
  <2>1. Len(aael) \in Nat /\ Len(Log) \in Nat /\ c \in 0 .. Len(Log) /\ c <= Len(aael)
    BY <1>2
  <2> HIDE DEF c
  <2> QED
    BY <2>1
<1>4. Explained(registers, aael, c)
  <2> HIDE DEF c, registers
  <2>1. Explained(registers, Log, c)
    BY DEF c, registers
  <2>2. \A k \in 1 .. c : Log[k] = aael[k]
    BY <1>2, <1>3
  <2> HIDE DEF Log
  <2> QED
    BY <1>2, <1>3, <2>1, <2>2, SameEvents
<1>5. LogsEvents(machine) \in BOOLEAN /\ (aael # <<>> => LogsEvents(machine))
  <2>1. LogsEvents(machine) \in BOOLEAN
    BY DEF LogsEvents
  <2> QED
    BY <2>1 DEF MeasureInv, EventsExist
<1>6. Len(log) \in Nat /\ \E n \in Nat :
        /\ n + Len(aael) <= Len(log)
        /\ \A k : k \in EventsOf(log) <=> \E i \in 1 .. Len(aael) : k = n + i
        /\ \A i \in 1 .. Len(aael) : log[n + i] = aael[i]
  <2> DEFINE ccel == machine.ccel
             exists == LogsEvents(machine)
             own == aael
  <2>1. /\ ccel \in Seq(TableEntries) /\ exists \in BOOLEAN /\ own \in Seq(Events) /\ (own # <<>> => exists)
        /\ log = ReadEventlog(ccel, exists, own)
    BY <1>1, <1>2, <1>5
  <2> HIDE DEF log, ccel, exists, own
  <2> DEFINE read == ReadEventlog(ccel, exists, own)
  <2>2. Len(read) \in Nat /\ \E n \in Nat :
          /\ n + Len(own) <= Len(read)
          /\ \A k : k \in EventsOf(read) <=> \E i \in 1 .. Len(own) : k = n + i
          /\ \A i \in 1 .. Len(own) : read[n + i] = own[i]
    BY <2>1, LogIsRead
  <2>3. log = read
    BY <2>1
  <2> HIDE DEF read
  <2> QED
    BY <2>2, <2>3 DEF own
<1>7. PICK n \in Nat :
        /\ n + Len(aael) <= Len(log)
        /\ \A k : k \in EventsOf(log) <=> \E i \in 1 .. Len(aael) : k = n + i
        /\ \A i \in 1 .. Len(aael) : log[n + i] = aael[i]
  BY <1>6
<1> HIDE DEF log, registers, c
<1>8. Replays(registers, log, AskedInto(log, n + c))
  BY <1>2, <1>3, <1>4, <1>7, ExplainedOn DEF Explained
<1>9. \A k \in EventsOf(log) : log[k].reg = LogRegister
  <2> TAKE k \in EventsOf(log)
  <2>1. PICK i \in 1 .. Len(aael) : k = n + i
    BY <1>7
  <2>2. log[k] = Log[i] /\ i \in 1 .. Len(Log)
    BY <1>2, <1>7, <2>1
  <2> QED
    BY <2>2 DEF MeasureInv, EventsAreMeasured
<1>10. AskedForInitPcr(log, n + c) => Replays(registers, log, NamedInto(log, n + c))
  BY <1>8, <1>9, NamedAsAsked
<1>11. n + c \in 0 .. Len(log)
  BY <1>2, <1>3, <1>6, <1>7
<1>12. \E m \in 0 .. Len(log) :
         /\ Replays(registers, log, AskedInto(log, m))
         /\ AskedForInitPcr(log, m) => Replays(registers, log, NamedInto(log, m))
  BY <1>8, <1>10, <1>11
<1> QED
  BY <1>12 DEF log, registers

\* Without events nothing has been extended.
LEMMA NothingExplained ==
  ASSUME NEW registers, \A r \in 0 .. 23 : Len(registers[r]) = 0, NEW log, log = <<>>, NEW n
  PROVE  Explained(registers, log, n)
<1>1. EventsOf(log) = {}
  BY DEF EventsOf
<1>2. \A r \in 0 .. 23 : AskedInto(log, n)[r] = {}
  BY <1>1 DEF AskedInto
<1> QED
  BY <1>2, FS_EmptySet DEF Explained, Replays

LEMMA LogInitInv == AttestersInit => LogInv
<1> SUFFICES ASSUME AttestersInit PROVE LogInv
  OBVIOUS
<1>1. /\ regs = [r \in 0 .. 23 |-> <<>>] /\ aael = <<>> /\ unlogged = <<>> /\ machine = NoMachine
      /\ evid = [q \in Requests |-> NoRequest]
  BY DEF AttestersInit
<1>2. Log = <<>>
  BY <1>1 DEF Log
<1>3. Tallied
  BY <1>1, <1>2, NothingExplained DEF Tallied
<1>4. NoRequest.tee = "none"
  BY DEF NoRequest
<1> QED
  BY <1>1, <1>3, <1>4 DEF LogInv, Booted, LogInHand

\* A request that is for the log what another was.
LEMMA SameForLog ==
  ASSUME NEW e, NEW f, NEW log, e.tee = f.tee, e.pc = f.pc, e.quote = f.quote, e.log = f.log, e.late = f.late,
         LogInHand(f, log)
  PROVE  LogInHand(e, log)
BY DEF LogInHand, QuoteIsExplained, LogReplays

\* Requests go on while nothing is extended.
LEMMA TallyUnchanged ==
  ASSUME LogInv, UNCHANGED <<machine, regs>>, Log' = Log, \A o \in Requests : LogInHand(evid'[o], Log)
  PROVE  LogInv'
<1>1. Booted'
  BY DEF LogInv, Booted
<1>2. Tallied'
  BY SameMeaning DEF LogInv, Tallied
<1>3. \A o \in Requests : LogInHand(evid[o], Log)'
  BY SameMeaning
<1> QED
  BY <1>1, <1>2, <1>3 DEF LogInv

\* A step of one request, for an attester that keeps no log or on the way to it.
LEMMA OneGoesOn ==
  ASSUME LogInv, EvidInv, NEW q \in Requests, KeepsRest,
         \A o \in Requests \ {q} : evid'[o] = evid[o],
         evid'[q].tee = evid[q].tee,
         evid[q].tee \in {"tdx", "csv"} => LogInHand(evid'[q], Log)
  PROVE  LogInv'
<1>1. UNCHANGED <<machine, regs>> /\ Log' = Log
  BY DEF KeepsRest, Log
<1>2. LogInHand(evid'[q], Log)
  BY DEF LogInHand
<1>3. \A o \in Requests : LogInHand(evid'[o], Log)
  BY <1>2 DEF LogInv
<1> QED
  BY <1>1, <1>3, TallyUnchanged

LEMMA GoneFields ==
  ASSUME EvidInv, NEW q \in Requests, NEW pc, Goes(q, pc)
  PROVE  /\ \A o \in Requests \ {q} : evid'[o] = evid[o]
         /\ evid'[q].tee = evid[q].tee /\ evid'[q].pc = pc /\ evid'[q].quote = evid[q].quote
         /\ evid'[q].late = evid[q].late /\ evid'[q].log = evid[q].log
<1> DEFINE e == Becomes(evid[q], pc, evid[q].quote, evid[q].pcrs)
<1>1. evid' = [evid EXCEPT ![q] = e]
  BY GoesBecomes
<1>2. e.tee = evid[q].tee /\ e.pc = pc /\ e.quote = evid[q].quote /\ e.late = evid[q].late /\ e.log = evid[q].log
  BY DEF Becomes
<1> HIDE DEF e
<1> QED
  BY <1>1, <1>2 DEF EvidInv, EvidTyped

LEMMA QuotedFields ==
  ASSUME EvidInv, NEW q \in Requests, NEW data, NEW pc, Quoted(q, data, pc)
  PROVE  /\ \A o \in Requests \ {q} : evid'[o] = evid[o]
         /\ evid'[q].tee = evid[q].tee /\ evid'[q].pc = pc
         /\ evid'[q].quote.regs = regs /\ evid'[q].quote.after = Extensions
<1> DEFINE quote == QuoteOf(data)
           e == Becomes(evid[q], pc, quote, evid[q].pcrs)
<1>1. evid' = [evid EXCEPT ![q] = e] /\ quote.regs = regs /\ quote.after = Extensions
  BY QuotedBecomes, QuoteIsMade DEF EvidInv
<1> HIDE DEF quote
<1>2. e.tee = evid[q].tee /\ e.pc = pc /\ e.quote = quote
  BY DEF Becomes
<1> HIDE DEF e
<1> QED
  BY <1>1, <1>2 DEF EvidInv, EvidTyped

\* The attesters whose evidence has no log of the agent.
LEMMA StepsWithoutLog ==
  ASSUME LogInv, EvidInv, NEW q \in Requests, NEW ok \in BOOLEAN,
         \/ QuoteTpm(q, ok) \/ CollectDevices(q, ok) \/ SampleEvidence(q)
         \/ SnpReport(q, ok) \/ SeReport(q, ok) \/ DcuReport(q, ok) \/ OcclumReport(q, ok)
         \/ WriteUserData(q, ok) \/ ReadUserQuote(q) \/ ReadAllPcrs(q, ok) \/ AzureStep(q, ok)
  PROVE  LogInv'
<1>1. evid[q].tee \notin {"tdx", "csv"}
  <2>1. evid[q].tee \in {"tdx", "csv"} => evid[q].pc \in Path(evid[q].tee)
    BY DEF LogInv, LogInHand
  <2> QED
    BY <2>1 DEF Path, QuoteTpm, CollectDevices, SampleEvidence, SnpReport, SeReport, DcuReport, OcclumReport,
         WriteUserData, ReadUserQuote, ReadAllPcrs, AzureStep
<1>2. KeepsRest
  BY DEF QuoteTpm, CollectDevices, SampleEvidence, SnpReport, SeReport, DcuReport, OcclumReport, DriverReport,
         WriteUserData, ReadUserQuote, ReadAllPcrs, AzureStep
<1>3. ASSUME NEW pc, Goes(q, pc) PROVE LogInv'
  BY <1>1, <1>2, <1>3, GoneFields, OneGoesOn
<1>4. ASSUME NEW data, NEW pc, Quoted(q, data, pc) PROVE LogInv'
  BY <1>1, <1>2, <1>4, QuotedFields, OneGoesOn
<1>5. ASSUME NEW pc, NEW quote, evid' = [evid EXCEPT ![q].quote = quote, ![q].pcrs = regs, ![q].pc = pc]
      PROVE  LogInv'
  <2>1. evid[q] = Becomes(evid[q], evid[q].pc, evid[q].quote, evid[q].pcrs) /\ DOMAIN evid = Requests
    BY DEF EvidInv, EvidTyped
  <2>2. /\ \A o \in Requests \ {q} : evid'[o] = evid[o]
        /\ evid'[q] = [evid[q] EXCEPT !.quote = quote, !.pcrs = regs, !.pc = pc]
    BY <1>5, <2>1
  <2>3. evid'[q].tee = evid[q].tee
    BY <2>1, <2>2 DEF Becomes
  <2> QED
    BY <1>1, <1>2, <2>2, <2>3, OneGoesOn
<1>6. CASE ReadAllPcrs(q, ok)
  <2> DEFINE pc == IF ok THEN "done" ELSE "failed"
  <2>1. evid[q] = Becomes(evid[q], evid[q].pc, evid[q].quote, evid[q].pcrs) /\ DOMAIN evid = Requests
    BY DEF EvidInv, EvidTyped
  <2>2. /\ \A o \in Requests \ {q} : evid'[o] = evid[o]
        /\ evid'[q] = [evid[q] EXCEPT !.pcrs = regs, !.pc = pc]
    BY <1>6, <2>1 DEF ReadAllPcrs
  <2>3. evid'[q].tee = evid[q].tee
    BY <2>1, <2>2 DEF Becomes
  <2> QED
    BY <1>1, <1>2, <2>2, <2>3, OneGoesOn
<1>7. CASE AzureStep(q, ok)
  <2>1. CASE ok /\ evid[q].pc = "vtpm"
    <3> DEFINE pc == IF evid[q].tee = "az-snp" THEN "certs" ELSE "done"
               quote == QuoteOf(evid[q].data)
    <3>1. evid' = [evid EXCEPT ![q].quote = quote, ![q].pcrs = regs, ![q].pc = pc]
      BY <1>7, <2>1 DEF AzureStep
    <3> HIDE DEF pc, quote
    <3> QED
      BY <1>5, <3>1
  <2>2. CASE ~ (ok /\ evid[q].pc = "vtpm")
    <3>1. \E pc : Goes(q, pc)
      BY <1>7, <2>2 DEF AzureStep
    <3> QED
      BY <1>3, <3>1
  <2> QED
    BY <2>1, <2>2
<1>8. CASE WriteUserData(q, ok) \/ ReadUserQuote(q) \/ QuoteTpm(q, ok) \/ CollectDevices(q, ok) \/ SampleEvidence(q)
  BY <1>3, <1>4, <1>8 DEF WriteUserData, ReadUserQuote, QuoteTpm, CollectDevices, SampleEvidence
<1>9. CASE SnpReport(q, ok) \/ SeReport(q, ok) \/ DcuReport(q, ok) \/ OcclumReport(q, ok)
  BY <1>3, <1>4, <1>9 DEF SnpReport, SeReport, DcuReport, OcclumReport, DriverReport
<1> QED
  BY <1>6, <1>7, <1>8, <1>9

\* The steps of tdx and csv: a quote is of the registers there are, and keeps them.
LEMMA StepsToLog ==
  ASSUME LogInv, EvidInv, MeasureInv, NEW q \in Requests, NEW ok \in BOOLEAN,
         \/ MakeReportDir(q, ok) \/ WriteInblob(q) \/ ReadOutblob(q, ok) \/ CheckGeneration(q)
         \/ CsvReport(q, ok) \/ DownloadChain(q, ok)
  PROVE  LogInv'
<1>1. KeepsRest
  BY DEF MakeReportDir, WriteInblob, ReadOutblob, CheckGeneration, CsvReport, DownloadChain, DriverReport
<1>2. LogInHand(evid[q], Log)
  BY DEF LogInv
<1>3. ASSUME NEW pc, Goes(q, pc), evid[q].tee \in {"tdx", "csv"} => pc \in Path(evid[q].tee) \ {"done"},
             pc \in {"generation", "chain", "log"} => evid[q].pc \in {"generation", "chain"}
      PROVE  LogInv'
  <2>1. evid[q].tee \in {"tdx", "csv"} => LogInHand(evid'[q], Log)
    BY <1>2, <1>3, GoneFields DEF LogInHand, QuoteIsExplained
  <2> QED
    BY <1>1, <1>3, <2>1, GoneFields, OneGoesOn
<1>4. ASSUME NEW data, NEW pc, Quoted(q, data, pc), evid[q].tee \in {"tdx", "csv"} => pc \in Path(evid[q].tee) \ {"done"}
      PROVE  LogInv'
  <2>1. evid[q].tee \in {"tdx", "csv"} => LogInHand(evid'[q], Log)
    <3> SUFFICES ASSUME evid[q].tee \in {"tdx", "csv"} PROVE LogInHand(evid'[q], Log)
      OBVIOUS
    <3>1. MeasuresByLog /\ machine # NoMachine /\ Primary = evid[q].tee
      BY <1>2 DEF LogInHand, MeasuresByLog
    <3>2. Explained(regs, Log, Len(Log)) /\ Extensions = Len(Log) /\ Len(Log) \in 0 .. Len(Log)
      BY <3>1, LogFacts DEF LogInv, Tallied, MeasureInv
    <3>3. /\ evid'[q].tee = evid[q].tee /\ evid'[q].pc = pc
          /\ evid'[q].quote.regs = regs /\ evid'[q].quote.after = Len(Log)
      BY <1>4, <3>2, QuotedFields
    <3> QED
      BY <1>4, <3>1, <3>2, <3>3 DEF LogInHand, QuoteIsExplained
  <2> QED
    BY <1>1, <1>4, <2>1, QuotedFields, OneGoesOn
<1>5. evid[q].tee \in {"tdx", "csv"} => evid[q].pc \in Path(evid[q].tee)
  BY <1>2 DEF LogInHand
<1>6. CASE MakeReportDir(q, ok) \/ WriteInblob(q)
  BY <1>3, <1>5, <1>6 DEF MakeReportDir, WriteInblob, Path
<1>7. CASE ReadOutblob(q, ok)
  BY <1>3, <1>4, <1>5, <1>7 DEF ReadOutblob, Path
<1>8. CASE CheckGeneration(q)
  <2> DEFINE own == IsOwnReport(inblobs[q][1])
  <2>1. evid[q].pc = "generation"
        /\ Goes(q, IF ~ own THEN "failed" ELSE IF evid[q].tee = "tdx" THEN "log" ELSE "done")
    BY <1>8 DEF CheckGeneration
  <2> HIDE DEF own
  <2>2. evid[q].tee # "csv"
    BY <1>5, <2>1 DEF Path
  <2>3. CASE own /\ evid[q].tee # "tdx"
    BY <1>1, <2>1, <2>2, <2>3, GoneFields, OneGoesOn
  <2>4. CASE ~ (own /\ evid[q].tee # "tdx")
    BY <1>3, <2>1, <2>2, <2>4 DEF Path
  <2> QED
    BY <2>3, <2>4
<1>9. CASE CsvReport(q, ok)
  BY <1>3, <1>4, <1>9 DEF CsvReport, DriverReport, Path
<1>10. CASE DownloadChain(q, ok)
  BY <1>3, <1>5, <1>10 DEF DownloadChain, Path
<1> QED
  BY <1>6, <1>7, <1>8, <1>9, <1>10

LEMMA StepToTheLog ==
  ASSUME LogInv, EvidInv, MeasureInv, NEW q \in Requests, ReadLog(q)
  PROVE  LogInv'
<1> DEFINE log == ReadEventlog(machine.ccel, LogsEvents(machine), aael)
           late == evid[q].quote.after > Len(aael)
           pc == IF CcelIsLegal(machine.ccel) THEN "done" ELSE "failed"
<1>1. evid[q].pc = "log" /\ KeepsRest
  BY DEF ReadLog
<1>2. evid[q] = Becomes(evid[q], evid[q].pc, evid[q].quote, evid[q].pcrs) /\ DOMAIN evid = Requests
  BY DEF EvidInv, EvidTyped
<1>3. /\ \A o \in Requests \ {q} : evid'[o] = evid[o]
      /\ evid'[q] = [evid[q] EXCEPT !.log = log, !.late = late, !.pc = pc]
  BY <1>2 DEF ReadLog
<1>4. pc \in {"done", "failed"}
  OBVIOUS
<1> HIDE DEF log, late, pc
<1> DEFINE e == evid'[q]
<1>5. e.tee = evid[q].tee /\ e.pc = pc /\ e.quote = evid[q].quote /\ e.late = late /\ e.log = log
  BY <1>2, <1>3 DEF Becomes
<1> HIDE DEF e
<1>6. ASSUME evid[q].tee \in {"tdx", "csv"} PROVE LogInHand(e, Log)
  <2>1. /\ machine # NoMachine /\ Primary = e.tee /\ MeasuresByLog
        /\ e.quote.after \in 0 .. Len(Log) /\ Explained(e.quote.regs, Log, e.quote.after)
    BY <1>1, <1>5, <1>6 DEF LogInv, LogInHand, QuoteIsExplained, MeasuresByLog
  <2>2. e.log = ReadEventlog(machine.ccel, LogsEvents(machine), aael)
    BY <1>5 DEF log
  <2>4. ~ e.late => e.quote.after <= Len(aael)
    <3>1. e.late = (e.quote.after > Len(aael))
      BY <1>5 DEF late
    <3>2. Len(aael) \in Nat /\ Len(Log) \in Nat
      BY LogFacts DEF MeasureInv, LogTyped
    <3>3. ~ (e.quote.after > Len(aael)) => e.quote.after <= Len(aael)
      BY <2>1, <3>2
    <3> QED
      BY ONLY <3>1, <3>3
  <2>3. LogReplays(e)
    BY <2>1, <2>2, <2>4, LogExplains
  <2> QED
    BY <1>4, <1>5, <1>6, <2>1, <2>3 DEF LogInHand, QuoteIsExplained, Path
<1> QED
  BY <1>1, <1>3, <1>5, <1>6, OneGoesOn DEF e

\* Another request: what was asked before is only less alone.
LEMMA AskForLog ==
  ASSUME LogInv, EvidInv, NEW q \in Requests, NEW tee \in NewAttesters, NEW data, NEW adjusted \in BOOLEAN,
         AskEvidence(q, tee, data, adjusted)
  PROVE  LogInv'
<1> DEFINE given == IF adjusted THEN AdjustReportData(tee, data) ELSE data
           pc == IF Refused(tee, given) THEN "failed" ELSE FirstStep(tee)
           alone == \A o \in Requests \ {q} : evid[o].pc \in Over
           kept == Reported(tee, given)
           e == Asked(pc, tee, given, kept, alone)
<1>1. /\ UNCHANGED <<machine, regs, aael, unlogged>> /\ machine # NoMachine
      /\ evid' = [r \in Requests |-> IF r = q THEN e ELSE [evid[r] EXCEPT !.alone = (evid[r].pc = "idle")]]
  BY DEF AskEvidence, Asked
<1>2. pc = "failed" \/ pc = FirstStep(tee)
  OBVIOUS
<1> HIDE DEF given, alone, pc, kept
<1>3. e.tee = tee /\ e.pc = pc
  BY AskedFields
<1> HIDE DEF e
<1>4. LogInHand(e, Log)
  <2> SUFFICES ASSUME tee \in {"tdx", "csv"} PROVE LogInHand(e, Log)
    BY <1>3 DEF LogInHand
  <2>1. Primary = tee
    BY DEF NewAttesters, DetectAttestableDevices
  <2>2. pc \in Path(tee) /\ pc \notin {"generation", "chain", "log", "done"}
    BY <1>2 DEF FirstStep, Path
  <2> QED
    BY <1>1, <1>3, <2>1, <2>2 DEF LogInHand, QuoteIsExplained
<1>5. ASSUME NEW o \in Requests \ {q} PROVE LogInHand(evid'[o], Log)
  <2> DEFINE f == evid[o]
             idle == f.pc = "idle"
             m == [f EXCEPT !.alone = idle]
  <2>1. evid'[o] = m
    BY <1>1
  <2>2. f = Becomes(f, f.pc, f.quote, f.pcrs) /\ LogInHand(f, Log)
    BY DEF EvidInv, EvidTyped, LogInv
  <2> HIDE DEF idle
  <2>3. m.pc = f.pc /\ m.tee = f.tee /\ m.quote = f.quote /\ m.late = f.late /\ m.log = f.log
    BY <2>2 DEF Becomes
  <2> HIDE DEF m, f
  <2> QED
    BY <2>1, <2>2, <2>3, SameForLog
<1>6. evid'[q] = e /\ Log' = Log
  BY <1>1 DEF Log
<1>7. \A o \in Requests : LogInHand(evid'[o], Log)
  BY <1>4, <1>5, <1>6
<1> QED
  BY <1>1, <1>6, <1>7, TallyUnchanged

\* What is explained stays so when there are more events.
LEMMA MoreEvents ==
  ASSUME LogInv, Log \in Seq(Events), NEW log \in Seq(Events), Len(log) = Len(Log) + 1,
         \A k \in 1 .. Len(Log) : log[k] = Log[k], NEW o \in Requests
  PROVE  LogInHand(evid[o], log)
<1> DEFINE e == evid[o]
           a == Log
<1>1. LogInHand(e, a) /\ a \in Seq(Events) /\ Len(log) = Len(a) + 1 /\ \A k \in 1 .. Len(a) : log[k] = a[k]
  BY DEF LogInv
<1> HIDE DEF e, a
<1>2. QuoteIsExplained(e, a) => QuoteIsExplained(e, log)
  <2> SUFFICES ASSUME e.quote.after \in 0 .. Len(a), Explained(e.quote.regs, a, e.quote.after)
               PROVE  e.quote.after \in 0 .. Len(log) /\ Explained(e.quote.regs, log, e.quote.after)
    BY DEF QuoteIsExplained
  <2>1. Len(a) \in Nat
    BY <1>1
  <2>2. e.quote.after \in Nat /\ e.quote.after <= Len(a) /\ e.quote.after <= Len(log)
    BY <1>1, <2>1
  <2>3. \A k \in 1 .. e.quote.after : a[k] = log[k]
    BY <1>1, <2>1, <2>2
  <2> QED
    BY <1>1, <2>2, <2>3, SameEvents
<1>3. LogInHand(e, log)
  BY <1>1, <1>2 DEF LogInHand
<1> QED
  BY <1>3 DEF e

\* A register with its entries.
EntriesAre(held, log, into) ==
  /\ Len(held) = Cardinality(into)
  /\ \A k \in into : held[Cardinality({j \in into : j <= k})] = log[k].digest

\* One more digest in a register, for one more of its entries.
LEMMA OneMoreInPlace ==
  ASSUME NEW held \in Seq(Digests), NEW d \in Digests, NEW n \in Nat, NEW a, NEW b, NEW from, IsFiniteSet(from),
         \A k \in from : k \in Nat /\ k <= n /\ b[k] = a[k], b[n + 1].digest = d, EntriesAre(held, a, from)
  PROVE  EntriesAre(Append(held, d), b, from \cup {n + 1})
<1>0. Len(held) = Cardinality(from) /\ \A k \in from : held[Cardinality({j \in from : j <= k})] = a[k].digest
  BY DEF EntriesAre
<1> DEFINE into == from \cup {n + 1}
           more == Append(held, d)
<1>1. n + 1 \notin from /\ n + 1 \in Nat /\ Cardinality(from) \in Nat /\ Cardinality(from) = Len(held)
  BY <1>0, FS_CardinalityType
<1>2. Cardinality(into) = Cardinality(from) + 1
  BY <1>1, FS_AddElement
<1>3. /\ Len(more) = Len(held) + 1 /\ more[Len(held) + 1] = d
      /\ \A c \in 1 .. Len(held) : more[c] = held[c]
  OBVIOUS
<1>4. \A k : k \in into <=> k \in from \/ k = n + 1
  OBVIOUS
<1> HIDE DEF into, more
<1>5. ASSUME NEW k \in from PROVE more[Cardinality({j \in into : j <= k})] = b[k].digest
  <2> DEFINE S == {j \in from : j <= k}
  <2>1. {j \in into : j <= k} = S
    BY <1>1, <1>4
  <2>2. S \subseteq from /\ k \in S /\ held[Cardinality(S)] = b[k].digest
    BY <1>0
  <2> HIDE DEF S
  <2>3. IsFiniteSet(S) /\ Cardinality(S) \in Nat /\ Cardinality(S) <= Cardinality(from)
    BY <2>2, FS_Subset, FS_CardinalityType
  <2>4. Cardinality(S) # 0
    BY <2>2, <2>3, FS_EmptySet
  <2>5. Cardinality(S) \in 1 .. Len(held)
    BY <1>1, <2>3, <2>4
  <2> QED
    BY <1>3, <2>1, <2>2, <2>5
<1>6. more[Cardinality({j \in into : j <= n + 1})] = b[n + 1].digest
  <2>1. {j \in into : j <= n + 1} = into
    BY <1>1, <1>4
  <2> QED
    BY <1>1, <1>2, <1>3, <2>1
<1>7. \A k \in into : more[Cardinality({j \in into : j <= k})] = b[k].digest
  BY <1>4, <1>5, <1>6
<1>8. EntriesAre(more, b, into)
  BY <1>1, <1>2, <1>3, <1>7 DEF EntriesAre
<1> QED
  BY <1>8 DEF into, more

\* A log with an event more, into a register.
IsOneMore(a, b, n, s) ==
  /\ n = Len(a) /\ Len(b) = n + 1 /\ \A k \in 1 .. n : b[k] = a[k]
  /\ MeasuredRegister(b[n + 1].index) = {s}

\* It is among the entries of its register, and of no other.
IsEntered(a, b, n, s, r) ==
  /\ r = s => AskedInto(b, n + 1)[r] = AskedInto(a, n)[r] \cup {n + 1}
  /\ r # s => AskedInto(b, n + 1)[r] = AskedInto(a, n)[r]
  /\ \A k \in AskedInto(a, n)[r] : k \in Nat /\ k <= n /\ b[k] = a[k]

LEMMA OneMoreEvent ==
  ASSUME NEW a \in Seq(Events), NEW b \in Seq(Events), NEW n \in Nat, NEW s, IsOneMore(a, b, n, s),
         NEW r \in 0 .. 23
  PROVE  IsEntered(a, b, n, s, r)
<1> DEFINE from == AskedInto(a, n)[r]
           into == AskedInto(b, n + 1)[r]
<1>1. from = Entries(a, n, r) /\ into = Entries(b, n + 1, r)
  BY EventsAreAll
<1>3. /\ n = Len(a) /\ Len(b) = n + 1 /\ \A k \in 1 .. n : b[k] = a[k]
      /\ MeasuredRegister(b[n + 1].index) = {s}
  BY DEF IsOneMore
<1> HIDE DEF from, into
<1>4. \A k : k \in from <=> k \in 1 .. n /\ MeasuredRegister(a[k].index) = {r}
  BY <1>1, <1>3 DEF Entries
<1>5. \A k : k \in into <=> k \in 1 .. n + 1 /\ MeasuredRegister(b[k].index) = {r}
  BY <1>1, <1>3 DEF Entries
<1>6. \A k : k \in into <=> k \in from \/ (r = s /\ k = n + 1)
  <2>1. \A k : k \in 1 .. n + 1 <=> k \in 1 .. n \/ k = n + 1
    BY <1>3
  <2>2. n + 1 \notin 1 .. n
    BY <1>3
  <2>3. \A k \in 1 .. n : MeasuredRegister(b[k].index) = {r} <=> MeasuredRegister(a[k].index) = {r}
    BY <1>3
  <2>4. MeasuredRegister(b[n + 1].index) = {r} <=> r = s
    BY <1>3
  <2> QED
    BY ONLY <1>4, <1>5, <2>1, <2>2, <2>3, <2>4
<1>7. \A k \in from : k \in Nat /\ k <= n /\ b[k] = a[k]
  BY <1>3, <1>4
<1>8. (r = s => into = from \cup {n + 1}) /\ (r # s => into = from)
  BY <1>6
<1> QED
  BY <1>7, <1>8 DEF from, into, IsEntered

LEMMA OneMoreExplained ==
  ASSUME NEW a \in Seq(Events), NEW b \in Seq(Events), NEW n \in Nat, NEW s \in 0 .. 23,
         IsOneMore(a, b, n, s), NEW registers \in [0 .. 23 -> Seq(Digests)], NEW d \in Digests, b[n + 1].digest = d, Explained(registers, a, n)
  PROVE  Explained([registers EXCEPT ![s] = Append(@, d)], b, n + 1)
<1> DEFINE more == [registers EXCEPT ![s] = Append(@, d)]
<1> SUFFICES ASSUME NEW r \in 0 .. 23 PROVE EntriesAre(more[r], b, AskedInto(b, n + 1)[r])
  BY DEF Explained, Replays, EntriesAre
<1> DEFINE from == AskedInto(a, n)[r]
           into == AskedInto(b, n + 1)[r]
           held == registers[r]
<1>1. held \in Seq(Digests) /\ more[r] = IF r = s THEN Append(held, d) ELSE held
  OBVIOUS
<1>2. /\ r = s => into = from \cup {n + 1}
      /\ r # s => into = from
      /\ \A k \in from : k \in Nat /\ k <= n /\ b[k] = a[k]
  <2>1. a \in Seq(Events) /\ b \in Seq(Events) /\ n \in Nat /\ IsOneMore(a, b, n, s) /\ r \in 0 .. 23
    OBVIOUS
  <2>2. IsEntered(a, b, n, s, r)
    BY ONLY <2>1, OneMoreEvent
  <2> QED
    BY ONLY <2>2 DEF IsEntered
<1>3. EntriesAre(held, a, from)
  BY DEF Explained, Replays, EntriesAre
<1>4. IsFiniteSet(from)
  BY AskedIsFinite
<1>5. b[n + 1].digest = d /\ d \in Digests /\ n \in Nat
  OBVIOUS
<1> HIDE DEF from, into, held, more
<1>6. CASE r = s
  <2>1. into = from \cup {n + 1} /\ more[r] = Append(held, d)
    BY <1>1, <1>2, <1>6
  <2>2. EntriesAre(Append(held, d), b, from \cup {n + 1})
    BY ONLY <1>1, <1>2, <1>3, <1>4, <1>5, OneMoreInPlace
  <2> QED
    BY ONLY <2>1, <2>2 DEF into
<1>7. CASE r # s
  <2>1. into = from /\ more[r] = held
    BY <1>1, <1>2, <1>7
  <2>2. EntriesAre(held, b, from)
    BY ONLY <1>2, <1>3 DEF EntriesAre
  <2> QED
    BY ONLY <2>1, <2>2 DEF into
<1> QED
  BY <1>6, <1>7

LEMMA ExtendForLog ==
  ASSUME LogInv, MeasureInv, NEW i \in Indices, NEW d \in Digests, ExtendRuntimeMeasurement(i, d)
  PROVE  LogInv'
<1>1. PICK s \in 0 .. 23, event \in Events :
        /\ MeasuredRegister(i) = {s}
        /\ event.index = i /\ event.reg = LogRegister /\ event.digest = d
        /\ regs' = [regs EXCEPT ![s] = Append(@, d)]
        /\ LogTyped' /\ Len(Log') = Len(Log) + 1 /\ Log'[Len(Log) + 1] = event
        /\ \A k \in 1 .. Len(Log) : Log'[k] = Log[k] /\ Log[k] \in Events
  BY ExtensionGrows
<1>2. UNCHANGED <<machine, evid>> /\ machine # NoMachine
  BY DEF ExtendRuntimeMeasurement
<1> DEFINE old == Log
           new == Log'
<1>3. old \in Seq(Events) /\ new \in Seq(Events)
  <2>1. aael' \in Seq(Events) /\ unlogged' \in Seq(Events)
    BY <1>1 DEF LogTyped
  <2>2. aael' \o unlogged' \in Seq(Events)
    BY <2>1, ConcatProperties
  <2> QED
    BY <2>2, LogFacts DEF MeasureInv, Log
<1>4. /\ Len(new) = Len(old) + 1 /\ \A k \in 1 .. Len(old) : new[k] = old[k]
      /\ MeasuredRegister(new[Len(old) + 1].index) = {s} /\ new[Len(old) + 1].digest = d
  BY <1>1
<1>5. \A o \in Requests : LogInHand(evid[o], Log)'
  <2> HIDE DEF new
  <2>1. \A o \in Requests : LogInHand(evid[o], new)
    BY <1>3, <1>4, MoreEvents DEF old
  <2> QED
    BY <1>2, <2>1, SameMeaning DEF new
<1>6. Tallied'
  <2> SUFFICES ASSUME MeasuresByLog PROVE Explained(regs', new, Len(new))
    BY <1>2, SameMeaning DEF Tallied
  <2>1. Explained(regs, old, Len(old)) /\ regs \in [0 .. 23 -> Seq(Digests)]
    BY DEF LogInv, Tallied, MeasureInv, RegsTyped
  <2>2. regs' = [regs EXCEPT ![s] = Append(@, d)]
    BY <1>1
  <2> DEFINE n == Len(old)
  <2>3. Explained(regs, old, n) /\ n = Len(old) /\ n \in Nat
    BY <1>3, <2>1
  <2> HIDE DEF old, new, n
  <2>4. Len(new) = n + 1 /\ IsOneMore(old, new, n, s) /\ new[n + 1].digest = d
    BY <1>4 DEF n, IsOneMore
  <2>5. Explained([regs EXCEPT ![s] = Append(@, d)], new, n + 1)
    BY <1>3, <2>1, <2>3, <2>4, OneMoreExplained
  <2> QED
    BY <2>2, <2>4, <2>5
<1>7. Booted'
  BY <1>2 DEF LogInv, Booted
<1> QED
  BY <1>5, <1>6, <1>7 DEF LogInv

LEMMA BindForLog ==
  ASSUME LogInv, NEW d \in Digests, BindToPcr(d)
  PROVE  LogInv'
<1>1. machine # NoMachine /\ ~ MeasuresByLog /\ UNCHANGED <<machine, evid>> /\ Log' = Log
  BY DEF BindToPcr, MeasuresByLog, Log
<1>2. Booted' /\ Tallied'
  BY <1>1 DEF LogInv, Booted, Tallied, MeasuresByLog, Primary
<1>3. \A o \in Requests : LogInHand(evid[o], Log)'
  BY <1>1, SameMeaning DEF LogInv
<1> QED
  BY <1>2, <1>3 DEF LogInv

LEMMA BootForLog ==
  ASSUME LogInv, MeasureInv, NEW m \in Machines, BootMachine(m)
  PROVE  LogInv'
<1>1. machine = NoMachine /\ machine' = m /\ UNCHANGED <<regs, aael, unlogged, evid>>
  BY DEF BootMachine
<1>2. Booted'
  BY <1>1 DEF Booted
<1>3. Log = <<>> /\ Log' = <<>>
  BY <1>1 DEF MeasureInv, NothingMeasured, Log
<1>4. EventsOf(<<>>) = {}
  BY DEF EventsOf
<1>5. \A r \in 0 .. 23 : Len(regs[r]) = 0
  <2>1. \A r \in 0 .. 23 : AskedInto(Log, Len(Log))[r] = {}
    BY <1>3, <1>4 DEF AskedInto
  <2> QED
    BY <1>1, <2>1, FS_EmptySet DEF LogInv, Tallied, Explained, Replays
<1>6. Tallied'
  <2>1. \A r \in 0 .. 23 : AskedInto(Log, Len(Log))'[r] = {}
    BY <1>3, <1>4 DEF AskedInto
  <2>2. \A r \in 0 .. 23 : Len(regs'[r]) = 0
    BY <1>1, <1>5
  <2> QED
    BY <2>1, <2>2, FS_EmptySet DEF Tallied, Explained, Replays
<1>7. \A o \in Requests : LogInHand(evid[o], Log)'
  BY <1>1 DEF LogInv, LogInHand
<1> QED
  BY <1>2, <1>6, <1>7 DEF LogInv

LEMMA LogNextInv == LogInv /\ EvidInv /\ MeasureInv /\ [AttestersNext]_attVars => LogInv'
<1> SUFFICES ASSUME LogInv, EvidInv, MeasureInv, [AttestersNext]_attVars PROVE LogInv'
  OBVIOUS
<1>1. ASSUME UNCHANGED <<machine, regs, evid>>, Log' = Log PROVE LogInv'
  BY <1>1, TallyUnchanged DEF LogInv
<1>2. ASSUME NEW q \in Requests, NEW t \in NewAttesters, NEW data, NEW adjusted \in BOOLEAN,
             AskEvidence(q, t, data, adjusted)
      PROVE  LogInv'
  BY <1>2, AskForLog
<1>3. ASSUME NEW q \in Requests, NEW ok \in BOOLEAN,
             \/ MakeReportDir(q, ok) \/ WriteInblob(q) \/ ReadOutblob(q, ok) \/ CheckGeneration(q)
             \/ QuoteTpm(q, ok) \/ CollectDevices(q, ok) \/ SampleEvidence(q) \/ DownloadChain(q, ok)
             \/ CsvReport(q, ok) \/ SnpReport(q, ok) \/ SeReport(q, ok) \/ DcuReport(q, ok) \/ OcclumReport(q, ok)
             \/ WriteUserData(q, ok) \/ ReadUserQuote(q)
             \/ ReadAllPcrs(q, ok) \/ AzureStep(q, ok) \/ ReadLog(q)
      PROVE  LogInv'
  BY <1>3, StepsWithoutLog, StepsToLog, StepToTheLog
<1>4. ASSUME NEW q \in Requests, NEW data, OtherWritesInblob(q, data) PROVE LogInv'
  BY <1>1, <1>4 DEF OtherWritesInblob, KeepsRest, Log
<1>5. ASSUME NEW d \in Digests, BindToConfiguration(d) PROVE LogInv'
  BY <1>1, <1>5 DEF BindToConfiguration, Log
<1>6. ASSUME NEW d \in Digests, NEW i \in Indices, ExtendRuntimeMeasurement(i, d) PROVE LogInv'
  BY <1>6, ExtendForLog
<1>7. ASSUME NEW m \in Machines, BootMachine(m) PROVE LogInv'
  BY <1>7, BootForLog
<1>8. CASE WriteEvent
  <2>1. UNCHANGED <<machine, regs, evid>> /\ aael' = aael \o unlogged /\ unlogged' = <<>>
    BY <1>8 DEF WriteEvent
  <2>2. Log' = Log
    BY <2>1 DEF Log, MeasureInv, LogTyped
  <2> QED
    BY <1>1, <2>1, <2>2
<1>9. ASSUME NEW i \in Indices, GetRuntimeMeasurement(i) PROVE LogInv'
  BY <1>1, <1>9 DEF GetRuntimeMeasurement, Log
<1>10. CASE UNCHANGED attVars
  BY <1>1, <1>10 DEF attVars, Log
<1>11. ASSUME NEW d \in Digests, BindToPcr(d) PROVE LogInv'
  BY <1>11, BindForLog
<1> QED
  BY <1>2, <1>3, <1>4, <1>5, <1>6, <1>7, <1>8, <1>9, <1>10, <1>11 DEF AttestersNext

\* For any number of requests, processes and extensions at a time: evidence is over the
\* report data of its own request; its PCRs are those of its quote, with what a TPM has
\* extended since; and the events that a verifier finds in its log replay, digest by digest
\* and up to one of them, to the registers of its quote - in the registers that were asked
\* for, and in those that the log names where only init_pcr's was (get_evidence of the
\* attesters, read_eventlog, extend_entry).
THEOREM EvidenceSound == AttestersSpec => []EvidenceIsSound
<1>1. EvidInv /\ LogInv => EvidenceIsSound
  <2> SUFFICES ASSUME EvidInv, LogInv, NEW q \in Requests, evid[q].pc = "done"
               PROVE  DataIsAsked(evid[q]) /\ PcrsFollow(evid[q]) /\ LogReplays(evid[q])
    BY DEF EvidenceIsSound
  <2> DEFINE e == evid[q]
  <2>1. InHand(e, inblobs[q], userData, regs) /\ LogInHand(e, Log) /\ e.pc = "done"
    BY DEF EvidInv, LogInv
  <2> HIDE DEF e
  <2>2. Fits(e) /\ PcrsFollow(e) /\ (e.tee # "sgx" \/ e.alone => e.quote.data = e.data)
    BY <2>1 DEF InHand, QuoteIsOverData, QuoteIsOverPcrs
  <2>3. DataIsAsked(e)
    BY <2>2 DEF DataIsAsked, Fits
  <2>4. LogReplays(e)
    BY <2>1 DEF LogInHand, LogReplays
  <2> QED
    BY <2>2, <2>3, <2>4 DEF e
<1> QED
  BY <1>1, EvidInitInv, EvidNextInv, MeasureInitInv, MeasureNextInv, LogInitInv, LogNextInv, PTL DEF AttestersSpec

(***************************************************************************)
(* Part 4: sealed secrets.  What is past its verification was signed as it *)
(* is; and a secret of the tool, while its key, credentials and secret are *)
(* in place and nothing fails, gets the client it was sealed with.         *)
(***************************************************************************)

UnsealingIsRecord ==
  unsealing = [pc |-> unsealing.pc, secret |-> unsealing.secret, by |-> unsealing.by, skip |-> unsealing.skip,
               client |-> unsealing.client, result |-> unsealing.result]

KeysTyped == \A kid \in DOMAIN kidKeys : kid \in ProvisionedKids /\ Legal(kidKeys[kid])

VaultsTyped ==
  \A at \in DOMAIN vaults :
    Len(vaults[at]) \in Nat \ {0} /\ \A n \in 1 .. Len(vaults[at]) : vaults[at][n] # "error"

PastVerification ==
  unsealing.pc \in {"payload", "client"} \/ (unsealing.pc = "done" /\ unsealing.result # "error")

IsSigned ==
  PastVerification /\ ~ unsealing.skip =>
    /\ unsealing.secret.signature.payload = unsealing.secret.payload
    /\ calm => kidKeys[unsealing.secret.kid] = unsealing.secret.signature.jwk

GivesItsData ==
  unsealing.pc = "done" /\ unsealing.result # "error" /\ unsealing.secret.payload.type = "envelope" =>
    unsealing.result = unsealing.secret.payload.data[2]

\* A request that seal goes through with, and what it prints.
Sealable(r) == r.type = "envelope" => SealClient(r) # NoClient
SealedBy(r, dek) == Signed(r.kid, r.jwk, SealedContent(r, SealClient(r), dek))
Expected(r) == IF r.type = "envelope" THEN SealClient(r) ELSE Client("kbs", Unset, Unset)

OnItsWay ==
  \A r \in SealRequests : \A dek :
    Sealable(r) /\ unsealing.secret = SealedBy(r, dek) /\ calm /\ unsealing.by = "hub" /\ InPlace([request |-> r]) =>
      /\ unsealing.pc = "client" => unsealing.client = Expected(r)
      /\ unsealing.pc = "done" => unsealing.result # "error"

SealedAreSealed ==
  \A x \in sealedSecrets : x.request \in SealRequests /\ Sealable(x.request) /\ \E dek : x.secret = SealedBy(x.request, dek)

SecretInv ==
  UnsealingIsRecord /\ KeysTyped /\ VaultsTyped /\ IsSigned /\ GivesItsData /\ OnItsWay /\ SealedAreSealed

LEMMA SecretInitInv == SecretInit => SecretInv
<1> SUFFICES ASSUME SecretInit PROVE SecretInv
  OBVIOUS
<1>1. UnsealingIsRecord /\ unsealing.pc = "idle"
  BY DEF SecretInit, Idle, UnsealingIsRecord
<1>2. KeysTyped /\ VaultsTyped /\ SealedAreSealed
  BY DEF SecretInit, KeysTyped, VaultsTyped, SealedAreSealed
<1> QED
  BY <1>1, <1>2 DEF SecretInv, IsSigned, PastVerification, GivesItsData, OnItsWay

LEMMA SealClients ==
  ASSUME NEW r, r.type = "envelope", Sealable(r)
  PROVE  /\ r.provider \in CloudFeatures /\ Legal(r.credential)
         /\ \/ r.provider = "aliyun" /\ SealClient(r) = Client("client_key", r.credential, r.instance)
            \/ r.provider = "aws" /\ SealClient(r) = Client("aws", r.credential, Unset)
BY SealedSecretAssumption DEF Sealable, SealClient, ClientKeyNew, CloudClient

LEMMA ClientFields ==
  ASSUME NEW kind, NEW credential, NEW instance
  PROVE  LET c == Client(kind, credential, instance) IN
         c.kind = kind /\ c.credential = credential /\ c.instance = instance /\ (kind # "none" => c # NoClient)
BY DEF Client, NoClient

\* What seal writes of an envelope, or of a secret in a vault.
LEMMA ContentFields ==
  ASSUME NEW r, NEW dek
  PROVE  LET c == SealClient(r)
             p == SealedContent(r, c, dek) IN
         /\ p.legal /\ p.version = "0.1.0" /\ p.name = r.name
         /\ r.type = "envelope" =>
              /\ p.type = "envelope" /\ p.provider = ProviderOfClient(c) /\ p.settings = ExportSettings(c, r.region)
              /\ p.annotations = CryptAnnotations(c) /\ p.cipher = Ciphertext(c, r.name, dek) /\ p.data = <<dek, r.data>>
         /\ r.type # "envelope" => p.type = "vault" /\ p.provider = r.provider /\ p.annotations = r.annotations
BY DEF SealedContent

\* The guest opens the client that the secret was sealed with, from its files.
LEMMA Opened ==
  ASSUME NEW r \in SealRequests, NEW dek, Sealable(r), InPlace([request |-> r])
  PROVE  LET p == SealedContent(r, SealClient(r), dek) IN
         /\ p.type = "envelope" => NewDecryptor(p.provider, p.settings) = Expected(r)
         /\ p.type # "envelope" => NewGetter(p.provider, p.settings, TRUE) = Expected(r)
         /\ Expected(r) # NoClient
<1> DEFINE c == SealClient(r)
           p == SealedContent(r, c, dek)
           s == p.settings
<1>1. CASE r.type = "envelope"
  <2>1. /\ p.type = "envelope" /\ p.provider = ProviderOfClient(c) /\ s = ExportSettings(c, r.region)
        /\ Expected(r) = c /\ c # NoClient
    BY <1>1, ContentFields DEF Expected, Sealable
  <2> HIDE DEF p
  <2>2. CASE r.provider = "aliyun"
    <3>1. /\ c = Client("client_key", r.credential, r.instance) /\ "aliyun" \in CloudFeatures /\ Legal(r.credential)
          /\ r.credential # Unset /\ r.instance # Unset
      BY <1>1, <2>2, SealClients, SealedSecretAssumption
    <3>2. c.kind = "client_key" /\ c.credential = r.credential /\ c.instance = r.instance
      BY <3>1, ClientFields
    <3> HIDE DEF c
    <3>3. s.client_type = "client_key" /\ s.client_key_id = r.credential /\ s.instance = r.instance
      BY <2>1, <3>2 DEF ExportSettings
    <3>4. ProviderOfClient(c) = "aliyun"
      BY <3>2 DEF ProviderOfClient
    <3>5. /\ File(<<"clientKey", r.credential>>) = r.credential /\ File(<<"password", r.credential>>) = r.credential
          /\ File(<<"PrivateKmsCA", r.instance>>) = "cert"
      BY <1>1, <2>2 DEF InPlace
    <3> HIDE DEF s
    <3>6. ClientKeyClient(s) = c
      BY <3>1, <3>3, <3>5 DEF ClientKeyClient, ClientKeyNew, Legal
    <3>7. NewDecryptor("aliyun", s) = c
      BY <3>1, <3>3, <3>6 DEF NewDecryptor, CloudOf, AliyunClient
    <3> QED
      BY <2>1, <3>4, <3>7 DEF c, p, s
  <2>3. CASE r.provider = "aws"
    <3>1. /\ c = Client("aws", r.credential, Unset) /\ "aws" \in CloudFeatures /\ Legal(r.credential)
          /\ r.region # Unset
      BY <1>1, <2>3, SealClients, SealedSecretAssumption
    <3>2. c.kind = "aws"
      BY <3>1, ClientFields
    <3> HIDE DEF c
    <3>3. s.region = r.region
      BY <2>1, <3>2 DEF ExportSettings, NoSettings
    <3>4. ProviderOfClient(c) = "aws"
      BY <3>2 DEF ProviderOfClient
    <3>5. File(<<"aws", Unset>>) = r.credential
      BY <1>1, <2>3 DEF InPlace
    <3> HIDE DEF s
    <3>6. NewDecryptor("aws", s) = c
      BY <3>1, <3>3, <3>5 DEF NewDecryptor, CloudOf, AwsClient, CloudClient
    <3> QED
      BY <2>1, <3>4, <3>6 DEF c, p, s
  <2> QED
    BY <1>1, <2>2, <2>3, SealClients
<1>2. CASE r.type # "envelope"
  <2>1. p.type = "vault" /\ p.provider = "kbs" /\ Expected(r) = Client("kbs", Unset, Unset)
    BY <1>2, ContentFields DEF Expected, InPlace
  <2>2. Expected(r) # NoClient
    BY <2>1, ClientFields
  <2>3. NewGetter(p.provider, p.settings, TRUE) = Expected(r)
    BY <2>1 DEF NewGetter
  <2> QED
    BY <2>1, <2>2, <2>3
<1> QED
  BY <1>1, <1>2

\* And that client answers.
LEMMA ProviderAnswers ==
  ASSUME NEW r \in SealRequests, NEW dek, Sealable(r), InPlace([request |-> r]), VaultsTyped
  PROVE  LET p == SealedContent(r, SealClient(r), dek)
             c == Expected(r) IN
         /\ p.type = "vault" => GetSecretValue(c, p, TRUE) # "error"
         /\ p.type # "vault" => p.data[1] = KmsDecrypt(c, p, TRUE) /\ p.data[2] # "error"
<1> DEFINE c == Expected(r)
           p == SealedContent(r, SealClient(r), dek)
<1>1. CASE r.type = "envelope"
  <2>1. /\ p.type = "envelope" /\ p.provider = ProviderOfClient(c) /\ p.name = r.name
        /\ p.annotations = CryptAnnotations(c) /\ p.cipher = Ciphertext(c, r.name, dek) /\ p.data = <<dek, r.data>>
    BY <1>1, ContentFields DEF Expected
  <2>2. \/ c = Client("client_key", r.credential, r.instance)
        \/ c = Client("aws", r.credential, Unset)
    BY <1>1, SealClients DEF Expected
  <2>3. c.kind \in {"client_key", "aws"} /\ c.credential = r.credential
    BY <2>2, ClientFields
  <2>4. r.credential \in Accounts /\ r.data # "error"
    BY <1>1, SealedSecretAssumption DEF InPlace
  <2> HIDE DEF c, p
  <2>5. Accepted(c, TRUE)
    BY <2>3, <2>4 DEF Accepted, SignedByAccount
  <2>6. AliyunDecrypts(c, p, TRUE) \/ AwsDecrypts(c, p, TRUE)
    BY <2>1, <2>3, <2>5 DEF AliyunDecrypts, AwsDecrypts, CryptAnnotations
  <2>7. p.cipher.provider = ProviderOfClient(c) /\ p.cipher.key = p.name /\ p.cipher.dek = dek
    BY <2>1 DEF Ciphertext
  <2>8. KmsDecrypt(c, p, TRUE) = dek
    BY <2>6, <2>7 DEF KmsDecrypt
  <2>9. p.type # "vault" /\ p.data[1] = dek /\ p.data[2] = r.data
    <3>1. p.data = <<dek, r.data>> /\ p.type = "envelope"
      BY <2>1
    <3> HIDE DEF p
    <3> QED
      BY <3>1
  <2> QED
    BY <2>4, <2>8, <2>9 DEF c, p
<1>2. CASE r.type # "envelope"
  <2> DEFINE at == <<"kbs", r.name>>
             n == VersionOf(p, vaults[at])
  <2>1. p.type = "vault" /\ p.name = r.name /\ c = Client("kbs", Unset, Unset) /\ at \in DOMAIN vaults
    BY <1>2, ContentFields DEF Expected, InPlace
  <2>2. c.kind = "kbs"
    BY <2>1, ClientFields
  <2> HIDE DEF c, p
  <2>3. Accepted(c, TRUE) /\ ProviderOfClient(c) = "kbs"
    BY <2>2 DEF Accepted, ProviderOfClient
  <2>4. n \in 1 .. Len(vaults[at])
    BY <2>1 DEF VersionOf, VaultsTyped
  <2>5. GetSecretValue(c, p, TRUE) = vaults[at][n]
    BY <2>1, <2>3 DEF GetSecretValue
  <2>6. vaults[at][n] # "error"
    BY <2>1, <2>4 DEF VaultsTyped
  <2> QED
    BY <2>1, <2>5, <2>6 DEF c, p
<1> QED
  BY <1>1, <1>2

\* Nothing of the request under way changes, nor what its key and its provider are asked.
LEMMA SecretUnchanged ==
  ASSUME SecretInv, UNCHANGED <<guestFiles, kidKeys, vaults, unsealing, calm>>, SealedAreSealed'
  PROVE  SecretInv'
<1>1. UnsealingIsRecord' /\ KeysTyped' /\ VaultsTyped' /\ IsSigned' /\ GivesItsData'
  BY DEF SecretInv, UnsealingIsRecord, KeysTyped, VaultsTyped, IsSigned, PastVerification, GivesItsData
<1>2. \A x : InPlace(x)' <=> InPlace(x)
  BY DEF InPlace, File
<1>3. OnItsWay'
  BY <1>2 DEF SecretInv, OnItsWay
<1> QED
  BY <1>1, <1>3 DEF SecretInv

\* Something changes: nothing is promised of the request under way but what is signed.
LEMMA SecretChanges ==
  ASSUME SecretInv, ~ calm', UNCHANGED <<unsealing, sealedSecrets>>, KeysTyped', VaultsTyped'
  PROVE  SecretInv'
<1>1. UnsealingIsRecord' /\ IsSigned' /\ GivesItsData' /\ OnItsWay' /\ SealedAreSealed'
  BY DEF SecretInv, UnsealingIsRecord, IsSigned, PastVerification, GivesItsData, OnItsWay, SealedAreSealed
<1> QED
  BY <1>1 DEF SecretInv

LEMMA StepsOfProvisioning ==
  ASSUME SecretInv,
         \/ \E files \in GuestFiles : ProvisionFiles(files)
         \/ \E kid \in ProvisionedKids, jwk \in {"jwk1", "jwk2"} : ProvisionKey(kid, jwk)
         \/ \E w \in VaultWrites : SetSecret(w[1], "vaulted", w[2])
  PROVE  SecretInv'
<1>1. ~ calm' /\ UNCHANGED <<unsealing, sealedSecrets>>
  BY DEF ProvisionFiles, ProvisionKey, SetSecret, Changes
<1>2. CASE \E files \in GuestFiles : ProvisionFiles(files)
  BY <1>1, <1>2, SecretChanges DEF ProvisionFiles, SecretInv, KeysTyped, VaultsTyped
<1>3. ASSUME NEW kid \in ProvisionedKids, NEW jwk \in {"jwk1", "jwk2"}, ProvisionKey(kid, jwk) PROVE SecretInv'
  <2>1. kidKeys' = [k \in DOMAIN kidKeys \cup {kid} |-> IF k = kid THEN jwk ELSE kidKeys[k]] /\ vaults' = vaults
    BY <1>3 DEF ProvisionKey
  <2>2. Legal(jwk)
    BY DEF Legal
  <2>3. KeysTyped'
    BY <2>1, <2>2 DEF SecretInv, KeysTyped
  <2>4. VaultsTyped'
    BY <2>1 DEF SecretInv, VaultsTyped
  <2> QED
    BY <1>1, <2>3, <2>4, SecretChanges
<1>4. ASSUME NEW w \in VaultWrites, SetSecret(w[1], "vaulted", w[2]) PROVE SecretInv'
  <2> DEFINE at == <<w[1], "vaulted">>
             old == Versions(at)
             new == Append(old, w[2])
  <2>1. /\ vaults' = [a \in DOMAIN vaults \cup {at} |-> IF a = at THEN new ELSE vaults[a]]
        /\ kidKeys' = kidKeys
    BY <1>4 DEF SetSecret
  <2>2. KeysTyped'
    BY <2>1 DEF SecretInv, KeysTyped
  <2>3. Len(old) \in Nat /\ \A n \in 1 .. Len(old) : old[n] # "error"
    <3>1. CASE at \in DOMAIN vaults
      BY <3>1 DEF Versions, SecretInv, VaultsTyped
    <3>2. CASE at \notin DOMAIN vaults
      <4>1. old = <<>>
        BY <3>2 DEF Versions
      <4> QED
        BY <4>1
    <3> QED
      BY <3>1, <3>2
  <2>4. Len(new) = Len(old) + 1 /\ \A n \in 1 .. Len(new) : new[n] = IF n <= Len(old) THEN old[n] ELSE w[2]
    BY <2>3
  <2>5. w[2] # "error"
    BY SealedSecretAssumption
  <2> HIDE DEF at, old, new
  <2>6. Len(new) \in Nat \ {0} /\ \A n \in 1 .. Len(new) : new[n] # "error"
    BY <2>3, <2>4, <2>5
  <2>7. VaultsTyped'
    BY <2>1, <2>6 DEF SecretInv, VaultsTyped
  <2> QED
    BY <1>1, <2>2, <2>7, SecretChanges
<1> QED
  BY <1>2, <1>3, <1>4

\* What seal prints it has got a client for.
LEMMA StepOfSeal ==
  ASSUME SecretInv, NEW r \in SealRequests, NEW up, Seal(r, up)
  PROVE  SecretInv'
<1> DEFINE dek == "dek" \o ToString(Cardinality(sealedSecrets))
           secret == Signed(r.kid, r.jwk, SealedContent(r, SealClient(r), dek))
<1>1. /\ Sealable(r) /\ sealedSecrets' = sealedSecrets \cup {[request |-> r, secret |-> secret]}
      /\ UNCHANGED <<guestFiles, kidKeys, vaults, unsealing, calm>>
  BY DEF Seal, Sealable
<1>2. secret = SealedBy(r, dek)
  BY DEF SealedBy
<1> HIDE DEF dek, secret
<1>3. SealedAreSealed'
  BY <1>1, <1>2 DEF SecretInv, SealedAreSealed
<1> QED
  BY <1>1, <1>3, SecretUnchanged

\* A step of the request under way: only it and calm change.
LEMMA UnsealingMoves ==
  ASSUME SecretInv, UNCHANGED <<guestFiles, kidKeys, vaults, sealedSecrets>>,
         UnsealingIsRecord', IsSigned', GivesItsData', OnItsWay'
  PROVE  SecretInv'
BY DEF SecretInv, KeysTyped, VaultsTyped, SealedAreSealed

\* The request under way with another step, client and result.
At(pc, client, result) ==
  [pc |-> pc, secret |-> unsealing.secret, by |-> unsealing.by, skip |-> unsealing.skip, client |-> client,
   result |-> result]

LEMMA AtFields ==
  ASSUME NEW pc, NEW client, NEW result, unsealing' = At(pc, client, result)
  PROVE  /\ UnsealingIsRecord' /\ unsealing'.pc = pc /\ unsealing'.client = client /\ unsealing'.result = result
         /\ unsealing'.secret = unsealing.secret /\ unsealing'.by = unsealing.by /\ unsealing'.skip = unsealing.skip
BY DEF At, UnsealingIsRecord

LEMMA StepIsAt ==
  ASSUME SecretInv, NEW pc, NEW client, NEW result
  PROVE  /\ Step([unsealing EXCEPT !.pc = pc, !.client = client]) => unsealing' = At(pc, client, unsealing.result)
         /\ Step([unsealing EXCEPT !.pc = pc]) => unsealing' = At(pc, unsealing.client, unsealing.result)
         /\ Step([unsealing EXCEPT !.pc = pc, !.result = result]) => unsealing' = At(pc, unsealing.client, result)
<1> DEFINE u == unsealing
<1>1. u = At(u.pc, u.client, u.result)
  BY DEF SecretInv, UnsealingIsRecord, At
<1>2. [u EXCEPT !.pc = pc] = At(pc, u.client, u.result)
  BY <1>1 DEF At
<1>3. [At(pc, u.client, u.result) EXCEPT !.client = client] = At(pc, client, u.result)
  BY DEF At
<1>4. [At(pc, u.client, u.result) EXCEPT !.result = result] = At(pc, u.client, result)
  BY DEF At
<1>5. [u EXCEPT !.pc = pc, !.client = client] = [[u EXCEPT !.pc = pc] EXCEPT !.client = client]
  OBVIOUS
<1>6. [u EXCEPT !.pc = pc, !.result = result] = [[u EXCEPT !.pc = pc] EXCEPT !.result = result]
  OBVIOUS
<1> QED
  BY <1>2, <1>3, <1>4, <1>5, <1>6 DEF Step

\* A request that has failed: what is on its way is not it.
LEMMA UnsealingFails ==
  ASSUME SecretInv, UNCHANGED <<guestFiles, kidKeys, vaults, sealedSecrets>>, UnsealingIsRecord',
         unsealing'.pc = "done", unsealing'.result = "error",
         \A r \in SealRequests : \A dek :
           ~ (Sealable(r) /\ unsealing'.secret = SealedBy(r, dek) /\ calm' /\ unsealing'.by = "hub"
                /\ InPlace([request |-> r])')
  PROVE  SecretInv'
<1>1. IsSigned' /\ GivesItsData'
  BY DEF IsSigned, PastVerification, GivesItsData
<1>2. OnItsWay'
  BY DEF OnItsWay
<1> QED
  BY <1>1, <1>2, UnsealingMoves

LEMMA SignedFields ==
  ASSUME NEW kid, NEW jwk, NEW content
  PROVE  LET s == Signed(kid, jwk, content) IN
         /\ s.form = "sealed" /\ s.jws /\ s.kid = kid /\ s.alg = "ES256" /\ s.payload = content
         /\ s.signature.jwk = jwk /\ s.signature.header = kid /\ s.signature.payload = content
BY DEF Signed

LEMMA StepOfBegin ==
  ASSUME SecretInv, NEW s, NEW by, NEW skip \in BOOLEAN, BeginUnseal(s, by, skip)
  PROVE  SecretInv'
<1> DEFINE legal == IF skip THEN s.form = "sealed" ELSE s.jws
           pc == IF ~ legal THEN "done" ELSE IF skip THEN "payload" ELSE "kid"
           result == IF legal THEN "none" ELSE "error"
<1>1. /\ unsealing' = [pc |-> pc, secret |-> s, by |-> by, skip |-> skip, client |-> NoClient, result |-> result]
      /\ UNCHANGED <<guestFiles, kidKeys, vaults, sealedSecrets>>
  BY DEF BeginUnseal, Step
<1>2. /\ legal => pc \in {"payload", "kid"}
      /\ pc = "payload" => skip
      /\ ~ legal => pc = "done" /\ result = "error"
  OBVIOUS
<1>3. \A r, dek : s = SealedBy(r, dek) => legal
  BY SignedFields DEF SealedBy
<1> HIDE DEF legal, pc, result
<1>4. UnsealingIsRecord' /\ unsealing'.pc = pc /\ unsealing'.secret = s /\ unsealing'.skip = skip
      /\ unsealing'.result = result
  BY <1>1 DEF UnsealingIsRecord
<1>5. IsSigned' /\ GivesItsData'
  BY <1>2, <1>4 DEF IsSigned, PastVerification, GivesItsData
<1>6. OnItsWay'
  BY <1>2, <1>3, <1>4 DEF OnItsWay
<1> QED
  BY <1>1, <1>4, <1>5, <1>6, UnsealingMoves

\* A secret of the tool whose key is in place passes.
LEMMA SealedVerifies ==
  ASSUME SecretInv, NEW r \in SealRequests, NEW dek, unsealing.secret = SealedBy(r, dek), unsealing.by = "hub",
         InPlace([request |-> r])
  PROVE  Verifies(unsealing.secret, KidKey(unsealing.secret.kid, TRUE))
<1>1. r.kid \in DOMAIN kidKeys /\ kidKeys[r.kid] = r.jwk
  BY DEF InPlace
<1>2. r.kid \in ProvisionedKids /\ Legal(r.jwk)
  BY <1>1 DEF SecretInv, KeysTyped
<1>3. r.kid.form \in {"uri", "local"}
  BY <1>2 DEF ProvisionedKids
<1>4. KidKey(r.kid, TRUE) = r.jwk
  BY <1>1, <1>3 DEF KidKey, ParamsSet
<1> DEFINE s == unsealing.secret
<1>5. s.alg = "ES256" /\ s.kid = r.kid /\ s.signature.jwk = r.jwk /\ s.signature.header = s.kid
  BY SignedFields DEF SealedBy
<1>6. s.signature.payload = s.payload
  BY SignedFields DEF SealedBy
<1> HIDE DEF s
<1>7. Verifies(s, KidKey(s.kid, TRUE))
  BY <1>2, <1>4, <1>5, <1>6 DEF Verifies
<1> QED
  BY <1>7 DEF s

LEMMA StepOfVerify ==
  ASSUME SecretInv, NEW up \in BOOLEAN, VerifySecret(up)
  PROVE  SecretInv'
<1> DEFINE s == unsealing.secret
<1>1. /\ UNCHANGED <<guestFiles, kidKeys, vaults, sealedSecrets>> /\ (calm' => calm /\ up)
      /\ unsealing.pc = "kid"
  BY DEF VerifySecret, Step, Unsealed
<1>2. \A x : InPlace(x)' <=> InPlace(x)
  BY <1>1 DEF InPlace, File
<1>3. CASE Verifies(s, KidKey(s.kid, up))
  <2>1. unsealing' = At("payload", unsealing.client, unsealing.result)
    BY <1>3, StepIsAt DEF VerifySecret
  <2>2. UnsealingIsRecord' /\ unsealing'.pc = "payload" /\ unsealing'.secret = s
    BY <2>1, AtFields
  <2>3. s.signature.payload = s.payload /\ kidKeys[s.kid] = s.signature.jwk
    BY <1>3 DEF Verifies, KidKey, Legal
  <2>4. IsSigned' /\ GivesItsData' /\ OnItsWay'
    BY <1>1, <2>2, <2>3 DEF IsSigned, GivesItsData, OnItsWay
  <2> QED
    BY <1>1, <2>2, <2>4, UnsealingMoves
<1>4. CASE ~ Verifies(s, KidKey(s.kid, up))
  <2>1. unsealing' = At("done", unsealing.client, "error")
    BY <1>4, StepIsAt DEF VerifySecret, Unsealed
  <2>2. /\ UnsealingIsRecord' /\ unsealing'.pc = "done" /\ unsealing'.result = "error" /\ unsealing'.secret = s
        /\ unsealing'.by = unsealing.by
    BY <2>1, AtFields
  <2>3. ASSUME NEW r \in SealRequests, NEW dek, s = SealedBy(r, dek), calm', unsealing.by = "hub",
               InPlace([request |-> r])
        PROVE  FALSE
    BY <1>1, <1>4, <2>3, SealedVerifies
  <2> QED
    BY <1>1, <1>2, <2>2, <2>3, UnsealingFails
<1> QED
  BY <1>3, <1>4

LEMMA StepOfOpen == SecretInv /\ OpenProvider => SecretInv'
<1> SUFFICES ASSUME SecretInv, OpenProvider PROVE SecretInv'
  OBVIOUS
<1> DEFINE p == unsealing.secret.payload
           c == IF p.type = "envelope" THEN NewDecryptor(p.provider, p.settings)
                ELSE NewGetter(p.provider, p.settings, TRUE)
           legal == p.legal /\ p.version = "0.1.0" /\ c # NoClient
<1>1. /\ UNCHANGED <<guestFiles, kidKeys, vaults, sealedSecrets, calm>> /\ unsealing.pc = "payload"
      /\ legal => unsealing' = At("client", c, unsealing.result)
      /\ ~ legal => unsealing' = At("done", unsealing.client, "error")
  BY StepIsAt DEF OpenProvider, Step, Unsealed
<1>2. \A x : InPlace(x)' <=> InPlace(x)
  BY <1>1 DEF InPlace, File
<1>3. ASSUME NEW r \in SealRequests, NEW dek, Sealable(r), unsealing.secret = SealedBy(r, dek), InPlace([request |-> r])
      PROVE  legal /\ c = Expected(r)
  <2>1. p = SealedContent(r, SealClient(r), dek)
    BY <1>3, SignedFields DEF SealedBy
  <2>2. p.legal /\ p.version = "0.1.0"
    BY <2>1, ContentFields
  <2>3. c = Expected(r) /\ Expected(r) # NoClient
    BY <1>3, <2>1, Opened
  <2> HIDE DEF c
  <2> QED
    BY <2>2, <2>3
<1> HIDE DEF c, legal
<1>4. CASE legal
  <2>1. /\ UnsealingIsRecord' /\ unsealing'.pc = "client" /\ unsealing'.client = c
        /\ unsealing'.secret = unsealing.secret /\ unsealing'.by = unsealing.by /\ unsealing'.skip = unsealing.skip
    BY <1>1, <1>4, AtFields
  <2>2. IsSigned' /\ GivesItsData'
    BY <1>1, <2>1 DEF SecretInv, IsSigned, PastVerification, GivesItsData
  <2>3. OnItsWay'
    BY <1>2, <1>3, <2>1 DEF OnItsWay
  <2> QED
    BY <1>1, <2>1, <2>2, <2>3, UnsealingMoves
<1>5. CASE ~ legal
  <2>1. /\ UnsealingIsRecord' /\ unsealing'.pc = "done" /\ unsealing'.result = "error"
        /\ unsealing'.secret = unsealing.secret
    BY <1>1, <1>5, AtFields
  <2> QED
    BY <1>1, <1>2, <1>3, <1>5, <2>1, UnsealingFails
<1> QED
  BY <1>4, <1>5

LEMMA StepOfAskProvider ==
  ASSUME SecretInv, NEW up \in BOOLEAN, AskProvider(up)
  PROVE  SecretInv'
<1> DEFINE p == unsealing.secret.payload
           c == unsealing.client
           dek == KmsDecrypt(c, p, up)
           result == IF p.type = "vault" THEN GetSecretValue(c, p, up)
                     ELSE IF p.data[1] = dek THEN p.data[2] ELSE "error"
<1>0. Unsealed(result) /\ unsealing.pc = "client" /\ calm' = (calm /\ up)
  BY DEF AskProvider
<1>1. /\ UNCHANGED <<guestFiles, kidKeys, vaults, sealedSecrets>> /\ (calm' => calm /\ up)
      /\ unsealing.pc = "client" /\ unsealing' = At("done", c, result)
  <2> HIDE DEF result
  <2> QED
    BY <1>0, StepIsAt DEF Step, Unsealed
<1>2. \A x : InPlace(x)' <=> InPlace(x)
  BY <1>1 DEF InPlace, File
<1>3. p.type = "envelope" /\ result # "error" => result = p.data[2]
  OBVIOUS
<1>4. ASSUME NEW r \in SealRequests, NEW key, Sealable(r), unsealing.secret = SealedBy(r, key), calm', unsealing.by = "hub",
             InPlace([request |-> r])
      PROVE  result # "error"
  <2>1. p = SealedContent(r, SealClient(r), key) /\ VaultsTyped
    BY <1>4, SignedFields DEF SealedBy, SecretInv
  <2>2. c = Expected(r) /\ up = TRUE
    BY <1>1, <1>4 DEF SecretInv, OnItsWay
  <2>3. /\ p.type = "vault" => GetSecretValue(c, p, TRUE) # "error"
        /\ p.type # "vault" => p.data[1] = KmsDecrypt(c, p, TRUE) /\ p.data[2] # "error"
    BY <1>4, <2>1, <2>2, ProviderAnswers
  <2> QED
    BY <2>2, <2>3
<1> HIDE DEF result
<1>5. /\ UnsealingIsRecord' /\ unsealing'.pc = "done" /\ unsealing'.result = result
      /\ unsealing'.secret = unsealing.secret /\ unsealing'.by = unsealing.by /\ unsealing'.skip = unsealing.skip
  BY <1>1, AtFields
<1>6. IsSigned' /\ GivesItsData'
  BY <1>1, <1>3, <1>5 DEF SecretInv, IsSigned, PastVerification, GivesItsData
<1>7. OnItsWay'
  BY <1>2, <1>4, <1>5 DEF OnItsWay
<1> QED
  BY <1>1, <1>5, <1>6, <1>7, UnsealingMoves

LEMMA SecretNextInv == SecretInv /\ [SecretNext]_secretVars => SecretInv'
<1> SUFFICES ASSUME SecretInv, [SecretNext]_secretVars PROVE SecretInv'
  OBVIOUS
<1>1. ASSUME UNCHANGED <<guestFiles, kidKeys, vaults, sealedSecrets, unsealing, calm>> PROVE SecretInv'
  <2>1. SealedAreSealed'
    BY <1>1 DEF SecretInv, SealedAreSealed
  <2> QED
    BY <1>1, <2>1, SecretUnchanged
<1>2. CASE \/ \E files \in GuestFiles : ProvisionFiles(files)
           \/ \E kid \in ProvisionedKids, jwk \in {"jwk1", "jwk2"} : ProvisionKey(kid, jwk)
           \/ \E w \in VaultWrites : SetSecret(w[1], "vaulted", w[2])
  BY <1>2, StepsOfProvisioning
<1>3. CASE (\E both \in BOOLEAN : Keygen("jwk1", both)) \/ WriteUnsealed \/ UNCHANGED secretVars
  BY <1>1, <1>3 DEF Keygen, WriteUnsealed, secretVars
<1>4. ASSUME NEW r \in SealRequests, NEW up \in BOOLEAN, Seal(r, up) PROVE SecretInv'
  BY <1>4, StepOfSeal
<1>5. ASSUME NEW s, NEW by, NEW skip \in BOOLEAN, BeginUnseal(s, by, skip) PROVE SecretInv'
  BY <1>5, StepOfBegin
<1>6. ASSUME NEW up \in BOOLEAN, VerifySecret(up) \/ AskProvider(up) PROVE SecretInv'
  BY <1>6, StepOfVerify, StepOfAskProvider
<1>7. CASE OpenProvider
  BY <1>7, StepOfOpen
<1> QED
  BY <1>2, <1>3, <1>4, <1>5, <1>6, <1>7 DEF SecretNext

\* For any requests, files, keys and secrets of other origin: what is unsealed with
\* verification was signed so with the key in place, and what the tool sealed is unsealed
\* when all it needs is in place (secret/mod.rs, secret_cli.rs).
THEOREM RoundTrips == SecretSpec => []SealingRoundTrips
<1>1. SecretInv => SealingRoundTrips
  <2> SUFFICES ASSUME SecretInv PROVE UnsealedIsSealed /\ SealedIsUnsealed
    BY DEF SealingRoundTrips
  <2>1. UnsealedIsSealed
    BY DEF SecretInv, IsSigned, PastVerification, GivesItsData, UnsealedIsSealed
  <2>2. SealedIsUnsealed
    <3> SUFFICES ASSUME NEW x \in sealedSecrets, unsealing.pc = "done", unsealing.secret = x.secret, calm,
                        unsealing.by = "hub", InPlace(x)
                 PROVE  unsealing.result # "error"
      BY DEF SealedIsUnsealed
    <3>1. PICK dek : x.secret = SealedBy(x.request, dek)
      BY DEF SecretInv, SealedAreSealed
    <3>2. x.request \in SealRequests /\ Sealable(x.request)
      BY DEF SecretInv, SealedAreSealed
    <3>3. InPlace([request |-> x.request])
      BY DEF InPlace
    <3> QED
      BY <3>1, <3>2, <3>3 DEF SecretInv, OnItsWay
  <2> QED
    BY <2>1, <2>2
<1> QED
  BY <1>1, SecretInitInv, SecretNextInv, PTL DEF SecretSpec

(***************************************************************************)
(* Part 5: a layer opens for its recipients.  The last decryption is about *)
(* the annotations there are now, since whatever changes them forgets it.  *)
(***************************************************************************)

IsSequence(s) == s \in Seq(Range(s))

PacketsAreLists == \A s \in DOMAIN annotations : IsSequence(annotations[s])
WrappersAreFew == IsFiniteSet(DOMAIN wrappers)
NoneDecrypted == annotations = <<>> \/ wrapPc = "encrypting" => decrypted.state = "none"

WrapInv == PacketsAreLists /\ WrappersAreFew /\ NoneDecrypted /\ RecipientsOpen

LEMMA LeastIsMin == ASSUME NEW T, T \subseteq Nat, T # {} PROVE Min(T) \in T /\ \A y \in T : Min(T) <= y
BY LeastNumber DEF Min

LEMMA SequenceTypes ==
  /\ IsSequence(<<>>)
  /\ \A x : IsSequence(<<x>>)
  /\ \A s, t : IsSequence(s) /\ IsSequence(t) => IsSequence(s \o t)
<1>1. IsSequence(<<>>)
  BY DEF IsSequence, Range
<1>2. ASSUME NEW x PROVE IsSequence(<<x>>)
  <2>1. <<x>>[1] = x /\ DOMAIN <<x>> = 1 .. 1
    OBVIOUS
  <2>2. x \in Range(<<x>>)
    BY <2>1 DEF Range
  <2> QED
    BY <2>2 DEF IsSequence
<1>3. ASSUME NEW s, NEW t, IsSequence(s), IsSequence(t) PROVE IsSequence(s \o t)
  <2> DEFINE S == Range(s) \cup Range(t)
  <2>1. s \in Seq(S) /\ t \in Seq(S)
    BY <1>3 DEF IsSequence
  <2> DEFINE u == s \o t
  <2>2. u \in Seq(S)
    BY <2>1
  <2> HIDE DEF u, S
  <2>3. Len(u) \in Nat /\ u \in [1 .. Len(u) -> S]
    BY <2>2
  <2>4. u \in [1 .. Len(u) -> Range(u)]
    BY <2>3 DEF Range
  <2>5. u \in Seq(Range(u))
    BY <2>3, <2>4
  <2> QED
    BY <2>5 DEF IsSequence, u
<1> QED
  BY <1>1, <1>2, <1>3

\* What a wrapper that is willing is asked for, and a packet for it.
WillingFor(s, params) == s \in DOMAIN wrappers /\ AnnotationOf(s) # <<>> /\ Probe(s, params)
OpensFor(s, params, replies) ==
  \E i \in DOMAIN AnnotationOf(s) :
    /\ AnnotationOf(s)[i].opts # ""
    /\ s = "jwe" => \E k \in Range(params["privkeys"]) : k.key \in AnnotationOf(s)[i].to
    /\ s # "jwe" => UnwrapsProvider(s, params, replies)
SoundFor(s, params) ==
  /\ \A i \in DOMAIN AnnotationOf(s) : AnnotationOf(s)[i].legal /\ AnnotationOf(s)[i].opts # ""
  /\ s = "jwe" => AllKeys(params["privkeys"], "private")

\* The packets a wrapper is given are in a list.
LEMMA PacketsListed == ASSUME PacketsAreLists, NEW s PROVE IsSequence(AnnotationOf(s))
<1>1. CASE s = "jwe"
  BY <1>1, SequenceTypes DEF AnnotationOf, PacketsAreLists
<1>2. CASE s # "jwe"
  <2> DEFINE T == {n \in 1 .. Len(ProviderNames) : ProviderNames[n] \in DOMAIN annotations}
             i == SelectInSeq(ProviderNames, LAMBDA n : n \in DOMAIN annotations)
  <2>1. T \subseteq Nat /\ i = IF T # {} THEN Min(T) ELSE 0
    BY KeyWrapAssumption DEF SelectInSeq
  <2>2. i # 0 => ProviderNames[i] \in DOMAIN annotations
    BY <2>1, LeastIsMin
  <2>3. AnnotationOf(s) = IF i = 0 THEN <<>> ELSE annotations[ProviderNames[i]]
    BY <1>2 DEF AnnotationOf
  <2> HIDE DEF i
  <2> QED
    BY <2>2, <2>3, SequenceTypes DEF PacketsAreLists
<1> QED
  BY <1>1, <1>2

\* A wrapper that can open a layer gives its options.
LEMMA OpenerUnwraps ==
  ASSUME PacketsAreLists, NEW s, NEW params, NEW replies,
         WillingFor(s, params), OpensFor(s, params, replies), SoundFor(s, params)
  PROVE  LET given == PreUnwrap(s, params, replies) IN given # <<>> /\ given[1].opts # ""
<1> DEFINE packets == AnnotationOf(s)
           bad == SelectInSeq(packets, LAMBDA p : ~ p.legal)
           T == {n \in 1 .. Len(packets) : Unwraps(s, params, packets[n], replies)}
           i == SelectInSeq(packets, LAMBDA p : Unwraps(s, params, p, replies))
<1>1. Len(packets) \in Nat /\ DOMAIN packets = 1 .. Len(packets)
  BY PacketsListed DEF IsSequence
<1>2. bad = 0
  BY <1>1 DEF SelectInSeq, SoundFor
<1>3. i = IF T # {} THEN Min(T) ELSE 0
  BY DEF SelectInSeq
<1>4. T # {}
  <2>1. PICK n \in DOMAIN packets :
          /\ s = "jwe" => \E k \in Range(params["privkeys"]) : k.key \in packets[n].to
          /\ s # "jwe" => UnwrapsProvider(s, params, replies)
    BY DEF OpensFor
  <2>2. CASE s = "jwe"
    BY <2>1, <2>2, <1>1 DEF Unwraps, UnwrapsJwe, PrivateUpTo, SoundFor, AllKeys, Range
  <2>3. CASE s # "jwe"
    BY <2>1, <2>3, <1>1 DEF Unwraps
  <2> QED
    BY <2>2, <2>3
<1>5. i \in T /\ i # 0
  <2>1. T \subseteq Nat \ {0}
    BY <1>1
  <2> HIDE DEF T, i
  <2> QED
    BY <1>3, <1>4, <2>1, LeastIsMin
<1>6. PreUnwrap(s, params, replies) = <<packets[i]>>
  <2>1. PreUnwrap(s, params, replies) =
          LET tried == IF bad = 0 THEN packets ELSE SubSeq(packets, 1, bad - 1)
              j == SelectInSeq(tried, LAMBDA p : Unwraps(s, params, p, replies)) IN
          IF j = 0 THEN <<>> ELSE <<tried[j]>>
    BY DEF PreUnwrap
  <2> HIDE DEF bad
  <2>2. PreUnwrap(s, params, replies) = IF i = 0 THEN <<>> ELSE <<packets[i]>>
    BY <2>1, <1>2
  <2> HIDE DEF i, packets
  <2> QED
    BY <2>2, <1>5
<1>7. packets[i].opts # ""
  <2> HIDE DEF i
  <2> QED
    BY <1>5, <1>1 DEF SoundFor
<1> HIDE DEF i, packets
<1>8. <<packets[i]>> # <<>> /\ <<packets[i]>>[1] = packets[i]
  OBVIOUS
<1> QED
  BY <1>6, <1>7, <1>8

\* The wrapper that decides opens the layer, whichever of those that could it is.
LEMMA FirstOpens ==
  ASSUME PacketsAreLists, NEW order \in Seq(DOMAIN wrappers), ToSet(order) = DOMAIN wrappers,
         NEW params, NEW replies,
         \E s : WillingFor(s, params),
         \A s : WillingFor(s, params) => OpensFor(s, params, replies) /\ SoundFor(s, params)
  PROVE  UnwrapOpts(order, params, replies).state = "unwrapped"
<1> DEFINE T == {n \in 1 .. Len(order) : ~ PassedOver(order[n], params, replies)}
           i == SelectInSeq(order, LAMBDA s : ~ PassedOver(s, params, replies))
<1>1. Len(order) \in Nat /\ DOMAIN order = 1 .. Len(order)
  OBVIOUS
<1>2. \A s : WillingFor(s, params) =>
         LET given == PreUnwrap(s, params, replies) IN given # <<>> /\ given[1].opts # ""
  BY OpenerUnwraps
<1>3. T # {}
  <2>1. PICK s : WillingFor(s, params)
    OBVIOUS
  <2>2. ~ PassedOver(s, params, replies)
    BY <2>1, <1>2 DEF PassedOver, WillingFor
  <2>3. PICK n \in 1 .. Len(order) : order[n] = s
    BY <2>1, <1>1 DEF ToSet, WillingFor
  <2> QED
    BY <2>2, <2>3
<1>4. i \in T /\ i # 0
  <2>1. T \subseteq Nat \ {0} /\ i = IF T # {} THEN Min(T) ELSE 0
    BY <1>1 DEF SelectInSeq
  <2> HIDE DEF T, i
  <2> QED
    BY <1>3, <2>1, LeastIsMin
<1>5. PreUnwrap(order[i], params, replies) # <<>>
  <2>1. i \in 1 .. Len(order) /\ ~ PassedOver(order[i], params, replies)
    BY <1>4
  <2> HIDE DEF i
  <2>2. order[i] \in DOMAIN wrappers
    BY <2>1, <1>1
  <2>3. WillingFor(order[i], params)
    BY <2>1, <2>2 DEF PassedOver, WillingFor
  <2> QED
    BY <2>3, <1>2
<1>6. UnwrapOpts(order, params, replies).state =
        LET given == IF i = 0 THEN <<>> ELSE PreUnwrap(order[i], params, replies) IN
        IF given = <<>> THEN "error" ELSE "unwrapped"
  BY DEF UnwrapOpts
<1> HIDE DEF i
<1> QED
  BY <1>4, <1>5, <1>6

LEMMA OrderIsList ==
  ASSUME NEW S, IsFiniteSet(S), NEW order \in SetToSeqs(S)
  PROVE  order \in Seq(S)
<1>1. Cardinality(S) \in Nat
  BY FS_CardinalityType
<1>2. order \in [1 .. Cardinality(S) -> S]
  BY DEF SetToSeqs
<1> QED
  BY <1>1, <1>2

LEMMA WrapInitInv == WrapInit => WrapInv
<1> SUFFICES ASSUME WrapInit PROVE WrapInv
  OBVIOUS
<1>1. DOMAIN wrappers = {} /\ DOMAIN annotations = {}
  BY DEF WrapInit
<1> QED
  BY <1>1, FS_EmptySet DEF WrapInit, WrapInv, PacketsAreLists, WrappersAreFew, NoneDecrypted, RecipientsOpen, NotDecrypted

LEMMA AnnotationStays == ASSUME UNCHANGED annotations PROVE \A s : AnnotationOf(s)' = AnnotationOf(s)
BY DEF AnnotationOf, SelectInSeq

\* What was decrypted is about the annotations, the wrappers and the public options.
LEMMA OpenStays ==
  ASSUME RecipientsOpen, UNCHANGED <<annotations, wrappers, pubOpts, decrypted>>
  PROVE  RecipientsOpen'
<1>1. \A s : AnnotationOf(s)' = AnnotationOf(s)
  BY AnnotationStays
<1> QED
  BY <1>1 DEF RecipientsOpen, Willing, Opens, Sound, Probe, UnwrapsProvider, UnwrapsNatively, Reached

LEMMA NothingToOpen == ASSUME decrypted'.state = "none" PROVE RecipientsOpen'
BY DEF RecipientsOpen

\* Packets are added to those there are.
LEMMA PacketsAdded ==
  ASSUME PacketsAreLists, NEW params, NEW replies, NEW o, NEW pub, Finalize(params, replies, o, pub)
  PROVE  PacketsAreLists'
<1>1. CASE UNCHANGED annotations
  BY <1>1 DEF PacketsAreLists
<1>2. CASE annotations' = [s \in DOMAIN wrappers |->
                            (IF s \in DOMAIN annotations THEN annotations[s] ELSE <<>>)
                            \o <<Wrapped(s, params, o)>>]
  <2> SUFFICES ASSUME NEW s \in DOMAIN annotations' PROVE IsSequence(annotations'[s])
    BY DEF PacketsAreLists
  <2> DEFINE before == IF s \in DOMAIN annotations THEN annotations[s] ELSE <<>>
  <2>1. IsSequence(before) /\ IsSequence(<<Wrapped(s, params, o)>>)
    BY SequenceTypes DEF PacketsAreLists
  <2>2. annotations'[s] = before \o <<Wrapped(s, params, o)>>
    BY <1>2
  <2> HIDE DEF before
  <2> QED
    BY <2>1, <2>2, SequenceTypes
<1> QED
  BY <1>1, <1>2 DEF Finalize

LEMMA StepOfForeign ==
  ASSUME WrapInv, NEW scheme, NEW p, NEW first, AddForeign(scheme, p, first)
  PROVE  WrapInv'
<1>1. decrypted'.state = "none" /\ UNCHANGED wrappers
  BY DEF AddForeign, NotDecrypted
<1>2. PacketsAreLists'
  <2> SUFFICES ASSUME NEW s \in DOMAIN annotations' PROVE IsSequence(annotations'[s])
    BY DEF PacketsAreLists
  <2>1. s \in DOMAIN annotations /\ IsSequence(annotations[s]) /\ IsSequence(<<p>>)
    BY SequenceTypes DEF AddForeign, WrapInv, PacketsAreLists
  <2>2. annotations'[s] \in {annotations[s], <<p>> \o annotations[s], annotations[s] \o <<p>>}
    BY <2>1 DEF AddForeign
  <2> QED
    BY <2>1, <2>2, SequenceTypes
<1> QED
  BY <1>1, <1>2, NothingToOpen DEF WrapInv, WrappersAreFew, NoneDecrypted

LEMMA StepOfDecrypt ==
  ASSUME WrapInv, NEW args, NEW order \in SetToSeqs(DOMAIN wrappers), NEW replies, DecryptLayer(args, order, replies)
  PROVE  WrapInv'
<1>1. /\ annotations # <<>> /\ wrapPc = "ready" /\ wrapPc' # "encrypting"
      /\ UNCHANGED <<annotations, wrappers, pubOpts>>
      /\ ToSet(order) = DOMAIN wrappers
  BY DEF DecryptLayer
<1>2. RecipientsOpen'
  <2>1. CASE UNCHANGED decrypted
    BY <1>1, <2>1, OpenStays DEF WrapInv
  <2>2. CASE ~ UNCHANGED decrypted
    <3> DEFINE params == DecryptParams(args)
               found == UnwrapOpts(order, params, replies)
    <3>1. decrypted' = [found EXCEPT !.state = IF @ = "unwrapped" /\ PubOptsLegal THEN "opened" ELSE "error"]
      BY <2>2 DEF DecryptLayer
    <3>2. /\ decrypted'.params = params /\ decrypted'.replies = replies
          /\ decrypted'.state = IF found.state = "unwrapped" /\ PubOptsLegal THEN "opened" ELSE "error"
      <4>1. found = [params |-> found.params, replies |-> found.replies, state |-> found.state, opts |-> found.opts]
            /\ found.params = params /\ found.replies = replies
        BY DEF UnwrapOpts
      <4> HIDE DEF found, params
      <4> QED
        BY <3>1, <4>1
    <3> HIDE DEF params
    <3>3. SUFFICES ASSUME pubOpts # "", Willing' # {}, \A s \in Willing' : Opens(s)' /\ Sound(s)'
                   PROVE  found.state = "unwrapped"
      BY <1>1, <3>2 DEF RecipientsOpen, PubOptsLegal
    <3>4. \A s : AnnotationOf(s)' = AnnotationOf(s)
      BY <1>1, AnnotationStays
    <3>5. \A s : WillingFor(s, params) <=> s \in Willing'
      BY <1>1, <3>2, <3>4 DEF Willing, WillingFor, Probe
    <3>6. ASSUME NEW s, WillingFor(s, params) PROVE OpensFor(s, params, replies) /\ SoundFor(s, params)
      <4>1. Opens(s)' /\ Sound(s)'
        BY <3>3, <3>5, <3>6
      <4>2. OpensFor(s, params, replies)
        BY <1>1, <3>2, <3>4, <4>1 DEF Opens, OpensFor, UnwrapsProvider, UnwrapsNatively, Reached
      <4>3. SoundFor(s, params)
        BY <3>2, <3>4, <4>1 DEF Sound, SoundFor, AllKeys
      <4> QED
        BY <4>2, <4>3
    <3>7. order \in Seq(DOMAIN wrappers)
      BY OrderIsList DEF WrapInv, WrappersAreFew
    <3>8. \E s : WillingFor(s, params)
      BY <3>3, <3>5
    <3> QED
      BY <1>1, <3>6, <3>7, <3>8, FirstOpens DEF WrapInv
  <2> QED
    BY <2>1, <2>2
<1> QED
  BY <1>1, <1>2 DEF WrapInv, PacketsAreLists, WrappersAreFew, NoneDecrypted

LEMMA WrapStep == WrapInv /\ [WrapNext]_wrapVars => WrapInv'
<1> SUFFICES ASSUME WrapInv, [WrapNext]_wrapVars PROVE WrapInv'
  OBVIOUS
<1> USE DEF WrapInv
<1>1. ASSUME NEW env \in Environments, NEW legal, Register(env, legal) PROVE WrapInv'
  <2>1. decrypted'.state = "none" /\ UNCHANGED annotations /\ wrappers' = KeyWrappers(env)
    BY <1>1 DEF Register, NotDecrypted
  <2>2. DOMAIN KeyWrappers(env) = {"jwe"} \cup DOMAIN env
    BY DEF KeyWrappers
  <2>3. IsFiniteSet({"jwe"} \cup DOMAIN env)
    BY KeyWrapAssumption, FS_Singleton, FS_Union
  <2> QED
    BY <2>1, <2>2, <2>3, NothingToOpen DEF PacketsAreLists, WrappersAreFew, NoneDecrypted
<1>2. ASSUME NEW rs, EncryptLayer(rs) PROVE WrapInv'
  <2>1. UNCHANGED <<annotations, wrappers, pubOpts, decrypted>> /\ decrypted.state = "none"
    BY <1>2 DEF EncryptLayer, NoneDecrypted
  <2> QED
    BY <2>1, NothingToOpen DEF PacketsAreLists, WrappersAreFew, NoneDecrypted
<1>3. ASSUME NEW replies, FinalizeNew(replies) PROVE WrapInv'
  <2>1. decrypted'.state = "none" /\ UNCHANGED wrappers
    BY <1>3 DEF FinalizeNew, NoneDecrypted
  <2>2. PacketsAreLists'
    BY <1>3, PacketsAdded DEF FinalizeNew
  <2> QED
    BY <2>1, <2>2, NothingToOpen DEF WrappersAreFew, NoneDecrypted
<1>4. ASSUME NEW rs, NEW args, NEW order, NEW replies, AddRecipients(rs, args, order, replies) PROVE WrapInv'
  <2>1. decrypted'.state = "none" /\ UNCHANGED wrappers
    BY <1>4 DEF AddRecipients, NotDecrypted
  <2>2. PacketsAreLists'
    <3>1. CASE UNCHANGED annotations
      BY <3>1 DEF PacketsAreLists
    <3>2. CASE Finalize(EncryptParams(rs), replies, "", "")
      BY <3>2, PacketsAdded
    <3> QED
      BY <1>4, <3>1, <3>2 DEF AddRecipients
  <2> QED
    BY <2>1, <2>2, NothingToOpen DEF WrappersAreFew, NoneDecrypted
<1>5. CASE UNCHANGED wrapVars
  <2>1. UNCHANGED <<annotations, wrappers, pubOpts, decrypted, wrapPc>>
    BY <1>5 DEF wrapVars
  <2> QED
    BY <2>1, OpenStays DEF PacketsAreLists, WrappersAreFew, NoneDecrypted
<1> HIDE DEF WrapInv
<1> QED
  BY <1>1, <1>2, <1>3, <1>4, <1>5, StepOfForeign, StepOfDecrypt DEF WrapNext

\* A layer to which nobody was added opens for each of its recipients, whatever other
\* packets and private keys there are and in whatever order the wrappers are asked
\* (encryption.rs, decrypt_layer_key_opts_data).
THEOREM LayersOpen == WrapSpec => []RecipientsOpen
<1>1. WrapInv => RecipientsOpen
  BY DEF WrapInv
<1> QED
  BY <1>1, WrapInitInv, WrapStep, PTL DEF WrapSpec

=============================================================================
