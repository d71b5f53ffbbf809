------------------------------ MODULE Attesters ------------------------------
(***************************************************************************)
(* The attesters: which one speaks for the guest and for its devices, what *)
(* each makes of the caller's report data, and the steps in which it       *)
(* collects evidence while the agent extends registers and writes its log, *)
(* other requests are served, and other processes use the same files.      *)
(*                                                                         *)
(* Bytes are sequences of 16-byte blocks: a SHA-256 digest is two of them, *)
(* a SHA-384 digest three and a report data field four. A register holds   *)
(* the sequence of what was extended into it. The firmware, the TPM, the   *)
(* libraries that drive them and the services they ask are external.       *)
(***************************************************************************)
EXTENDS Naturals, Sequences, FiniteSets, SequencesExt

CONSTANTS
  Machines,    \* records of features [built], of what is found in the guest [present] and of its settings
  Requests,    \* slots for the evidence asked for at one time
  ReportDatas, \* sequences of blocks
  Digests,     \* digests that are extended or bound
  Indices,     \* PCR indices that are asked for
  InitPcr,     \* init_pcr of the configuration, the register of requests without an index
  MaxExtends   \* bound: extensions of registers

\* Indices are numbers of registers; digests and report data are bytes; what the firmware
\* has in its log was not extended by the agent.
ASSUME AttestersAssumption ==
  /\ Indices \subseteq Nat /\ InitPcr \in Nat /\ Digests \subseteq Seq(Nat) /\ ReportDatas \subseteq Seq(Nat)
  /\ \A m \in Machines : m.ccel \in Seq([kind : {"boot", "end", "junk"}])

Zero == 0
ReportBlocks == 4

VARIABLES
  machine,   \* the guest, once it has booted
  regs,      \* the measurement registers
  aael,      \* the agent's event log file
  unlogged,  \* events extended and not yet in the log
  evid,      \* the requests for evidence
  inblobs,   \* the report directories: for each request <<generation, inblob>>, or <<>>
  userData,  \* Gramine's /dev/attestation/user_report_data
  readBack,  \* the last runtime measurement that was read
  bound      \* the answer to the last bind_init_data

attVars == <<machine, regs, aael, unlogged, evid, inblobs, userData, readBack, bound>>

NoMachine == [built |-> {}, present |-> {}, ccel |-> <<>>, hostData |-> <<>>]
\* Of a quote, with the number of events that had been extended when it was made.
NoQuote == [data |-> <<>>, regs |-> <<>>, after |-> 0]
NoRequest == [pc |-> "idle", tee |-> "none", asked |-> <<>>, data |-> <<>>, quote |-> NoQuote,
              pcrs |-> <<>>, log |-> <<>>, alone |-> TRUE, late |-> FALSE]
NothingRead == [index |-> 0, at |-> 0, value |-> <<>>, ok |-> FALSE]

AttestersInit ==
  /\ machine = NoMachine
  /\ regs = [r \in 0 .. 23 |-> <<>>]
  /\ aael = <<>> /\ unlogged = <<>>
  /\ evid = [q \in Requests |-> NoRequest]
  /\ inblobs = [q \in Requests |-> <<>>]
  /\ userData = <<>>
  /\ readBack = NothingRead
  /\ bound = "unasked"

\* What fits into a field of n blocks: the rest is cut off, or zeros are added.
Pad(bytes, n) == [i \in 1 .. n |-> IF i <= Len(bytes) THEN bytes[i] ELSE Zero]

-----------------------------------------------------------------------------
(* Detection *)

TeeOrder == <<"tdx", "sgx", "az-tdx", "az-snp", "snp", "csv", "cca", "se", "tpm">>

LibosType(m) ==
  IF "OCCLUM" \in m.present THEN "occlum"
  ELSE IF "attestation_type dcap" \in m.present THEN "gramine" ELSE "invalid"

\* A device that is named must be there; otherwise the first of three paths is taken.
DetectTpmDevice(m) ==
  IF "AA_TPM_DEVICE" \in m.present THEN "AA_TPM_DEVICE exists" \in m.present
  ELSE m.present \cap {"/dev/tpm0", "/dev/tpm1", "/dev/tpm2"} # {}

\* A handle that is no hexadecimal number is refused, a missing one is a default.
AkHandleIsLegal(m) == "illegal AA_TPM_AK_HANDLE" \notin m.present

NewTpmAttester(m) == DetectTpmDevice(m) /\ AkHandleIsLegal(m)

DcuDetected(m) == {"/dev/mkfd", "kfd node"} \subseteq m.present

\* The SDK starts and finds evidence of a GPU or a switch.
NvidiaDetected(m) == "nvat" \in m.present /\ m.present \cap {"gpu", "switch"} # {}

Detected(m, tee) ==
  CASE tee = "tdx" -> m.present \cap {"tdx tsm", "/dev/tdx_guest"} # {}
    [] tee = "sgx" -> LibosType(m) # "invalid"
    [] tee = "tpm" -> NewTpmAttester(m)
    [] tee = "nvidia" -> NvidiaDetected(m)
    [] tee = "hygon-dcu" -> DcuDetected(m)
    [] OTHER -> tee \in m.present

Works(m, tee) == tee \in m.built /\ Detected(m, tee)

DetectTeeType(m) ==
  LET found == SelectSeq(TeeOrder, LAMBDA t : Works(m, t)) IN
  IF found = <<>> THEN "sample" ELSE found[1]

\* A TPM is a device where no other kind of attester measures at run time.
TpmIsDevice(m) ==
  /\ Works(m, "tpm") /\ DetectTeeType(m) # "tpm"
  /\ m.built \cap {"tdx", "az-snp", "az-tdx"} = {}

DetectAttestableDevices(m) ==
  {t \in {"nvidia", "hygon-dcu"} : Works(m, t)}
    \cup (IF "sample-device" \in m.present THEN {"sample-device"} ELSE {})
    \cup (IF TpmIsDevice(m) THEN {"tpm"} ELSE {})

Primary == DetectTeeType(machine)

\* TryFrom: the attester of a kind that was detected is there, for its feature is built.
NewAttesters == {Primary} \cup DetectAttestableDevices(machine)

\* The hash of the agent's events is the platform's, which need not have one.
CcelHashBlocks(tee) ==
  CASE tee = "tdx" -> 3 [] tee \in {"csv", "az-snp", "az-tdx"} -> 2 [] OTHER -> 0

LogsEvents(m) == "enable_eventlog" \in m.present

\* The agent is up; it does not start with an event log on a platform without a hash.
BootMachine(m) ==
  /\ machine = NoMachine
  /\ LogsEvents(m) => CcelHashBlocks(DetectTeeType(m)) > 0
  /\ machine' = m
  /\ UNCHANGED <<regs, aael, unlogged, evid, inblobs, userData, readBack, bound>>

-----------------------------------------------------------------------------
(* Report data *)

\* evidence_getter cuts the report data for the vTPMs of Azure itself.
AdjustReportData(tee, data) ==
  IF tee \in {"az-snp", "az-tdx"} THEN SubSeq(data, 1, IF Len(data) < 2 THEN Len(data) ELSE 2)
  ELSE data

\* Attesters that have no place for more than 64 bytes refuse them ...
Refused(tee, data) ==
  tee \in {"tdx", "sgx", "snp", "csv", "cca", "se"} /\ Len(data) > ReportBlocks

\* ... the others take what they have place for: the nonces of TPM and GPU are short.
KeptBlocks(tee) == IF tee \in {"tpm", "nvidia"} THEN 2 ELSE ReportBlocks

\* The vTPM library and the sample attesters get the bytes as they are.
Reported(tee, data) ==
  IF tee \in {"az-snp", "az-tdx", "sample", "sample-device"} THEN data
  ELSE Pad(data, KeptBlocks(tee))

Over == {"idle", "done", "empty", "failed"}

FirstStep(tee) ==
  CASE tee \in {"tdx", "cca"} -> "dir"
    [] tee = "tpm" -> "quote"
    [] tee \in {"az-snp", "az-tdx"} -> "hcl"
    [] tee = "sgx" /\ LibosType(machine) = "gramine" -> "userdata"
    [] OTHER -> "report"

AskEvidence(q, tee, data, adjusted) ==
  LET given == IF adjusted THEN AdjustReportData(tee, data) ELSE data IN
  /\ machine # NoMachine /\ tee \in NewAttesters
  /\ evid[q].pc \in Over
  /\ evid' = [r \in Requests |->
       IF r = q THEN [NoRequest EXCEPT !.pc = IF Refused(tee, given) THEN "failed" ELSE FirstStep(tee),
                        !.tee = tee, !.asked = given, !.data = Reported(tee, given),
                        !.alone = \A o \in Requests \ {q} : evid[o].pc \in Over]
       ELSE [evid[r] EXCEPT !.alone = (evid[r].pc = "idle")]]
  /\ UNCHANGED <<machine, regs, aael, unlogged, inblobs, userData, readBack, bound>>

\* The events that were extended, whether or not they are in the log yet.
Extensions == Len(aael) + Len(unlogged)
QuoteOf(data) == [data |-> data, regs |-> regs, after |-> Extensions]

Goes(q, pc) == evid' = [evid EXCEPT ![q].pc = pc]
Quoted(q, data, pc) == evid' = [evid EXCEPT ![q].quote = QuoteOf(data), ![q].pc = pc]
KeepsRest == UNCHANGED <<machine, regs, aael, unlogged, readBack, bound>>

-----------------------------------------------------------------------------
(* TSM reports (tdx, cca): a directory of configfs for each request *)

\* TsmReportPath::new; where the provider is another one the directory is removed.
MakeReportDir(q, ok) ==
  /\ evid[q].pc = "dir"
  /\ inblobs' = IF ok THEN [inblobs EXCEPT ![q] = <<0, <<>> >>] ELSE inblobs
  /\ Goes(q, IF ok THEN "inblob" ELSE "failed")
  /\ UNCHANGED userData /\ KeepsRest

WriteInblob(q) ==
  /\ evid[q].pc = "inblob"
  /\ inblobs' = [inblobs EXCEPT ![q] = <<@[1] + 1, evid[q].data>>]
  /\ Goes(q, "outblob") /\ UNCHANGED userData /\ KeepsRest

\* Reading the outblob makes the firmware's quote over the inblob that is there.
ReadOutblob(q, ok) ==
  /\ evid[q].pc = "outblob"
  /\ IF ok THEN Quoted(q, inblobs[q][2], "generation") /\ UNCHANGED inblobs
     ELSE Goes(q, "failed") /\ inblobs' = [inblobs EXCEPT ![q] = <<>>]
  /\ UNCHANGED userData /\ KeepsRest

\* Mutant of IsOwnReport: the generation is read, and one more is let pass.
IsOwnReportLoose(generation) == generation <= 2

\* The generation counts the writes of the inblob: one, if nobody else wrote it.
IsOwnReport(generation) == generation <= 1

\* The directory goes out of scope with the report, or with the error.
CheckGeneration(q) ==
  /\ evid[q].pc = "generation"
  /\ inblobs' = [inblobs EXCEPT ![q] = <<>>]
  /\ Goes(q, IF ~ IsOwnReport(inblobs[q][1]) THEN "failed"
             ELSE IF evid[q].tee = "tdx" THEN "log" ELSE "done")
  /\ UNCHANGED userData /\ KeepsRest

\* Another process finds the directory and asks for a report of its own there.
OtherWritesInblob(q, data) ==
  /\ inblobs[q] # <<>> /\ inblobs[q][1] < 2
  /\ inblobs' = [inblobs EXCEPT ![q] = <<@[1] + 1, data>>]
  /\ UNCHANGED <<evid, userData>> /\ KeepsRest

-----------------------------------------------------------------------------
(* Event log *)

Header == [kind |-> "header"]
EndMark == [kind |-> "end"]
IsMark(e) == e.kind = "end"

\* trim_ccel: the entries of the ACPI table before the mark (ones, or zeros) after them.
TrimCcel(ccel) == SubSeq(ccel, 1, SelectInSeq(ccel, IsMark) - 1)

CcelIsLegal(ccel) == ccel = <<>> \/ SelectInSeq(ccel, IsMark) > 0

\* read_eventlog: without the table a header comes before the agent's file; there is
\* nothing at all without a table and without a file, which may be empty.
ReadEventlog(ccel, exists, own) ==
  LET boot == IF ccel = <<>> THEN <<>> ELSE TrimCcel(ccel)
      head == IF boot = <<>> /\ exists THEN <<Header>> ELSE boot IN
  IF head = <<>> THEN <<>> ELSE head \o own \o <<EndMark>>

ReadLog(q) ==
  /\ evid[q].pc = "log"
  /\ evid' = [evid EXCEPT ![q].log = ReadEventlog(machine.ccel, LogsEvents(machine), aael),
                ![q].late = evid[q].quote.after > Len(aael),
                ![q].pc = IF CcelIsLegal(machine.ccel) THEN "done" ELSE "failed"]
  /\ UNCHANGED <<inblobs, userData>> /\ KeepsRest

-----------------------------------------------------------------------------
(* The other attesters *)

\* tpm: the key is read and the quote is made in one session, the PCRs are read in
\* another. A TPM may have no key or refuse it.
QuoteTpm(q, ok) ==
  /\ evid[q].pc = "quote"
  /\ IF ok THEN Quoted(q, evid[q].data, "pcrs") ELSE Goes(q, "failed")
  /\ UNCHANGED <<inblobs, userData>> /\ KeepsRest

ReadAllPcrs(q, ok) ==
  /\ evid[q].pc = "pcrs"
  /\ evid' = [evid EXCEPT ![q].pcrs = regs, ![q].pc = IF ok THEN "done" ELSE "failed"]
  /\ UNCHANGED <<inblobs, userData>> /\ KeepsRest

\* az_snp_vtpm, az_tdx_vtpm: the paravisor's report and for TDX the quote of its TD
\* report, the quote of the vTPM with its PCRs, for SNP the certificates.
AzureStep(q, ok) ==
  LET Vtpm(pc) == evid' = [evid EXCEPT ![q].quote = QuoteOf(evid[q].data),
                                       ![q].pcrs = regs, ![q].pc = pc] IN
  /\ evid[q].pc \in {"hcl", "tdquote", "vtpm", "certs"}
  /\ IF ~ ok THEN Goes(q, "failed")
     ELSE CASE evid[q].pc = "hcl" -> Goes(q, IF evid[q].tee = "az-tdx" THEN "tdquote" ELSE "vtpm")
            [] evid[q].pc = "tdquote" -> Goes(q, "vtpm")
            [] evid[q].pc = "vtpm" -> Vtpm(IF evid[q].tee = "az-snp" THEN "certs" ELSE "done")
            [] evid[q].pc = "certs" -> Goes(q, "done")
  /\ UNCHANGED <<inblobs, userData>> /\ KeepsRest

\* sgx under Gramine: the report data and the quote are files of the whole process.
WriteUserData(q, ok) ==
  /\ evid[q].pc = "userdata"
  /\ userData' = IF ok THEN evid[q].data ELSE userData
  /\ Goes(q, IF ok THEN "userquote" ELSE "failed")
  /\ UNCHANGED inblobs /\ KeepsRest

ReadUserQuote(q) ==
  /\ evid[q].pc = "userquote"
  /\ Quoted(q, userData, "done")
  /\ UNCHANGED <<inblobs, userData>> /\ KeepsRest

DriverReport(q, ok, after) ==
  /\ evid[q].pc = "report"
  /\ IF ok THEN Quoted(q, evid[q].data, after) ELSE Goes(q, "failed")
  /\ UNCHANGED <<inblobs, userData>> /\ KeepsRest

\* csv: the chain of certificates may be wanted too, and the log comes last.
CsvReport(q, ok) ==
  /\ evid[q].tee = "csv"
  /\ DriverReport(q, ok, IF "chain wanted" \in machine.present THEN "chain" ELSE "log")

SnpReport(q, ok) == evid[q].tee = "snp" /\ DriverReport(q, ok, "done")

\* The report data is in a request in JSON, which may be illegal or without it.
SeReport(q, ok) == evid[q].tee = "se" /\ DriverReport(q, ok, "done")

DcuReport(q, ok) == evid[q].tee = "hygon-dcu" /\ DriverReport(q, ok, "done")

OcclumReport(q, ok) == evid[q].tee = "sgx" /\ DriverReport(q, ok, "done")

\* nvidia: GPUs and switches that fail are left out of the list, which may end up empty.
CollectDevices(q, ok) ==
  /\ evid[q].pc = "report" /\ evid[q].tee = "nvidia"
  /\ IF ok THEN Quoted(q, evid[q].data, "done") ELSE Goes(q, "empty")
  /\ UNCHANGED <<inblobs, userData>> /\ KeepsRest

SampleEvidence(q) ==
  /\ evid[q].pc = "report" /\ evid[q].tee \in {"sample", "sample-device"}
  /\ Quoted(q, evid[q].data, "done")
  /\ UNCHANGED <<inblobs, userData>> /\ KeepsRest

DownloadChain(q, ok) ==
  /\ evid[q].pc = "chain"
  /\ Goes(q, IF ok THEN "log" ELSE "failed")
  /\ UNCHANGED <<inblobs, userData>> /\ KeepsRest

-----------------------------------------------------------------------------
(* Runtime measurement *)

PcrToCcmr(tee, i) ==
  CASE tee \in {"az-snp", "az-tdx"} -> i
    [] tee = "csv" /\ i = 0 -> 0
    [] i \in {1, 7} -> 1
    [] i \in 2 .. 6 -> 2
    [] i \in 8 .. 15 -> 3
    [] OTHER -> 4

\* tdx: where sysfs shows the registers of TSM, or the library for the ioctls is built in.
SupportsRuntimeMeasurement ==
  /\ Primary \in {"tdx", "csv", "az-snp", "az-tdx", "tpm"}
  /\ Primary = "tdx" => "rtmr sysfs" \in machine.present \/ "dcap ioctls" \in machine.built

\* A legal extension: the register, and what is extended into it.
Into(r, d) == {<<r, d>>}

\* Digests are fitted to an RTMR; sysfs or the ioctl's event name it from zero.
ExtendTdx(i, d) == Into(PcrToCcmr("tdx", i) - 1, Pad(d, 3))

ExtendCsv(i, d) == Into(PcrToCcmr("csv", i), d)

\* A TPM takes SHA-256 digests only.
ExtendPcr(i, d) == IF i <= 23 /\ Len(d) = 2 THEN Into(i, d) ELSE {}

\* The index is made a byte before it is looked at.
ExtendAzure(i, d) == ExtendPcr(i % 256, d)

Extension(i, d) ==
  CASE Primary = "tdx" -> ExtendTdx(i, d)
    [] Primary = "csv" -> ExtendCsv(i, d)
    [] Primary = "tpm" -> ExtendPcr(i, d)
    [] Primary \in {"az-snp", "az-tdx"} -> ExtendAzure(i, d)

\* Mutant of MeasuredRtmr: the register of the report is not counted from zero.
MeasuredRtmrFromOne(i) == PcrToCcmr("tdx", i) % 4

\* get_rtmr: the register as sysfs or the TD report shows it.
MeasuredRtmr(i) == PcrToCcmr("tdx", i) - 1

MeasuredCsv(i) == PcrToCcmr("csv", i)

\* az_tdx_vtpm reads none back; the others refuse what is no PCR.
MeasuredRegister(i) ==
  CASE Primary = "tdx" -> {MeasuredRtmr(i)}
    [] Primary = "csv" -> {MeasuredCsv(i)}
    [] Primary \in {"az-snp", "tpm"} -> {i} \cap 0 .. 23
    [] OTHER -> {}

\* The register an event names in the log: of init_pcr, whatever index was asked for.
LogRegister == PcrToCcmr(Primary, InitPcr)

\* The agent hashes an event, reads its register, which may be refused, extends it and
\* writes the event to its log later.
ExtendRuntimeMeasurement(i, d) ==
  /\ machine # NoMachine /\ LogsEvents(machine) /\ SupportsRuntimeMeasurement /\ unlogged = <<>>
  /\ Len(d) = CcelHashBlocks(Primary) /\ Extensions < MaxExtends
  /\ MeasuredRegister(i) # {}
  /\ \E x \in Extension(i, d) :
       /\ regs' = [regs EXCEPT ![x[1]] = Append(@, x[2])]
       /\ unlogged' = <<[kind |-> "event", index |-> i, reg |-> LogRegister, digest |-> d]>>
  /\ UNCHANGED <<machine, aael, evid, inblobs, userData, readBack, bound>>

WriteEvent ==
  /\ unlogged # <<>>
  /\ aael' = aael \o unlogged /\ unlogged' = <<>>
  /\ UNCHANGED <<machine, regs, evid, inblobs, userData, readBack, bound>>

\* get_runtime_measurement.
GetRuntimeMeasurement(i) ==
  /\ machine # NoMachine
  /\ IF MeasuredRegister(i) = {} THEN readBack' = [NothingRead EXCEPT !.index = i]
     ELSE \E r \in MeasuredRegister(i) :
            readBack' = [index |-> i, at |-> Extensions, ok |-> TRUE, value |-> regs[r]]
  /\ UNCHANGED <<machine, regs, aael, unlogged, evid, inblobs, userData, bound>>

\* bind_init_data: tdx and snp compare with what the host has configured ...
InitDataIsMrconfigid(d) == machine.hostData = Pad(d, 3)
InitDataIsHostdata(d) == machine.hostData = Pad(d, 2)

BindToConfiguration(d) ==
  /\ machine # NoMachine /\ Primary \notin {"az-snp", "az-tdx", "tpm"}
  /\ bound' = CASE Primary = "tdx" -> IF InitDataIsMrconfigid(d) THEN "ok" ELSE "refused"
                [] Primary = "snp" -> IF InitDataIsHostdata(d) THEN "ok" ELSE "refused"
                [] OTHER -> "unsupported"
  /\ UNCHANGED <<machine, regs, evid, aael, unlogged, inblobs, userData, readBack>>

\* ... the vTPMs extend PCR 8, each time anew.
InitDataPcr == 8

BindToPcr(d) ==
  /\ machine # NoMachine /\ Primary \in {"az-snp", "az-tdx", "tpm"}
  /\ IF ExtendPcr(InitDataPcr, d) = {} THEN bound' = "refused" /\ UNCHANGED regs
     ELSE /\ Len(regs[InitDataPcr]) < MaxExtends
          /\ regs' = [regs EXCEPT ![InitDataPcr] = Append(@, d)]
          /\ bound' = "ok"
  /\ UNCHANGED <<machine, aael, unlogged, evid, inblobs, userData, readBack>>

AttestersNext ==
  \/ \E m \in Machines : BootMachine(m)
  \/ \E q \in Requests :
       \/ \E t \in NewAttesters, d \in ReportDatas, adjusted \in BOOLEAN : AskEvidence(q, t, d, adjusted)
       \/ WriteInblob(q) \/ CheckGeneration(q) \/ ReadLog(q) \/ ReadUserQuote(q) \/ SampleEvidence(q)
       \/ \E ok \in BOOLEAN :
            \/ MakeReportDir(q, ok) \/ ReadOutblob(q, ok) \/ QuoteTpm(q, ok) \/ ReadAllPcrs(q, ok)
            \/ AzureStep(q, ok) \/ WriteUserData(q, ok) \/ DownloadChain(q, ok) \/ CollectDevices(q, ok)
            \/ CsvReport(q, ok) \/ SnpReport(q, ok) \/ SeReport(q, ok) \/ DcuReport(q, ok) \/ OcclumReport(q, ok)
       \/ \E d \in ReportDatas : OtherWritesInblob(q, d)
  \/ WriteEvent
  \/ \E i \in Indices : GetRuntimeMeasurement(i)
  \/ \E d \in Digests : BindToConfiguration(d) \/ BindToPcr(d) \/ \E i \in Indices : ExtendRuntimeMeasurement(i, d)

AttestersSpec == AttestersInit /\ [][AttestersNext]_attVars

-----------------------------------------------------------------------------
(* Properties *)

Agree(a, b) == \A k \in 1 .. (IF Len(a) < Len(b) THEN Len(a) ELSE Len(b)) : a[k] = b[k]

\* What a verifier reads of a log are the events before the first mark.
EventsOf(log) == {k \in DOMAIN log : log[k].kind = "event" /\ \A j \in 1 .. k : ~ IsMark(log[j])}

\* The first n entries by register: the one that was asked for, and the one that is named
\* (those of a TD are counted from one).
RegisterNamed(reg) == IF Primary = "tdx" THEN reg - 1 ELSE reg
AskedInto(log, n) ==
  [r \in 0 .. 23 |-> {k \in EventsOf(log) : k <= n /\ MeasuredRegister(log[k].index) = {r}}]
NamedInto(log, n) == [r \in 0 .. 23 |-> {k \in EventsOf(log) : k <= n /\ RegisterNamed(log[k].reg) = r}]

\* A register holds the digests of its entries, each in its place.
Replays(registers, log, into) ==
  \A r \in 0 .. 23 :
    /\ Len(registers[r]) = Cardinality(into[r])
    /\ \A k \in into[r] : registers[r][Cardinality({j \in into[r] : j <= k})] = log[k].digest

\* Only registers that are init_pcr's were asked for.
AskedForInitPcr(log, n) ==
  \A k \in EventsOf(log) : k <= n => MeasuredRegister(log[k].index) = MeasuredRegister(InitPcr)

\* The report data, as far as the device has place for it; Gramine's are of the process.
DataIsAsked(e) ==
  e.tee # "sgx" \/ e.alone =>
    /\ Agree(e.quote.data, e.asked)
    /\ e.tee \notin {"tpm", "nvidia"} => Len(e.quote.data) >= Len(e.asked) \/ Len(e.asked) > ReportBlocks

\* The PCRs of a TPM, read after its quote, may have been extended since.
PcrsFollow(e) ==
  e.pcrs # <<>> =>
    /\ \A r \in 0 .. 23 : IsPrefix(e.quote.regs[r], e.pcrs[r])
    /\ e.tee # "tpm" => e.pcrs = e.quote.regs

\* The log up to some entry, with those after it extended since the quote, replays to the
\* registers of the quote: as they were asked for, and as it names them if that was
\* init_pcr's alone. Late is a log that was read while an event of the quote was not in it.
LogReplays(e) ==
  e.tee \in {"tdx", "csv"} /\ ~ e.late =>
    \E n \in 0 .. Len(e.log) :
      /\ Replays(e.quote.regs, e.log, AskedInto(e.log, n))
      /\ AskedForInitPcr(e.log, n) => Replays(e.quote.regs, e.log, NamedInto(e.log, n))

\* Evidence is over the report data of its own request, whoever else uses the report
\* directory; its PCRs are those of its quote, or with what was extended since; and what
\* a verifier finds in its log replays to the registers of its quote.
EvidenceIsSound ==
  \A q \in Requests : evid[q].pc = "done" =>
    DataIsAsked(evid[q]) /\ PcrsFollow(evid[q]) /\ LogReplays(evid[q])

\* "The parameter `report_data` will be used as the user input of the evidence to avoid
\* reply attack": also when two requests are served at the same time.
EvidenceIsOfRequest ==
  \A q \in Requests : evid[q].pc = "done" => Agree(evid[q].quote.data, evid[q].asked)

\* What was extended for an event is in the measurement read back under its index.
MeasurementHasExtensions ==
  readBack.ok => \A k \in 1 .. readBack.at :
    LET e == (aael \o unlogged)[k] IN
    e.index = readBack.index => \E j \in 1 .. Len(readBack.value) : readBack.value[j] = e.digest
=============================================================================
