----------------------------- MODULE MCAttesters -----------------------------
(***************************************************************************)
(* Instances of Attesters for TLC: a machine of every platform, with the   *)
(* files it has and the features the agent was built with.                 *)
(***************************************************************************)
EXTENDS Attesters

CONSTANTS q1, q2

With(tee, there) == [NoMachine EXCEPT !.built = {tee, "tpm"}, !.present = there]

MCMachines ==
  { [With("tdx", {"tdx tsm", "rtmr sysfs", "enable_eventlog"}) EXCEPT
       !.ccel = <<[kind |-> "boot"], [kind |-> "end"], [kind |-> "junk"]>>],
    [With("snp", {"snp", "AA_TPM_DEVICE", "AA_TPM_DEVICE exists", "sample-device"}) EXCEPT
       !.hostData = <<1, 2>>],
    With("cca", {"cca"}), With("tpm", {"/dev/tpm0"}), With("tpm", {"/dev/tpm0", "enable_eventlog"}),
    With("az-snp", {"az-snp", "/dev/tpm0", "enable_eventlog"}),
    With("az-tdx", {"az-tdx", "enable_eventlog"}), With("sgx", {"attestation_type dcap"}),
    With("csv", {"csv", "chain wanted", "enable_eventlog"}), With("se", {"se"}),
    With("hygon-dcu", {"/dev/mkfd", "kfd node"}), With("nvidia", {"nvat", "gpu"}),
    With("sgx", {"OCCLUM", "/dev/tpm1", "illegal AA_TPM_AK_HANDLE"}) }

\* Shorter than, as long as and longer than what a report has place for.
MCReportDatas == {<<1, 2, 3>>, <<1, 4, 4, 4>>, <<1, 2, 3, 4, 5>>}
MCDigests == {<<1, 2>>, <<4, 2>>, <<1, 2, 3>>, <<4, 2, 3>>}

\* Bound: nothing is read back and (but by a TPM) no init data bound while evidence is made,
\* and two requests are made at a time only where they share files.
Asking == {q \in Requests : evid'[q].tee # "none"}
Few == /\ Asking # {} => readBack' = NothingRead /\ (Primary = "tpm" \/ bound' = "unasked")
       /\ Asking = Requests => Primary \in {"sgx", "cca"}

FewSpec == AttestersInit /\ [][AttestersNext /\ Few]_attVars
=============================================================================
