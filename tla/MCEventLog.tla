----------------------------- MODULE MCEventLog -----------------------------
(***************************************************************************)
(* Instances of EventLog for TLC.  The runs differ in the faults they let  *)
(* happen; all requests name the PCR whose register the log names.         *)
(***************************************************************************)
EXTENDS EventLog, TLC

CONSTANTS a, b, pcrA, ccmr1

OneCcmr == [p \in Pcrs |-> ccmr1]

\* The text of b, cut short, reads as a (the content of a starts that of b).
CutToA == [e \in Events |-> IF e = b THEN {a} ELSE {}]

Symmetry == Permutations(Clients)
=============================================================================
