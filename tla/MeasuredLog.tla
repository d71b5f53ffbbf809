----------------------------- MODULE MeasuredLog -----------------------------
(***************************************************************************)
(* What a measured event log promises, whatever the mechanism: events are  *)
(* measured and recorded one after the other, the record is never more     *)
(* than one event behind the measurement, nothing measured or recorded is  *)
(* ever taken back, and only a recorded event is answered for.  This is    *)
(* the abstract specification that EventLog implements with its WAL cache. *)
(***************************************************************************)
EXTENDS Naturals, Sequences, FiniteSets

CONSTANT Events

VARIABLES
  measured,   \* the events extended into the register, in order
  logged,     \* the entries a verifier reads, in order
  answered    \* how many requests for each event were answered with success

vars == <<measured, logged, answered>>

Init ==
  /\ measured = <<>>
  /\ logged = <<>>
  /\ answered = [e \in Events |-> 0]

Measure(e) ==
  /\ logged = measured
  /\ measured' = Append(measured, e)
  /\ UNCHANGED <<logged, answered>>

Record ==
  /\ logged # measured
  /\ logged' = measured
  /\ UNCHANGED <<measured, answered>>

Answer(e) ==
  /\ answered[e] < Cardinality({k \in DOMAIN logged : logged[k] = e})
  /\ answered' = [answered EXCEPT ![e] = @ + 1]
  /\ UNCHANGED <<measured, logged>>

Next == Record \/ \E e \in Events : Measure(e) \/ Answer(e)

Spec == Init /\ [][Next]_vars
=============================================================================
