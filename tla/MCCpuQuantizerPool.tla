------------------------- MODULE MCCpuQuantizerPool -------------------------
(* Small instances of CpuQuantizerPool for TLC. *)
EXTENDS CpuQuantizerPool

(* A source that is encoded in place, one that is decoded through scratch  *)
(* memory, and one whose target type has no native encoder.                *)
F32Plan == [f32 |-> TRUE, width |-> 1, supported |-> TRUE]
Bf16Plan == [f32 |-> FALSE, width |-> 2, supported |-> TRUE]
IqPlan == [f32 |-> FALSE, width |-> 1, supported |-> FALSE]

AllPlans == {F32Plan, Bf16Plan, IqPlan}
EncodablePlans == {Bf16Plan}
=============================================================================
