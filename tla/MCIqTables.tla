---------------------------- MODULE MCIqTables ------------------------------
(* Small instances of IqTables for TLC. *)
EXTENDS IqTables, TLC

CONSTANTS c1, c2

TwoCallers == {c1, c2}
CallerSymmetry == Permutations(TwoCallers)

(* Two types that share a slot, two of other slots with other recipes,     *)
(* and one without tables.                                                 *)
SharedTypes == {"IQ1_S", "IQ1_M", "IQ2_S", "IQ3_S", "Q8_0"}

(* One type of each slot of the second array, and the one of the first     *)
(* array that is freed first.                                              *)
OtherTypes == {"IQ2_XXS", "IQ2_XS", "IQ3_XXS", "IQ3_S"}
=============================================================================
