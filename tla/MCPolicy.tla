------------------------------ MODULE MCPolicy ------------------------------
(* Small instances of Policy and Patterns for TLC. *)
EXTENDS Planning

Weight(shape, marks, layer) ==
  [dtype |-> "BF16", shape |-> shape, weight |-> TRUE, long |-> FALSE,
   ignored |-> FALSE, skip |-> FALSE, hiprec |-> FALSE, marks |-> marks,
   layer |-> layer, include |-> FALSE, exclude |-> FALSE, forced |-> ""]

Square == <<512, 256>>

(* Rows for the types of 32 elements, but not for those of 256; too few    *)
(* rows for another shape.                                                 *)
Narrow == <<65, 96>>

Value == Weight(Square, {"value"}, 0)

(* Attention values that policy, command line and architecture treat in    *)
(* every way, with shapes that fit all types, some or none.                *)
MixedTensors ==
  {Value,
   [Value EXCEPT !.exclude = TRUE, !.include = TRUE],
   [Value EXCEPT !.forced = "Q8_0", !.exclude = TRUE, !.shape = <<64, 96>>],
   [Value EXCEPT !.skip = TRUE, !.dtype = "F32"],
   [Value EXCEPT !.skip = TRUE, !.include = TRUE, !.shape = <<4, 64>>],
   [Value EXCEPT !.ignored = TRUE],
   [Value EXCEPT !.long = TRUE],
   [Value EXCEPT !.weight = FALSE, !.shape = <<>>],
   [Value EXCEPT !.shape = <<32, 16, 3, 3>>],
   [Value EXCEPT !.shape = <<0, 256>>],
   [Value EXCEPT !.forced = "Q8_0", !.shape = <<>>],
   Weight(<<64, 96>>, {"down", "updown", "ffn"}, 7)}

Roles == {{"value"}, {"qkv"}, {"qko"}, {"qko", "out"}, {"down", "updown", "ffn"},
          {"updown", "ffn"}, {"ffn"}, {"aura", "updown", "ffn"}, {}}

Layers == {-1, 0, 1, 3, 7, 14, 15, 21, 24, 28, 31, 40}

(* Every role in every layer that is treated in a way of its own, and      *)
(* every role with narrow rows.                                            *)
LayeredTensors ==
  {Weight(Square, marks, layer) : marks \in Roles, layer \in Layers}
  \union
  {Weight(Narrow, marks, layer) : marks \in Roles, layer \in {0, 24}}

(* A file of the layered kind has a tensor of any role, and one that may   *)
(* have the last layer and be a value.  It is planned dynamically, and     *)
(* files of the mixed kind by the other policies: of up to four tensors    *)
(* where values are counted, else of up to two.                            *)
LayeredFiles ==
  LayeredTensors \X {Weight(Square, marks, layer) : marks \in {{}, {"value"}}, layer \in Layers}

FilesOf(kinds, most) == UNION {[1 .. n -> kinds] : n \in 0 .. most}

AllTensors == MixedTensors \union LayeredTensors

-----------------------------------------------------------------------------
PlanningInit ==
  /\ Begin
  /\ \/ /\ tensors \in FilesOf(MixedTensors, 4)
        /\ fileType = "Q3_K_M"
        /\ policy = "comfy"
     \/ /\ tensors \in FilesOf(MixedTensors, 2)
        /\ fileType \in {"Q3_K_M", "Q4_0"}
        /\ policy \in {"comfy", "uniform"}
     \/ /\ tensors \in LayeredFiles
        /\ fileType \in OutputTypes
        /\ policy = "dynamic"

CommandInit == (PlanningInit /\ NamesIdle) \/ (Names!Init /\ PlanningIdle)

CommandSpec == CommandInit /\ [][CommandNext]_<<vars, names>>
=============================================================================
