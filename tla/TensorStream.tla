---------------------------- MODULE TensorStream ----------------------------
(***************************************************************************)
(* What write_tensor_payload (conversion/converter.cpp) promises, tensor   *)
(* after tensor: the rows of a tensor go to the output file each once and  *)
(* in order, and the next tensor begins only when all of them are there.   *)
(* A conversion that fails leaves a prefix of that.  Encoding and padding  *)
(* are left to the modules that implement this one: GpuPipeline, and       *)
(* SafetensorsPayload, whose write_payload_plan promises the same.         *)
(***************************************************************************)
EXTENDS Integers, Sequences

CONSTANTS
  MaxTensors,  (* most tensors of a conversion; bounds the instance       *)
  MaxRows      (* most rows of a tensor; bounds the instance              *)

VARIABLES
  sizes,   (* the rows of each tensor begun so far                         *)
  file,    (* the rows written: <<number of the tensor, row>>              *)
  state    (* "open", "closed" or "failed"                                 *)

vars == <<sizes, file, state>>

(* The rows [first, last) of the current tensor. *)
RowsFrom(first, last) ==
  [i \in 1 .. last - first |-> <<Len(sizes), first + i - 1>>]

(* How many rows of the current tensor are in the file: they come in       *)
(* order, so the last cell tells.                                          *)
Written ==
  IF file # <<>> /\ file[Len(file)][1] = Len(sizes) THEN file[Len(file)][2] + 1 ELSE 0

Complete == sizes = <<>> \/ Written = sizes[Len(sizes)]

Init ==
  /\ sizes = <<>>
  /\ file = <<>>
  /\ state = "open"

Begin(n) ==
  /\ state = "open"
  /\ Complete
  /\ sizes' = Append(sizes, n)
  /\ UNCHANGED <<file, state>>

WriteChunk ==
  /\ state = "open"
  /\ \E last \in Written + 1 .. (IF sizes = <<>> THEN 0 ELSE sizes[Len(sizes)]) :
       file' = file \o RowsFrom(Written, last)
  /\ UNCHANGED <<sizes, state>>

Fail ==
  /\ state = "open"
  /\ state' = "failed"
  /\ UNCHANGED <<sizes, file>>

Close ==
  /\ state = "open"
  /\ Complete
  /\ state' = "closed"
  /\ UNCHANGED <<sizes, file>>

Next ==
  \/ Len(sizes) < MaxTensors /\ \E n \in 0 .. MaxRows : Begin(n)
  \/ WriteChunk
  \/ Fail
  \/ Close

(* A tensor, once begun, is carried to its end. *)
Progress == WriteChunk \/ Fail \/ Close

Spec == Init /\ [][Next]_vars /\ WF_vars(Progress)

=============================================================================
