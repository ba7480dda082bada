--------------------------- MODULE MCGpuPipeline ----------------------------
(* Small instances of GpuPipeline for TLC. *)
EXTENDS GpuPipeline

(* Widths of a row in F32 and encoded: the device's two buffers need not   *)
(* grow together.                                                          *)
Narrow == [in |-> 1, out |-> 1]
Wide == [in |-> 4, out |-> 1]
Dense == [in |-> 2, out |-> 4]

Piped(rows, chunk, width) ==
  [rows |-> rows, chunk |-> chunk, width |-> width, pipelined |-> TRUE,
   verified |-> FALSE]

OneByOne(rows, chunk, width, verified) ==
  [rows |-> rows, chunk |-> chunk, width |-> width, pipelined |-> FALSE,
   verified |-> verified]

(* Pipelines of one, two, three and four chunks, the last one short or     *)
(* not, and plain tensors of one and two chunks.                           *)
MixedShapes ==
  {Piped(1, 1, Dense), Piped(3, 2, Narrow), Piped(3, 1, Wide),
   Piped(4, 1, Narrow), OneByOne(2, 1, Dense, TRUE), OneByOne(3, 2, Wide, TRUE),
   OneByOne(2, 2, Narrow, FALSE)}
=============================================================================
