------------------------ MODULE MCSafetensorsPayload ------------------------
(* Small instances of SafetensorsPayload for TLC. *)
EXTENDS SafetensorsPayload

Plan(dtype, qtype, begin, rows, width, rowSize, given) ==
  [dtype |-> dtype, qtype |-> qtype, begin |-> begin, rows |-> rows, width |-> width,
   rowSize |-> rowSize, given |-> given,
   end |-> begin + rows * width * DtypeSize(dtype)]

(* Each way of encoding, with sources that can and cannot be read in       *)
(* place, with and without an imatrix, chunks that divide the rows or not, *)
(* a row larger than the scratch memory, and a tensor that reaches beyond  *)
(* the smaller source.                                                     *)
SmallPlans ==
  {Plan("F16", "F16", 2, 2, 1, 2, FALSE),
   Plan("BF16", "Q8_0", 2, 3, 1, 3, FALSE),
   Plan("F16", "IQ2_XS", 6, 3, 1, 1, FALSE),
   Plan("BF16", "Q4_K", 6, 2, 3, 1, TRUE),
   Plan("F32", "IQ2_XS", 4, 3, 1, 1, FALSE),
   Plan("F32", "IQ2_XS", 2, 3, 1, 1, FALSE),
   Plan("F32", "IQ2_XS", 6, 3, 1, 2, TRUE),
   Plan("F32", "F16", 0, 3, 1, 2, FALSE)}
=============================================================================
