---------------------------- MODULE RowPartition ----------------------------
(***************************************************************************)
(* How a block of rows is split among threads.  The same arithmetic is     *)
(* written three times in the code: in the CPU pool (configure_task and    *)
(* worker_loop of conversion/cpu_quantizer.cpp) and in the two fork/join   *)
(* entry points libgguf_quantize_chunk and libgguf_dequantize_chunk.       *)
(* Rows and threads are numbered from 0.                                   *)
(***************************************************************************)
EXTENDS Integers

MinOf(a, b) == IF a <= b THEN a ELSE b

MaxOf(a, b) == IF a >= b THEN a ELSE b

(* Mutant: the division is not rounded up. *)
RowsPerThreadFloor(rows, active) == rows \div active

(* ceil(rows / active) *)
RowsPerThread(rows, active) == (rows + active - 1) \div active

(* Mutant: the ranges begin at multiples of the truncated quotient. *)
RowBeginFloor(id, rows, active) == id * RowsPerThreadFloor(rows, active)

RowBegin(id, rows, active) == id * RowsPerThread(rows, active)

RowEnd(id, rows, active) ==
  MinOf(rows, RowBegin(id, rows, active) + RowsPerThread(rows, active))

(* Empty when RowBegin lies beyond the last row, which the rounding up can *)
(* cause for the last threads.                                             *)
RowsOf(id, rows, active) ==
  RowBegin(id, rows, active) .. RowEnd(id, rows, active) - 1

(* Small blocks are not worth a second thread; parallelRows is 64 in the   *)
(* code.                                                                   *)
ActiveThreadCount(rows, maxThreads, parallelRows) ==
  IF rows < parallelRows \/ maxThreads <= 1 THEN 1 ELSE MinOf(rows, maxThreads)

=============================================================================
