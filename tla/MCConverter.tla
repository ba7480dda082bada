---------------------------- MODULE MCConverter -----------------------------
(* Small instances of Converter for TLC. *)
EXTENDS Converter

Plan(type, copied, rows, rowBytes, workBytes, deviceBytes) ==
  [type |-> type, copied |-> copied, rows |-> rows, rowBytes |-> rowBytes,
   workBytes |-> workBytes, deviceBytes |-> deviceBytes]

(* A copied tensor and one converted to F16, both of two chunks of which   *)
(* the last is short, one of a type that only the CPU has, one of a type   *)
(* the GPU has too, and two of a type it is preferred for.  Most sizes are *)
(* no multiples of the alignment.                                          *)
MixedTensors ==
  {Plan("F32", TRUE, 17, 8, 16, 1), Plan("F16", FALSE, 3, 16, 40, 1),
   Plan("Q5_1", FALSE, 3, 24, 100, 50), Plan("Q8_0", FALSE, 2, 34, 66, 50),
   Plan("Q4_K", FALSE, 2, 144, 200, 60), Plan("Q4_K", FALSE, 1, 144, 200, 60)}

With(backend, fallback, first, large, random, vram) ==
  [backend |-> backend, fallback |-> fallback,
   overwrite |-> fallback, verifyFirst |-> first, verifyLarge |-> large,
   verifyRandom |-> random, scratch |-> 100, vram |-> vram]

(* The CPU; the GPU with and without fallback; the choice left to the      *)
(* program; no, some and all tensors verified.                             *)
SomeOptions ==
  {With("cpu", TRUE, 0, 0, 0, 0), With("gpu", FALSE, 1, 0, 0, 0),
   With("gpu", TRUE, 0, 1, 1, 60), With("auto", FALSE, All, 0, 0, 0),
   With("auto", TRUE, 2, 1, 0, 200)}
=============================================================================
