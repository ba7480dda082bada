----------------------------- MODULE MCChunkCall ----------------------------
(* Small instances of ChunkCall for TLC. *)
EXTENDS ChunkCall

(* All numbers of a block are zeros but for one bit of one number: the     *)
(* encoders' and decoders' operators on sets of bits distribute over       *)
(* union, so that single bits show what they do.  Or all are ones but for  *)
(* the lowest bit of the first number of a kind.                           *)
OddBits(f) ==
  UNION {[kind : {kind}, i : Block!Low(Block!Numbers[f][kind].n),
          bit : Block!Low(Block!Numbers[f][kind].w)] : kind \in {"scale", "min", "quant"}}

AllButOne(f) ==
  {c \in [ones : BOOLEAN, odd : OddBits(f)] : c.ones => c.odd.i = 0 /\ c.odd.bit = 0}

BitsOf(c, kind, i) ==
  LET all == IF c.ones THEN Block!Byte ELSE {}
  IN  IF c.odd.kind = kind /\ c.odd.i = i
      THEN (all \ {c.odd.bit}) \union ({c.odd.bit} \ all)
      ELSE all

(* Memory of ones: the encoders only assign and or, so that zeros could    *)
(* not do more harm.                                                       *)
AllOnes == {0 .. 7}
SameByte(m, f, i) == m

(* Every byte of ternary digits holds each of the 243 numbers of five      *)
(* digits in some input, and other bytes hold other numbers then.          *)
Numbers243 == 0 .. 242
DigitsOfByte(x, b) == [n \in 0 .. 4 |-> ((x + 5 * b) % 243 \div 3^n) % 3]
=============================================================================
