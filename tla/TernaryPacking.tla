-------------------------- MODULE TernaryPacking ---------------------------
(***************************************************************************)
(* The block layout of TQ1_0: five elements of three values in a byte, as  *)
(* the reference encoder and decoder of kernels/cpu compute it.            *)
(*                                                                         *)
(* A byte holds ceil(q * 256 / 243) for the number q of five base-3        *)
(* digits: the digits of a fraction, so that the decoder reaches the n-th  *)
(* by multiplying with 3^n in eight bits and taking what 3 times the rest  *)
(* carries beyond them.  32 bytes, 16 bytes and 4 bytes of four elements   *)
(* each go through a loop of their own.                                    *)
(***************************************************************************)
EXTENDS Integers

UInt8(x) == x % 256

UInt16(x) == x % 65536

Digits == 0 .. 2

CONSTANTS
  Inputs,        (* the blocks of elements that the encoder may be given   *)
  Rounded(_, _)  (* of such a block, the elements that meet in a byte:     *)
                 (* x * id rounded, which is -1, 0 or 1, plus one          *)

TernaryConstants ==
  \A x \in Inputs : \A b \in 0 .. 51 : Rounded(x, b) \in [0 .. 4 -> Digits]

VARIABLES
  input,   (* x                                                            *)
  qs, qh,  (* the block                                                    *)
  at       (* the loop the encoder is in                                   *)

vars == <<input, qs, qh, at>>

(* The digits of a byte, 0 .. 47 of qs and 48 .. 51 of qh. *)
DigitsOf(b) == Rounded(input, b)

(* The element at which the encoder finds the n-th digit of a byte. *)
Element(b, n) ==
  CASE b < 32 -> b + n * 32
    [] b \in 32 .. 47 -> 5 * 32 + (b - 32) + n * 16
    [] OTHER -> 5 * 32 + 5 * 16 + (b - 48) + n * 4

(* The memory of the block holds zeros or ones before: all bytes are       *)
(* assigned, none is read.                                                 *)
Init ==
  /\ input \in Inputs
  /\ \E old \in {0, 255} : qs = [b \in 0 .. 47 |-> old] /\ qh = [b \in 0 .. 3 |-> old]
  /\ at = "lanes of 32"

(* q *= 3; q += xi; in eight bits *)
Appended(q, xi) == UInt8(UInt8(3 * q) + xi)

FourDigits(d) == Appended(Appended(Appended(Appended(0, d[0]), d[1]), d[2]), d[3])

Ceiling243(q) == UInt8((UInt16(q) * 256 + (243 - 1)) \div 243)

Packed(b) == Ceiling243(Appended(FourDigits(DigitsOf(b)), DigitsOf(b)[4]))

(* Four digits are moved up by one. *)
PackedFour(b) == Ceiling243(UInt8(3 * FourDigits(DigitsOf(b))))

PackLanesOf32 ==
  /\ at = "lanes of 32"
  /\ qs' = [b \in 0 .. 47 |-> IF b < 32 THEN Packed(b) ELSE qs[b]]
  /\ at' = "lanes of 16"
  /\ UNCHANGED <<input, qh>>

PackLanesOf16 ==
  /\ at = "lanes of 16"
  /\ qs' = [b \in 0 .. 47 |-> IF b < 32 THEN qs[b] ELSE Packed(b)]
  /\ at' = "fours"
  /\ UNCHANGED <<input, qh>>

PackFours ==
  /\ at = "fours"
  /\ qh' = [b \in 0 .. 3 |-> PackedFour(b + 48)]
  /\ at' = "packed"
  /\ UNCHANGED <<input, qs>>

Next == PackLanesOf32 \/ PackLanesOf16 \/ PackFours

Spec == Init /\ [][Next]_vars

----------------------------------------------------------------------------
(* The decoder: its loops run over digits outside and bytes inside, and    *)
(* write one element after the other.                                      *)

pow3 == <<1, 3, 9, 27, 81, 243>>

Digit(q, n) == (UInt8(q * pow3[n + 1]) * 3) \div 256

DecodedElement(e) ==
  CASE e < 160 -> Digit(qs[e % 32], e \div 32)
    [] e \in 160 .. 239 -> Digit(qs[32 + ((e - 160) % 16)], (e - 160) \div 16)
    [] OTHER -> Digit(qh[(e - 240) % 4], (e - 240) \div 4)

----------------------------------------------------------------------------

(* Every element of a packed block decodes to the digit it was given,      *)
(* whatever its byte's other digits are: rounding up by less than one      *)
(* 243rd never carries into a digit, and no product loses more than the    *)
(* digits already taken.                                                   *)
DigitsComeBack ==
  at = "packed" =>
    \A b \in 0 .. 51 : \A n \in 0 .. (IF b < 48 THEN 4 ELSE 3) :
      DecodedElement(Element(b, n)) = DigitsOf(b)[n]
=============================================================================
