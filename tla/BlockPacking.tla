--------------------------- MODULE BlockPacking ----------------------------
(***************************************************************************)
(* How the encoders of kernels/cpu/quantize/ref lay the small numbers of a *)
(* block into its bytes, and how the decoders of dequantize/ref take them  *)
(* out again, for the formats that spread one number over several bytes.   *)
(*                                                                         *)
(* A number is the set of its one-bits: | is union, & is intersection with *)
(* a mask, shifts move every bit.  Choosing the numbers (the search for    *)
(* scales, rounding) is left out: any numbers of the right width may come. *)
(* So are the fields that hold one number each: d, dmin, scales of Q6_K.   *)
(***************************************************************************)
EXTENDS Integers

CONSTANTS
  Choices(_),       (* the choices an encoder of a format may have made    *)
  Chosen(_, _, _),  (* in a choice, the bits of the i-th number of a kind  *)
  Memories,         (* what the memory of a block may have held before     *)
  Held(_, _, _)     (* in a memory, the bits of the i-th byte of a field   *)

Byte == 0 .. 7
Low(n) == 0 .. n - 1
Left(bits, n) == {b + n : b \in bits}
Right(bits, n) == {b - n : b \in {c \in bits : c >= n}}
Stored(bits) == bits \intersect Byte

(* The numbers of a block: how many, and of how many bits. *)
Numbers == [
  Q5_0   |-> [scale |-> [n |->  0, w |-> 0], min |-> [n |->  0, w |-> 0], quant |-> [n |->  32, w |-> 5]],
  Q2_K   |-> [scale |-> [n |-> 16, w |-> 4], min |-> [n |-> 16, w |-> 4], quant |-> [n |-> 256, w |-> 2]],
  Q3_K   |-> [scale |-> [n |-> 16, w |-> 6], min |-> [n |->  0, w |-> 0], quant |-> [n |-> 256, w |-> 3]],
  Q4_K   |-> [scale |-> [n |->  8, w |-> 6], min |-> [n |->  8, w |-> 6], quant |-> [n |-> 256, w |-> 4]],
  Q5_K   |-> [scale |-> [n |->  8, w |-> 6], min |-> [n |->  8, w |-> 6], quant |-> [n |-> 256, w |-> 5]],
  Q6_K   |-> [scale |-> [n |->  0, w |-> 0], min |-> [n |->  0, w |-> 0], quant |-> [n |-> 256, w |-> 6]],
  IQ4_XS |-> [scale |-> [n |->  8, w |-> 6], min |-> [n |->  0, w |-> 0], quant |-> [n |-> 256, w |-> 4]]]

(* The fields of a block that hold them: lengths in bytes. *)
Fields == [
  Q5_0   |-> [qh |-> 4, qs |-> 16],
  Q2_K   |-> [scales |-> 16, qs |-> 64],
  Q3_K   |-> [hmask |-> 32, qs |-> 64, scales |-> 12],
  Q4_K   |-> [scales |-> 12, qs |-> 128],
  Q5_K   |-> [scales |-> 12, qh |-> 32, qs |-> 128],
  Q6_K   |-> [ql |-> 128, qh |-> 64],
  IQ4_XS |-> [scales_h |-> 2, scales_l |-> 4, qs |-> 128]]

VARIABLES
  format,
  choice,     (* the numbers that the encoder has chosen                   *)
  block,      (* field -> its bytes                                        *)
  at,         (* the loop the encoder is in                                *)
  j           (* the round of that loop                                    *)

vars == <<format, choice, block, at, j>>

Number(kind, i) == Chosen(choice, kind, i) \intersect Low(Numbers[format][kind].w)

Scale(i) == Number("scale", i)
Minimum(i) == Number("min", i)
L(i) == Number("quant", i)

(* The memory of the block holds anything before. *)
Init ==
  /\ format \in DOMAIN Fields
  /\ choice \in Choices(format)
  /\ \E memory \in Memories :
       block = [f \in DOMAIN Fields[format] |->
                  [i \in Low(Fields[format][f]) |-> Stored(Held(memory, f, i))]]
  /\ at = "clear"
  /\ j = 0

Zeros(field) == [i \in DOMAIN block[field] |-> {}]

Becomes(fields, next, round) ==
  /\ block' = [f \in DOMAIN block |-> IF f \in DOMAIN fields THEN fields[f] ELSE block[f]]
  /\ at' = next
  /\ j' = round
  /\ UNCHANGED <<format, choice>>

----------------------------------------------------------------------------
(* Scales and minimums *)

(* The fields that are cleared before scales are or-ed into them. *)
Clear ==
  /\ at = "clear"
  /\ Becomes(CASE format = "Q3_K" -> [scales |-> Zeros("scales")]
               [] format = "IQ4_XS" -> [scales_h |-> Zeros("scales_h")]
               [] OTHER -> <<>>, "scales", 0)

(* Sixteen numbers of six bits: low halves first, then pairs of high bits. *)
ScaleQ3K ==
  LET low == Scale(j) \intersect Low(4)
      halves == IF j < 8 THEN [block.scales EXCEPT ![j] = low]
                         ELSE [block.scales EXCEPT ![j - 8] = @ \union Left(low, 4)]
  IN  [scales |-> [halves EXCEPT ![8 + (j % 4)] =
                     Stored(@ \union Left(Right(Scale(j), 4), 2 * (j \div 4)))]]

(* Mutant: the high bits of a minimum go to the byte of the scale's. *)
ScaleMinSameByte ==
  IF j < 4
  THEN [scales |-> [block.scales EXCEPT ![j] = Scale(j), ![j + 4] = Minimum(j)]]
  ELSE [scales |-> [block.scales EXCEPT
          ![j + 4] = (Scale(j) \intersect Low(4)) \union Left(Minimum(j) \intersect Low(4), 4),
          ![j - 4] = Stored(@ \union Left(Right(Scale(j), 4), 6) \union Left(Right(Minimum(j), 4), 6))]]

(* Eight scales and eight minimums of six bits: the high bits of the later *)
(* four live above the earlier four.                                       *)
ScaleMinK4 ==
  IF j < 4
  THEN [scales |-> [block.scales EXCEPT ![j] = Scale(j), ![j + 4] = Minimum(j)]]
  ELSE [scales |-> [block.scales EXCEPT
          ![j + 4] = (Scale(j) \intersect Low(4)) \union Left(Minimum(j) \intersect Low(4), 4),
          ![j - 4] = Stored(@ \union Left(Right(Scale(j), 4), 6)),
          ![j] = Stored(@ \union Left(Right(Minimum(j), 4), 6))]]

(* scales_h is a word of sixteen bits, of two bytes. *)
ScaleIQ4XS ==
  LET low == Scale(j) \intersect Low(4)
      high == Left(Right(Scale(j), 4), 2 * j)
  IN  [scales_l |-> [block.scales_l EXCEPT
         ![j \div 2] = IF j % 2 = 0 THEN low ELSE @ \union Left(low, 4)],
       scales_h |-> [i \in 0 .. 1 |-> block.scales_h[i] \union Stored(Right(high, 8 * i))]]

PackScale ==
  /\ at = "scales"
  /\ j < Numbers[format].scale.n
  /\ Becomes(CASE format = "Q2_K" -> [scales |-> [block.scales EXCEPT ![j] = Scale(j)]]
               [] format = "Q3_K" -> ScaleQ3K
               [] format \in {"Q4_K", "Q5_K"} -> ScaleMinK4
               [] format = "IQ4_XS" -> ScaleIQ4XS, "scales", j + 1)

EndScales ==
  /\ at = "scales"
  /\ j = Numbers[format].scale.n
  /\ Becomes(<<>>, IF format = "Q2_K" THEN "mins" ELSE "high", 0)

MinimumsLeft == j \in 0 .. Numbers[format].min.n - 1

(* Q2_K has a loop of its own for the minimums. *)
PackMinimum ==
  /\ at = "mins"
  /\ MinimumsLeft
  /\ Becomes([scales |-> [block.scales EXCEPT ![j] = @ \union Left(Minimum(j), 4)]], "mins", j + 1)

EndMinimums ==
  /\ at = "mins"
  /\ j = Numbers[format].min.n
  /\ Becomes(<<>>, "high", 0)

----------------------------------------------------------------------------
(* Quants: the numbers that stand for the elements *)

(* hmask takes the third bits of Q3_K; qh of Q5_K is cleared for the rest. *)
High ==
  CASE format = "Q3_K" ->
         [hmask |-> [m \in Low(32) |-> {h \in Byte : 2 \in L(32 * h + m)}]]
    [] format = "Q5_K" -> [qh |-> Zeros("qh")]
    [] OTHER -> <<>>

PackHigh ==
  /\ at = "high"
  /\ Becomes(High, "quants", 0)

(* Two bits of four elements in a byte; what L holds of Q3_K has lost its  *)
(* third bit.                                                              *)
Quads ==
  LET Two(i) == L(i) \ {2}
  IN  [qs |-> [i \in DOMAIN block.qs |->
         IF i \div 32 # j THEN block.qs[i]
         ELSE LET e == 128 * j + (i % 32)
              IN  Two(e) \union Left(Two(e + 32), 2) \union Left(Two(e + 64), 4) \union Left(Two(e + 96), 6)]]

(* Four bits of two elements in a byte, 32 apart, in 64 elements.  Q4_K    *)
(* has no more than four, Q5_K takes its fifth away before.                *)
Pairs ==
  LET Four(i) == L(i) \ {4}
  IN  [qs |-> [i \in DOMAIN block.qs |->
         IF i \div 32 # j THEN block.qs[i]
         ELSE LET e == 64 * j + (i % 32)
              IN  Four(e) \union Left(Four(e + 32), 4)]]

PairsAndFifth ==
  LET Fifth(i, bit) == IF 4 \in L(i) THEN {bit} ELSE {}
  IN  [qs |-> Pairs.qs,
       qh |-> [l \in Low(32) |-> block.qh[l] \union Fifth(64 * j + l, 2 * j)
                                             \union Fifth(64 * j + l + 32, 2 * j + 1)]]

SixBits ==
  [ql |-> [i \in DOMAIN block.ql |->
     IF i \div 64 # j THEN block.ql[i]
     ELSE LET e == 128 * j + (i % 64)
          IN  (L(e) \intersect Low(4)) \union Left(L(e + 64) \intersect Low(4), 4)],
   qh |-> [i \in DOMAIN block.qh |->
     IF i \div 32 # j THEN block.qh[i]
     ELSE UNION {Left(Right(L(128 * j + (i % 32) + 32 * h), 4), 2 * h) : h \in 0 .. 3}]]

(* Four bits of two elements in a byte, 16 apart, in 32 elements.  Q5_0    *)
(* takes them with the mask, IQ4_XS has no more than four.                 *)
PairsOf32 ==
  [qs |-> [i \in DOMAIN block.qs |->
     IF i \div 16 # j THEN block.qs[i]
     ELSE LET e == 32 * j + (i % 16)
          IN  (L(e) \intersect Low(4)) \union Left(L(e + 16) \intersect Low(4), 4)]]

(* The fifth bits of Q5_0 are gathered in a word and copied to qh. *)
PairsAndWord ==
  LET Fifth(e, bit) == Left(Right(L(e) \intersect {4}, 4), bit)
      qh == UNION {Fifth(i, i) \union Fifth(i + 16, i + 16) : i \in Low(16)}
  IN  [qs |-> PairsOf32.qs, qh |-> [i \in Low(4) |-> Stored(Right(qh, 8 * i))]]

Rounds == [Q5_0 |-> 1, Q2_K |-> 2, Q3_K |-> 2, Q4_K |-> 4, Q5_K |-> 4, Q6_K |-> 2, IQ4_XS |-> 8]

PackQuants ==
  /\ at = "quants"
  /\ j < Rounds[format]
  /\ Becomes(CASE format = "Q5_0" -> PairsAndWord
               [] format \in {"Q2_K", "Q3_K"} -> Quads
               [] format = "Q4_K" -> Pairs
               [] format = "Q5_K" -> PairsAndFifth
               [] format = "Q6_K" -> SixBits
               [] format = "IQ4_XS" -> PairsOf32, "quants", j + 1)

EndQuants ==
  /\ at = "quants"
  /\ j = Rounds[format]
  /\ Becomes(<<>>, "packed", 0)

Next ==
  \/ Clear \/ PackScale \/ EndScales \/ PackMinimum \/ EndMinimums
  \/ PackHigh \/ PackQuants \/ EndQuants

Spec == Init /\ [][Next]_vars

----------------------------------------------------------------------------
(* The decoders *)

(* Little-endian words over bytes. *)
Word(bytes, first, n) == UNION {Left(bytes[first + i], 8 * i) : i \in Low(n)}

(* The mask with the given low bits in each of four bytes. *)
EachByte(n) == {8 * i + b : i \in Low(4), b \in Low(n)}

(* Q3_K's decoder sorts the scales four at a time, in words. *)
ScalesOfQ3K ==
  LET tmp == Word(block.scales, 8, 4)
      high(shift) == Left(Right(tmp, shift) \intersect EachByte(2), 4)
      low(word, shift) == Right(Word(block.scales, 4 * word, 4), shift) \intersect EachByte(4)
      aux == <<low(0, 0) \union high(0), low(1, 0) \union high(2),
               low(0, 4) \union high(4), low(1, 4) \union high(6)>>
  IN  [i \in Low(16) |-> Stored(Right(aux[i \div 4 + 1], 8 * (i % 4)))]

(* get_scale_min_k4 *)
ScaleOfK4(i) ==
  IF i < 4 THEN block.scales[i] \intersect Low(6)
  ELSE (block.scales[i + 4] \intersect Low(4)) \union Left(Right(block.scales[i - 4], 6), 4)

MinimumOfK4(i) ==
  IF i < 4 THEN block.scales[i + 4] \intersect Low(6)
  ELSE Right(block.scales[i + 4], 4) \union Left(Right(block.scales[i], 6), 4)

ScaleOfIQ4XS(i) ==
  (Right(block.scales_l[i \div 2], 4 * (i % 2)) \intersect Low(4))
    \union Left(Right(Word(block.scales_h, 0, 2), 2 * i) \intersect Low(2), 4)

DecodedScale(i) ==
  CASE format = "Q2_K" -> block.scales[i] \intersect Low(4)
    [] format = "Q3_K" -> ScalesOfQ3K[i]
    [] format \in {"Q4_K", "Q5_K"} -> ScaleOfK4(i)
    [] format = "IQ4_XS" -> ScaleOfIQ4XS(i)

DecodedMinimum(i) ==
  IF format = "Q2_K" THEN Right(block.scales[i], 4) ELSE MinimumOfK4(i)

(* The scales of Q3_K as its encoder reads them back. *)
ReadBackScale(i) ==
  (IF i < 8 THEN block.scales[i] \intersect Low(4) ELSE Right(block.scales[i - 8], 4))
    \union Left(Right(block.scales[8 + (i % 4)], 2 * (i \div 4)) \intersect Low(2), 4)

(* Two bits of Q2_K and Q3_K: 128 elements over 32 bytes. *)
TwoBits(e) ==
  Right(block.qs[32 * (e \div 128) + (e % 32)], 2 * ((e % 128) \div 32)) \intersect Low(2)

(* The third bit is stored upside down: 4 is taken off where it is zero,   *)
(* that is, the number is four higher where it is one.                     *)
ThreeBits(e) ==
  TwoBits(e) \union (IF e \div 32 \in block.hmask[e % 32] THEN {2} ELSE {})

Nibble(byte, second) == IF second THEN Right(byte, 4) ELSE byte \intersect Low(4)

FourBitsOf64(e) == Nibble(block.qs[32 * (e \div 64) + (e % 32)], e % 64 >= 32)
FourBitsOf32(e) == Nibble(block.qs[16 * (e \div 32) + (e % 16)], e % 32 >= 16)

(* The masks u1 and u2 of Q5_K move on by two bits every 64 elements. *)
FiveBitsOfK5(e) ==
  FourBitsOf64(e) \union
    (IF 2 * (e \div 64) + (e % 64) \div 32 \in block.qh[e % 32] THEN {4} ELSE {})

SixBitsOf(e) ==
  Nibble(block.ql[64 * (e \div 128) + (e % 64)], e % 128 >= 64)
    \union Left(Right(block.qh[32 * (e \div 128) + (e % 32)], 2 * ((e % 128) \div 32))
                  \intersect Low(2), 4)

FiveBitsOfWord(e) ==
  LET qh == Word(block.qh, 0, 4)
  IN  FourBitsOf32(e) \union
        (IF e < 16 THEN Left(Right(qh, e), 4) \intersect {4}
                   ELSE Right(qh, e - 16 + 12) \intersect {4})

DecodedQuant(e) ==
  CASE format = "Q2_K" -> TwoBits(e)
    [] format = "Q3_K" -> ThreeBits(e)
    [] format = "Q4_K" -> FourBitsOf64(e)
    [] format = "Q5_K" -> FiveBitsOfK5(e)
    [] format = "Q6_K" -> SixBitsOf(e)
    [] format = "IQ4_XS" -> FourBitsOf32(e)
    [] format = "Q5_0" -> FiveBitsOfWord(e)

----------------------------------------------------------------------------

(* As soon as the loops of the scales are over, and whatever the memory    *)
(* held before, the decoder finds every scale and minimum as the encoder   *)
(* chose it; so does the encoder of Q3_K, which reads them back to choose  *)
(* the quants for them.                                                    *)
ScalesComeBack ==
  at \in {"high", "quants", "packed"} =>
    /\ \A i \in Low(Numbers[format].scale.n) : DecodedScale(i) = Scale(i)
    /\ \A i \in Low(Numbers[format].min.n) : DecodedMinimum(i) = Minimum(i)
    /\ format = "Q3_K" => \A i \in Low(16) : ReadBackScale(i) = Scale(i)

(* The decoder finds every quant of a packed block as the encoder chose    *)
(* it, at the element it was chosen for.                                   *)
QuantsComeBack ==
  at = "packed" => \A e \in Low(Numbers[format].quant.n) : DecodedQuant(e) = L(e)

(* The layout of the formats, bit by bit: the bit of a number that bit b   *)
(* of the i-th byte of a field stands for.                                 *)
Nibbles(i, b, n) == (b % 4) \in L(2 * n * (i \div n) + (i % n) + n * (b \div 4))

Twos(i, b, first) ==
  (first + (b % 2)) \in L(128 * (i \div 32) + (i % 32) + 32 * (b \div 2))

ScaleBit(i, b) ==
  CASE format = "Q2_K" -> IF b < 4 THEN b \in Scale(i) ELSE b - 4 \in Minimum(i)
    [] format = "Q3_K" -> IF i < 8 THEN (b % 4) \in Scale(i + 8 * (b \div 4))
                                   ELSE (4 + (b % 2)) \in Scale(i - 8 + 4 * (b \div 2))
    [] OTHER ->
         CASE i < 4 -> IF b < 6 THEN b \in Scale(i) ELSE b - 2 \in Scale(i + 4)
           [] i \in 4 .. 7 -> IF b < 6 THEN b \in Minimum(i - 4) ELSE b - 2 \in Minimum(i)
           [] OTHER -> IF b < 4 THEN b \in Scale(i - 4) ELSE b - 4 \in Minimum(i - 4)

QuantBit(i, b) ==
  CASE format \in {"Q2_K", "Q3_K"} -> Twos(i, b, 0)
    [] format \in {"Q4_K", "Q5_K"} -> Nibbles(i, b, 32)
    [] OTHER -> Nibbles(i, b, 16)

HighBit(i, b) ==
  CASE format = "Q5_0" -> 4 \in L(8 * i + b)
    [] format = "Q5_K" -> 4 \in L(32 * b + i)
    [] OTHER -> Twos(i, b, 4)

Holds(f, i, b) ==
  CASE f = "scales" -> ScaleBit(i, b)
    [] f = "scales_l" -> (b % 4) \in Scale(2 * i + (b \div 4))
    [] f = "scales_h" -> (4 + (b % 2)) \in Scale(4 * i + (b \div 2))
    [] f = "hmask" -> 2 \in L(32 * b + i)
    [] f = "ql" -> Nibbles(i, b, 64)
    [] f = "qs" -> QuantBit(i, b)
    [] f = "qh" -> HighBit(i, b)

(* The fields hold the bits of the numbers, each in its place, and nothing *)
(* else: equal numbers make equal bytes, whatever the memory held before.  *)
NothingElseIsStored ==
  at = "packed" =>
    \A f \in DOMAIN block : \A i \in DOMAIN block[f] :
      block[f][i] = {b \in Byte : Holds(f, i, b)}

(* A block gives back all that was put into it, and holds nothing else.    *)
BlockComesBack == ScalesComeBack /\ QuantsComeBack /\ NothingElseIsStored
=============================================================================
