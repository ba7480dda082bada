---------------------- MODULE SafetensorsPayload_proofs ---------------------
(***************************************************************************)
(* The payload writer for every list of plans, every size of the source    *)
(* and of the scratch memory.  Its memory: what is read lies inside the    *)
(* mapped source, the vectors have room, and they keep to the budget.  Its *)
(* output: however write() cuts the bytes up it is what the plans ask for, *)
(* and what is reported.  Its imatrix: every row is counted once.  Its     *)
(* rows: they come as the stream of tensors that the converter promises.   *)
(***************************************************************************)
EXTENDS SafetensorsPayload, SequenceTheorems, FunctionTheorems, FiniteSetTheorems, TLAPS

(* At work on a tensor. *)
Busy == {"imatrix", "pad", "payload", "chunk", "written", "padded"}

(* The tensor at work lies inside the source, and the vectors are as large *)
(* as the loop under way wants them.                                       *)
IInv ==
  /\ plans \in Seq(Plans)
  /\ source \in Nat
  /\ begun \in 0 .. Len(plans)
  /\ row \in Nat
  /\ at \in Busy => begun > 0 /\ InsideSource(Current)
  /\ at = "imatrix" =>
       encoded = 0 /\ scratch = IF SumsInPlace(Current) THEN 0 ELSE RowsPerSum(Current)
  /\ at = "chunk" => encoded = RowsPerChunk(Current) /\ scratch = DecodedRows(Current)

-----------------------------------------------------------------------------
(* Arithmetic *)

LEMMA ProductNat ==
  ASSUME NEW a \in Nat, NEW b \in Nat
  PROVE  a * b \in Nat
OBVIOUS

LEMMA ProductMonotone ==
  ASSUME NEW a \in Nat, NEW b \in Nat, NEW c \in Nat, a <= b
  PROVE  a * c <= b * c
<1>. DEFINE d == b - a
<1>1. d \in Nat /\ b = a + d
  OBVIOUS
<1>2. b * c = a * c + d * c
  BY <1>1
<1>3. a * c \in Nat /\ d * c \in Nat
  BY <1>1, ProductNat
<1>. HIDE DEF d
<1>. QED BY <1>2, <1>3

LEMMA Quotient ==
  ASSUME NEW n \in Nat, NEW w \in Nat \ {0}
  PROVE  n \div w \in Nat /\ (n \div w) * w <= n
<1>1. n \div w \in Nat /\ w * (n \div w) <= n
  BY Z3
<1>. QED BY <1>1

(* The chunks of a tensor have at least a row, no more than the tensor,    *)
(* and keep to the budget unless they are of a single row.                 *)
LEMMA ChunkFacts ==
  ASSUME NEW p \in Plans, NEW w \in Nat \ {0}
  PROVE  /\ ChunkOf(p, w) \in Nat \ {0}
         /\ ChunkOf(p, w) <= p.rows
         /\ ChunkOf(p, w) * w <= ScratchBytes \/ ChunkOf(p, w) = 1
<1>1. p.rows \in Nat \ {0} /\ ScratchBytes \in Nat
  BY PayloadAssumption DEF PlanIsAccepted
<1>2. PICK q \in Nat : q = ScratchBytes \div w /\ q * w <= ScratchBytes
  BY <1>1, Quotient
<1>3. ChunkOf(p, w) = MinOf(MaxOf(q, 1), p.rows)
  BY <1>2 DEF ChunkOf
<1>4. /\ ChunkOf(p, w) \in Nat \ {0} /\ ChunkOf(p, w) <= p.rows
      /\ ChunkOf(p, w) <= q \/ ChunkOf(p, w) = 1
  BY <1>1, <1>3 DEF MinOf, MaxOf
<1>5. ASSUME ChunkOf(p, w) <= q PROVE ChunkOf(p, w) * w <= ScratchBytes
  <2>1. ChunkOf(p, w) * w <= q * w
    BY <1>4, <1>5, ProductMonotone
  <2>. QED BY <1>1, <1>2, <1>4, <2>1, ProductNat
<1>. QED BY <1>4, <1>5

LEMMA PlanFacts ==
  ASSUME NEW p \in Plans
  PROVE  /\ p.rows \in Nat \ {0} /\ p.width \in Nat \ {0} /\ p.rowSize \in Nat \ {0}
         /\ p.begin \in Nat
         /\ DtypeSize(p.dtype) \in {2, 4}
         /\ p.end = p.begin + p.rows * (p.width * DtypeSize(p.dtype))
         /\ Matches(p) => p.rowSize = p.width * DtypeSize(p.dtype)
         /\ FloatBytes(p) \in Nat
         /\ RowWork(p) \in Nat \ {0}
         /\ FloatBytes(p) + p.rowSize \in Nat \ {0}
         /\ p.rowSize <= RowWork(p)
<1>1. /\ p.rows \in Nat \ {0} /\ p.width \in Nat \ {0} /\ p.rowSize \in Nat \ {0}
      /\ p.begin \in Nat
      /\ p.end = p.begin + p.rows * p.width * DtypeSize(p.dtype)
      /\ Matches(p) => p.rowSize = p.width * DtypeSize(p.dtype)
  BY PayloadAssumption DEF PlanIsAccepted
<1>2. DtypeSize(p.dtype) \in {2, 4}
  BY DEF DtypeSize
<1>3. p.end = p.begin + p.rows * (p.width * DtypeSize(p.dtype))
  BY <1>1, <1>2
<1>4. FloatBytes(p) \in Nat
  BY <1>1 DEF FloatBytes
<1>5. RowWork(p) = p.rowSize \/ RowWork(p) = FloatBytes(p) + p.rowSize
  BY DEF RowWork
<1>. QED BY <1>1, <1>2, <1>3, <1>4, <1>5

(* Rows of a source that is read in place have an even distance. *)
LEMMA AlignedRows ==
  ASSUME NEW p \in Plans, NEW r \in Nat, Aligned(p, 0)
  PROVE  Aligned(p, r)
<1>1. p.begin \in Nat /\ p.width \in Nat
  BY PlanFacts
<1>2. r * p.width \in Nat /\ r * (p.width * 4) = 4 * (r * p.width)
  BY <1>1
<1>3. p.begin % 4 = 0
  BY <1>1 DEF Aligned, FloatBytes
<1>4. \A k \in Nat : (p.begin + 4 * k) % 4 = 0
  BY <1>1, <1>3
<1>5. (p.begin + r * FloatBytes(p)) % 4 = 0
  BY <1>2, <1>4 DEF FloatBytes
<1>. QED BY <1>5 DEF Aligned

(* A tensor inside the source has all its rows there. *)
LEMMA RowsInside ==
  ASSUME NEW p \in Plans, source \in Nat, InsideSource(p), NEW r \in Nat, r <= p.rows
  PROVE  p.begin + r * (p.width * DtypeSize(p.dtype)) <= source
<1>. DEFINE bytes == p.width * DtypeSize(p.dtype)
<1>1. bytes \in Nat /\ p.rows \in Nat /\ p.begin \in Nat
  BY PlanFacts
<1>2. p.begin + p.rows * bytes <= source
  BY PlanFacts DEF InsideSource
<1>. HIDE DEF bytes
<1>3. r * bytes <= p.rows * bytes /\ r * bytes \in Nat /\ p.rows * bytes \in Nat
  BY <1>1, ProductMonotone, ProductNat
<1>4. p.begin + r * bytes <= source
  BY <1>1, <1>2, <1>3
<1>. QED BY <1>4 DEF bytes

-----------------------------------------------------------------------------
LEMMA InitInvariant == Init => IInv
<1>. SUFFICES ASSUME Init PROVE IInv
  OBVIOUS
<1>1. PICK n \in 0 .. MaxPlans : plans \in [1 .. n -> Plans]
  BY DEF Init
<1>2. n \in Nat
  BY PayloadAssumption
<1>3. plans \in Seq(Plans)
  BY <1>1, <1>2
<1>4. source \in Nat
  BY PayloadAssumption DEF Init
<1>. QED BY <1>3, <1>4 DEF Init, IInv, Busy

LEMMA StepInvariant == IInv /\ [Next]_vars => IInv'
<1>. SUFFICES ASSUME IInv, [Next]_vars PROVE IInv'
  OBVIOUS
<1>. USE DEF call, rowVars, writeVars
(* Steps that keep to the tensor, the vectors and the row. *)
<1>1. ASSUME UNCHANGED <<plans, source, begun, row>>,
             at' \in Busy => at \in Busy,
             at' = "imatrix" => at = "imatrix" /\ UNCHANGED <<scratch, encoded>>,
             at' = "chunk" => at = "chunk" /\ UNCHANGED <<scratch, encoded>>
      PROVE  IInv'
  BY <1>1 DEF IInv, Current, InsideSource, SumsInPlace, RowsPerSum, RowsPerChunk, DecodedRows
<1>2. ASSUME at \in Busy
      PROVE  Current \in Plans
  BY <1>2 DEF IInv, Current
<1>3. CASE BeginPlan
  <2>1. begun' \in 0 .. Len(plans) /\ begun' > 0 /\ Current' = NextPlan
    BY <1>3 DEF BeginPlan, IInv, NextPlan, Current
  <2>2. InsideSource(Current)'
    BY <1>3, <2>1 DEF BeginPlan, InsideSource
  <2>3. at' # "chunk" /\ at' \in Busy
    BY <1>3 DEF BeginPlan, Busy
  <2>4. at' = "imatrix" =>
          encoded' = 0 /\ scratch' = IF SumsInPlace(NextPlan) THEN 0 ELSE RowsPerSum(NextPlan)
    BY <1>3 DEF BeginPlan
  <2>5. row' \in Nat /\ plans' = plans /\ source' = source
    BY <1>3 DEF BeginPlan
  <2>. QED BY <2>1, <2>2, <2>3, <2>4, <2>5
         DEF IInv, SumsInPlace, RowsPerSum, Aligned, ChunkOf
<1>4. CASE SumRows
  <2>1. Current \in Plans
    BY <1>2, <1>4 DEF SumRows, Busy
  <2>2. RowsPerSum(Current) \in Nat
    BY <2>1, PlanFacts, ChunkFacts DEF RowsPerSum
  <2>3. row' \in Nat
    BY <1>4, <2>2 DEF SumRows, IInv
  <2>. QED BY <1>4, <2>3
         DEF IInv, SumRows, Current, InsideSource, SumsInPlace, RowsPerSum
<1>5. CASE PrepareChunks
  BY <1>5 DEF PrepareChunks, IInv, Busy, Current, InsideSource, RowsPerChunk, DecodedRows
<1>6. CASE EncodeChunk
  <2>1. Current \in Plans
    BY <1>2, <1>6 DEF EncodeChunk, Busy
  <2>2. RowsPerChunk(Current) \in Nat
    BY <2>1, PlanFacts, ChunkFacts DEF RowsPerChunk
  <2>3. row' \in Nat
    BY <1>6, <2>2 DEF EncodeChunk, IInv
  <2>. QED BY <1>6, <2>3
         DEF IInv, EncodeChunk, Current, InsideSource, RowsPerChunk, DecodedRows
<1>7. CASE Map \/ RejectPlan \/ EndSum \/ PadBefore \/ CopyPayload
  BY <1>1, <1>7 DEF Map, RejectPlan, EndSum, PadBefore, CopyPayload, Busy
<1>8. CASE EndChunks \/ PadAfter \/ EndPlan \/ Return
  BY <1>1, <1>8 DEF EndChunks, PadAfter, EndPlan, Return, Busy
<1>9. CASE WriteZeros \/ WriteSome
  BY <1>1, <1>9 DEF WriteZeros, WriteSome
<1>10. CASE Fail
  BY <1>1, <1>10 DEF Fail, Busy
<1>11. CASE UNCHANGED vars
  BY <1>1, <1>11 DEF vars
<1>. QED BY <1>3, <1>4, <1>5, <1>6, <1>7, <1>8, <1>9, <1>10, <1>11 DEF Next, Step

THEOREM InvariantHolds == Spec => []IInv
BY InitInvariant, StepInvariant, PTL DEF Spec

-----------------------------------------------------------------------------
LEMMA InvariantGivesRoom == IInv => VectorsAreLargeEnough
<1>. SUFFICES ASSUME IInv PROVE VectorsAreLargeEnough
  OBVIOUS
<1>1. ASSUME at = "imatrix", MoreToSum(Current)
      PROVE  Aligned(Current, row) \/ MinOf(RowsPerSum(Current), Current.rows - row) <= scratch
  <2>1. Current \in Plans /\ row \in Nat
    BY <1>1 DEF IInv, Busy, Current
  <2>2. CASE Aligned(Current, 0)
    BY <2>1, <2>2, AlignedRows
  <2>3. CASE ~ Aligned(Current, 0)
    <3>1. scratch = RowsPerSum(Current) /\ RowsPerSum(Current) \in Nat /\ Current.rows \in Nat
      BY <1>1, <2>1, <2>3, PlanFacts, ChunkFacts DEF IInv, SumsInPlace, RowsPerSum
    <3>. QED BY <2>1, <3>1 DEF MinOf
  <2>. QED BY <2>2, <2>3
<1>2. ASSUME at = "chunk", row < Current.rows
      PROVE  /\ ChunkRows(Current) <= encoded
             /\ Path(Current) = "fused" => ChunkRows(Current) <= scratch
             /\ Path(Current) = "generic" =>
                  Aligned(Current, row) \/ ChunkRows(Current) <= scratch
  <2>1. Current \in Plans /\ row \in Nat
    BY <1>2 DEF IInv, Busy, Current
  <2>2. RowsPerChunk(Current) \in Nat /\ Current.rows \in Nat
    BY <2>1, PlanFacts, ChunkFacts DEF RowsPerChunk
  <2>3. ChunkRows(Current) <= RowsPerChunk(Current)
    BY <2>1, <2>2 DEF ChunkRows, MinOf
  <2>4. encoded = RowsPerChunk(Current) /\ scratch = DecodedRows(Current)
    BY <1>2 DEF IInv
  <2>5. Aligned(Current, 0) => Aligned(Current, row)
    BY <2>1, AlignedRows
  <2>. QED BY <2>3, <2>4, <2>5 DEF DecodedRows
<1>. QED BY <1>1, <1>2 DEF VectorsAreLargeEnough

LEMMA InvariantGivesBudget == IInv => MemoryIsBounded
<1>. SUFFICES ASSUME IInv, at \in {"imatrix", "chunk"}
              PROVE  \/ scratch * FloatBytes(Current) + encoded * Current.rowSize <= ScratchBytes
                     \/ scratch <= 1 /\ encoded <= 1
  BY DEF MemoryIsBounded
<1>. DEFINE p == Current
<1>1. p \in Plans
  BY DEF IInv, Busy, Current
<1>. HIDE DEF p
<1>2. /\ FloatBytes(p) \in Nat /\ p.rowSize \in Nat /\ ScratchBytes \in Nat
      /\ RowWork(p) \in Nat \ {0} /\ FloatBytes(p) + p.rowSize \in Nat \ {0}
      /\ p.rowSize <= RowWork(p)
  BY <1>1, PlanFacts, PayloadAssumption
<1>3. CASE at = "imatrix"
  <2>1. encoded = 0 /\ scratch = IF SumsInPlace(p) THEN 0 ELSE RowsPerSum(p)
    BY <1>3 DEF IInv, p
  <2>2. CASE SumsInPlace(p)
    BY <2>1, <2>2
  <2>3. CASE ~ SumsInPlace(p)
    <3>1. PICK n \in Nat : /\ n = scratch
                           /\ n * (FloatBytes(p) + p.rowSize) <= ScratchBytes \/ n = 1
      BY <1>1, <1>2, <2>1, <2>3, ChunkFacts DEF RowsPerSum
    <3>2. n * FloatBytes(p) <= n * (FloatBytes(p) + p.rowSize)
      <4>1. n * (FloatBytes(p) + p.rowSize) = n * FloatBytes(p) + n * p.rowSize
        BY <1>2
      <4>. QED BY <1>2, <4>1, ProductNat
    <3>3. n * FloatBytes(p) \in Nat /\ n * (FloatBytes(p) + p.rowSize) \in Nat
      BY <1>2, ProductNat
    <3>4. encoded * p.rowSize = 0
      BY <1>2, <2>1
    <3>. QED BY <1>2, <2>1, <3>1, <3>2, <3>3, <3>4 DEF p
  <2>. QED BY <2>2, <2>3
<1>4. CASE at = "chunk"
  <2>1. encoded = RowsPerChunk(p) /\ scratch = DecodedRows(p)
    BY <1>4 DEF IInv, p
  <2>2. PICK n \in Nat : /\ n = encoded
                         /\ n * RowWork(p) <= ScratchBytes \/ n = 1
    BY <1>1, <1>2, <2>1, ChunkFacts DEF RowsPerChunk
  <2>3. \/ scratch = 0
        \/ scratch = n /\ RowWork(p) = FloatBytes(p) + p.rowSize
    BY <2>1, <2>2 DEF DecodedRows, RowWork
  <2>4. scratch * FloatBytes(p) + n * p.rowSize <= n * RowWork(p)
    <3>1. CASE scratch = 0
      <4>1. p.rowSize * n <= RowWork(p) * n
        BY <1>2, ProductMonotone
      <4>2. p.rowSize * n = n * p.rowSize /\ RowWork(p) * n = n * RowWork(p)
        BY <1>2
      <4>3. scratch * FloatBytes(p) = 0 /\ n * p.rowSize \in Nat
        BY <1>2, <3>1, ProductNat
      <4>. QED BY <4>1, <4>2, <4>3
    <3>2. CASE scratch = n /\ RowWork(p) = FloatBytes(p) + p.rowSize
      <4>1. n * (FloatBytes(p) + p.rowSize) = n * FloatBytes(p) + n * p.rowSize
        BY <1>2
      <4>. QED BY <1>2, <3>2, <4>1, ProductNat
    <3>. QED BY <2>3, <3>1, <3>2
  <2>5. scratch * FloatBytes(p) + n * p.rowSize \in Nat /\ n * RowWork(p) \in Nat
    <3>1. scratch \in Nat
      BY <2>3
    <3>. QED BY <1>2, <3>1, ProductNat
  <2>6. CASE n * RowWork(p) <= ScratchBytes
    BY <1>2, <2>2, <2>4, <2>5, <2>6 DEF p
  <2>7. CASE n = 1
    BY <2>2, <2>3, <2>7
  <2>. QED BY <2>2, <2>6, <2>7
<1>. QED BY <1>3, <1>4

LEMMA InvariantGivesReads == IInv => ReadsInsideSource
<1>. SUFFICES ASSUME IInv PROVE ReadsInsideSource
  OBVIOUS
<1>. DEFINE bytes == Current.width * DtypeSize(Current.dtype)
<1>1. ASSUME at \in Busy
      PROVE  /\ Current \in Plans /\ row \in Nat /\ source \in Nat /\ InsideSource(Current)
             /\ Current.rows \in Nat
  <2>1. Current \in Plans /\ row \in Nat /\ source \in Nat /\ InsideSource(Current)
    BY <1>1 DEF IInv, Current
  <2>. QED BY <2>1, PlanFacts
<1>2. ASSUME at = "imatrix", MoreToSum(Current)
      PROVE  Current.begin + MinOf(row + RowsPerSum(Current), Current.rows) * bytes <= source
  <2>1. RowsPerSum(Current) \in Nat
    BY <1>1, <1>2, PlanFacts, ChunkFacts DEF RowsPerSum, Busy
  <2>2. PICK r \in Nat : r = MinOf(row + RowsPerSum(Current), Current.rows) /\ r <= Current.rows
    BY <1>1, <1>2, <2>1 DEF MinOf, Busy
  <2>. QED BY <1>1, <1>2, <2>2, RowsInside DEF Busy
<1>3. ASSUME at = "chunk", row < Current.rows
      PROVE  Current.begin + (row + ChunkRows(Current)) * bytes <= source
  <2>1. RowsPerChunk(Current) \in Nat
    BY <1>1, <1>3, PlanFacts, ChunkFacts DEF RowsPerChunk, Busy
  <2>2. PICK r \in Nat : r = row + ChunkRows(Current) /\ r <= Current.rows
    BY <1>1, <1>3, <2>1 DEF ChunkRows, MinOf, Busy
  <2>. QED BY <1>1, <1>3, <2>2, RowsInside DEF Busy
<1>4. ASSUME at = "written", Path(Current) = "copy"
      PROVE  Current.begin + Nbytes(Current) <= source
  <2>1. Matches(Current)
    BY <1>4 DEF Path
  <2>2. Nbytes(Current) = Current.rows * bytes
    BY <1>1, <1>4, <2>1, PlanFacts DEF Nbytes, Busy
  <2>. QED BY <1>1, <1>4, <2>2, RowsInside DEF Busy
<1>. QED BY <1>2, <1>3, <1>4 DEF ReadsInsideSource

(* For every list of plans and every scratch memory, each vector has room  *)
(* for the rows that are decoded or encoded next.                          *)
THEOREM RoomForEveryChunk == Spec => []VectorsAreLargeEnough
BY InvariantHolds, InvariantGivesRoom, PTL

(* For every list of plans, the vectors together keep to scratch_bytes,    *)
(* unless a single row needs more.                                         *)
THEOREM ScratchIsBounded == Spec => []MemoryIsBounded
BY InvariantHolds, InvariantGivesBudget, PTL

(* For every list of plans and every size of the source, no byte outside   *)
(* the mapped source is read.                                              *)
THEOREM NothingOutsideIsRead == Spec => []ReadsInsideSource
BY InvariantHolds, InvariantGivesReads, PTL

-----------------------------------------------------------------------------
(* The content of the output.  First the sequences it is made of. *)

Byte == Nat \X Nat \X Nat

LEMMA QuotientIsUnique ==
  ASSUME NEW n \in Nat, NEW w \in Nat \ {0}, NEW q \in Nat, NEW r \in Nat,
         r < w, n = q * w + r
  PROVE  n \div w = q /\ n % w = r
<1>1. PICK p \in Nat : p = n \div w /\ p * w <= n
  BY Quotient
<1>2. n < p * w + w
  <2>1. n < w * (n \div w) + w
    BY Z3
  <2>2. w * p = p * w
    BY <1>1
  <2>. QED BY <1>1, <2>1, <2>2
<1>3. p * w \in Nat /\ q * w \in Nat
  BY <1>1, ProductNat
<1>4. ASSUME p < q PROVE FALSE
  <2>1. p + 1 \in Nat /\ p + 1 <= q
    BY <1>1, <1>4
  <2>2. (p + 1) * w <= q * w
    BY <2>1, ProductMonotone
  <2>3. (p + 1) * w = p * w + w
    BY <1>1
  <2>. QED BY <1>2, <1>3, <2>2, <2>3
<1>5. ASSUME q < p PROVE FALSE
  <2>1. q + 1 \in Nat /\ q + 1 <= p
    BY <1>1, <1>5
  <2>2. (q + 1) * w <= p * w
    BY <1>1, <2>1, ProductMonotone
  <2>3. (q + 1) * w = q * w + w
    OBVIOUS
  <2>. QED BY <1>1, <1>3, <2>2, <2>3
<1>6. p = q
  BY <1>1, <1>4, <1>5
<1>7. n % w = n - w * (n \div w)
  BY Z3
<1>8. w * q = q * w
  OBVIOUS
<1>. QED BY <1>1, <1>3, <1>6, <1>7, <1>8

LEMMA QuotientFacts ==
  ASSUME NEW n \in Nat, NEW w \in Nat \ {0}
  PROVE  /\ n \div w \in Nat /\ n % w \in Nat /\ n % w < w
         /\ n = (n \div w) * w + (n % w)
<1>1. n % w \in Nat /\ n % w < w
  BY Z3
<1>2. n % w = n - w * (n \div w)
  BY Z3
<1>3. PICK q \in Nat : q = n \div w
  BY Quotient
<1>4. PICK r \in Nat : r = n % w
  BY <1>1
<1>5. w * q = q * w /\ q * w \in Nat
  BY ProductNat
<1>6. r = n - q * w
  BY <1>2, <1>3, <1>4, <1>5
<1>7. n = q * w + r
  BY <1>5, <1>6
<1>. QED BY <1>1, <1>3, <1>4, <1>7

LEMMA QuotientShift ==
  ASSUME NEW m \in Nat, NEW w \in Nat \ {0}, NEW a \in Nat
  PROVE  (a * w + m) \div w = a + (m \div w) /\ (a * w + m) % w = m % w
<1>1. PICK q \in Nat, r \in Nat : q = m \div w /\ r = m % w /\ r < w /\ m = q * w + r
  BY QuotientFacts
<1>2. a * w \in Nat /\ q * w \in Nat /\ (a + q) * w = a * w + q * w
  BY <1>1, ProductNat
<1>3. a * w + m \in Nat /\ a * w + m = (a + q) * w + r /\ a + q \in Nat
  BY <1>1, <1>2
<1>4. (a * w + m) \div w = a + q /\ (a * w + m) % w = r
  <2>1. r < w
    BY <1>1
  <2>. QED BY <1>3, <2>1, QuotientIsUnique
<1>. QED BY <1>1, <1>4

LEMMA PadToFacts ==
  ASSUME NEW n \in Nat
  PROVE  PadTo(n) - n \in Nat
<1>1. Alignment \in Nat \ {0} /\ n + Alignment - 1 \in Nat
  BY PayloadAssumption
<1>2. PICK q \in Nat, r \in Nat : /\ q = (n + Alignment - 1) \div Alignment
                                  /\ r < Alignment
                                  /\ n + Alignment - 1 = q * Alignment + r
  BY <1>1, QuotientFacts
<1>3. PadTo(n) = q * Alignment
  BY <1>2 DEF PadTo
<1>4. q * Alignment \in Nat
  BY <1>1, <1>2, ProductNat
<1>. QED BY <1>1, <1>2, <1>3, <1>4

LEMMA BlockIsSeq ==
  ASSUME NEW S, NEW n \in Nat, NEW f \in [1 .. n -> S]
  PROVE  f \in Seq(S) /\ Len(f) = n
OBVIOUS

LEMMA ZeroFacts ==
  /\ Zero \in Byte
  /\ \A n \in Nat : Zeros(n) \in Seq(Byte) /\ Len(Zeros(n)) = n
  /\ Zeros(0) = <<>>
<1>1. Zero \in Byte
  BY DEF Zero, Byte
<1>2. ASSUME NEW n \in Nat
      PROVE  Zeros(n) \in Seq(Byte) /\ Len(Zeros(n)) = n
  <2>1. Zeros(n) \in [1 .. n -> Byte]
    BY <1>1 DEF Zeros
  <2>. QED BY <2>1, BlockIsSeq
<1>3. Zeros(0) = <<>>
  BY <1>2, EmptySeq
<1>. QED BY <1>1, <1>2, <1>3

LEMMA ZerosSplit ==
  ASSUME NEW m \in Nat, NEW n \in Nat
  PROVE  Zeros(m + n) = Zeros(m) \o Zeros(n)
<1>1. /\ Zeros(m) \in Seq(Byte) /\ Zeros(n) \in Seq(Byte) /\ Zeros(m + n) \in Seq(Byte)
      /\ Len(Zeros(m)) = m /\ Len(Zeros(n)) = n /\ Len(Zeros(m + n)) = m + n
  BY ZeroFacts
<1>2. /\ Zeros(m) \o Zeros(n) \in Seq(Byte)
      /\ Len(Zeros(m) \o Zeros(n)) = m + n
      /\ \A i \in 1 .. m + n : (Zeros(m) \o Zeros(n))[i] =
           IF i <= m THEN Zeros(m)[i] ELSE Zeros(n)[i - m]
  BY <1>1, ConcatProperties
<1>3. ASSUME NEW i \in 1 .. m + n
      PROVE  Zeros(m + n)[i] = (Zeros(m) \o Zeros(n))[i]
  <2>1. Zeros(m + n)[i] = Zero
    BY DEF Zeros
  <2>2. i <= m => Zeros(m)[i] = Zero
    BY DEF Zeros
  <2>3. i > m => Zeros(n)[i - m] = Zero
    BY DEF Zeros
  <2>. QED BY <1>2, <2>1, <2>2, <2>3
<1>. QED BY <1>1, <1>2, <1>3, SeqEqual

(* The byte i of rows of size w that begin with the row first of plan k.   *)
ByteAt(k, first, w, i) == <<k, first + ((i - 1) \div w), (i - 1) % w>>

LEMMA ByteAtType ==
  ASSUME NEW k \in Nat, NEW first \in Nat, NEW w \in Nat \ {0}, NEW i \in Nat \ {0}
  PROVE  ByteAt(k, first, w, i) \in Byte
<1>1. PICK h \in Nat : h = i - 1
  OBVIOUS
<1>2. PICK q \in Nat, r \in Nat : q = h \div w /\ r = h % w
  BY QuotientFacts
<1>. QED BY <1>1, <1>2 DEF ByteAt, Byte

(* The size of a row of plan k, and of some rows. *)
SizeIn(k) == plans[k].rowSize

SizeOf(k, count) == count * SizeIn(k)

LEMMA SizeFacts ==
  ASSUME NEW k \in Nat, SizeIn(k) \in Nat \ {0}, NEW a \in Nat, NEW b \in Nat
  PROVE  /\ SizeOf(k, a) \in Nat /\ a + b \in Nat
         /\ SizeOf(k, a + b) = SizeOf(k, a) + SizeOf(k, b)
<1>1. PICK w \in Nat \ {0} : w = SizeIn(k)
  OBVIOUS
<1>2. a * w \in Nat /\ (a + b) * w = a * w + b * w
  BY ProductNat
<1>. QED BY <1>1, <1>2 DEF SizeOf

LEMMA ByteAtShift ==
  ASSUME NEW k \in Nat, SizeIn(k) \in Nat \ {0}, NEW first \in Nat, NEW a \in Nat,
         NEW i \in Nat \ {0}
  PROVE  ByteAt(k, first, SizeIn(k), SizeOf(k, a) + i) = ByteAt(k, first + a, SizeIn(k), i)
<1>1. PICK h \in Nat : h = i - 1
  OBVIOUS
<1>2. PICK w \in Nat \ {0} : w = SizeIn(k)
  OBVIOUS
<1>3. PICK m \in Nat : m = SizeOf(k, a) /\ m = a * w
  BY <1>2, ProductNat DEF SizeOf
<1>4. PICK q \in Nat, r \in Nat : q = h \div w /\ r = h % w
  BY QuotientFacts
<1>5. (m + h) \div w = a + q /\ (m + h) % w = r
  <2>1. (a * w + h) \div w = a + (h \div w) /\ (a * w + h) % w = h % w
    BY QuotientShift, ZenonT(60)
  <2>. QED BY <1>3, <1>4, <2>1
<1>6. (m + i) - 1 = m + h
  BY <1>1
<1>7. ByteAt(k, first, w, m + i) = <<k, first + (a + q), r>>
  BY <1>5, <1>6 DEF ByteAt
<1>8. ByteAt(k, first + a, w, i) = <<k, (first + a) + q, r>>
  BY <1>1, <1>4 DEF ByteAt
<1>9. first + (a + q) = (first + a) + q
  BY <1>4
<1>. QED BY <1>2, <1>3, <1>7, <1>8, <1>9

(* The bytes are those of the rows from first on. *)
AreRows(bytes, k, first, count) ==
  /\ bytes \in Seq(Byte)
  /\ Len(bytes) = SizeOf(k, count)
  /\ \A i \in 1 .. SizeOf(k, count) : bytes[i] = ByteAt(k, first, SizeIn(k), i)

LEMMA RowBytesFacts ==
  ASSUME NEW k \in Nat, NEW first \in Nat, NEW count \in Nat, SizeIn(k) \in Nat \ {0}
  PROVE  AreRows(RowBytes(k, first, count), k, first, count)
<1>1. PICK n \in Nat : n = SizeOf(k, count)
  BY SizeFacts
<1>2. RowBytes(k, first, count) = [i \in 1 .. n |-> ByteAt(k, first, SizeIn(k), i)]
  BY <1>1 DEF RowBytes, ByteAt, SizeOf, SizeIn
<1>3. ASSUME NEW i \in 1 .. n
      PROVE  ByteAt(k, first, SizeIn(k), i) \in Byte
  <2>1. i \in Nat \ {0}
    OBVIOUS
  <2>. QED BY <2>1, ByteAtType
<1>4. RowBytes(k, first, count) \in [1 .. n -> Byte]
  BY <1>2, <1>3
<1>5. RowBytes(k, first, count) \in Seq(Byte) /\ Len(RowBytes(k, first, count)) = n
  BY <1>4, BlockIsSeq
<1>. QED BY <1>1, <1>2, <1>5 DEF AreRows

(* The rows of a tensor may be handed over in parts. *)
RowsAreSplit(k, first, a, b) ==
  RowBytes(k, first, a + b) = RowBytes(k, first, a) \o RowBytes(k, first + a, b)

LEMMA RowBytesSplit ==
  ASSUME NEW k \in Nat, SizeIn(k) \in Nat \ {0}, NEW first \in Nat, NEW a \in Nat,
         NEW b \in Nat
  PROVE  RowsAreSplit(k, first, a, b)
<1>. DEFINE s == RowBytes(k, first, a)
            t == RowBytes(k, first + a, b)
            u == RowBytes(k, first, a + b)
<1>1. PICK m \in Nat, n \in Nat : /\ m = SizeOf(k, a) /\ n = SizeOf(k, b)
                                  /\ m + n = SizeOf(k, a + b)
  <2>1. /\ SizeOf(k, a) \in Nat /\ SizeOf(k, b) \in Nat
        /\ SizeOf(k, a + b) = SizeOf(k, a) + SizeOf(k, b)
    BY SizeFacts
  <2>. QED BY <2>1
<1>2. PICK w \in Nat \ {0} : w = SizeIn(k)
  OBVIOUS
<1>3. /\ s \in Seq(Byte) /\ Len(s) = m
      /\ \A i \in 1 .. m : s[i] = ByteAt(k, first, w, i)
  <2>1. AreRows(s, k, first, a)
    BY RowBytesFacts
  <2>. QED BY <1>1, <1>2, <2>1 DEF AreRows
<1>4. /\ t \in Seq(Byte) /\ Len(t) = n
      /\ \A i \in 1 .. n : t[i] = ByteAt(k, first + a, w, i)
  <2>1. first + a \in Nat
    OBVIOUS
  <2>2. AreRows(t, k, first + a, b)
    BY <2>1, RowBytesFacts
  <2>. QED BY <1>1, <1>2, <2>2 DEF AreRows
<1>5. /\ u \in Seq(Byte) /\ Len(u) = m + n
      /\ \A i \in 1 .. m + n : u[i] = ByteAt(k, first, w, i)
  <2>1. a + b \in Nat
    OBVIOUS
  <2>2. AreRows(u, k, first, a + b)
    BY <2>1, RowBytesFacts
  <2>. QED BY <1>1, <1>2, <2>2 DEF AreRows
<1>. HIDE DEF s, t, u
<1>6. /\ s \o t \in Seq(Byte) /\ Len(s \o t) = m + n
      /\ \A i \in 1 .. m + n : (s \o t)[i] = IF i <= m THEN s[i] ELSE t[i - m]
  BY <1>3, <1>4, ConcatProperties
<1>7. ASSUME NEW i \in 1 .. m + n
      PROVE  u[i] = (s \o t)[i]
  <2>1. CASE i <= m
    BY <1>3, <1>5, <1>6, <2>1
  <2>2. CASE i > m
    <3>1. PICK j \in 1 .. n : i = m + j
      <4>1. i - m \in 1 .. n /\ i = m + (i - m)
        BY <2>2
      <4>. QED BY <4>1
    <3>2. j \in Nat \ {0}
      OBVIOUS
    <3>3. ByteAt(k, first, w, m + j) = ByteAt(k, first + a, w, j)
      <4>1. ByteAt(k, first, SizeIn(k), SizeOf(k, a) + j) = ByteAt(k, first + a, SizeIn(k), j)
        BY <3>2, ByteAtShift
      <4>. QED BY <1>1, <1>2, <4>1
    <3>4. (s \o t)[i] = t[j]
      <4>1. i - m = j /\ ~ (i <= m)
        BY <2>2, <3>1
      <4>. QED BY <1>6, <4>1
    <3>5. u[i] = ByteAt(k, first, w, m + j) /\ t[j] = ByteAt(k, first + a, w, j)
      <4>1. u[i] = ByteAt(k, first, w, i)
        BY <1>5
      <4>2. t[j] = ByteAt(k, first + a, w, j)
        BY <1>4
      <4>. QED BY <3>1, <4>1, <4>2
    <3>. QED BY <3>3, <3>4, <3>5
  <2>3. i <= m \/ i > m
    OBVIOUS
  <2>. QED BY <2>1, <2>2, <2>3
<1>8. u = s \o t
  BY <1>5, <1>6, <1>7, SeqEqual
<1>. QED BY <1>8 DEF RowsAreSplit, s, t, u

(* What an output counts as payload. *)
Marks(bytes) == {i \in DOMAIN bytes : bytes[i] # Zero}

LEMMA MarksAreFinite ==
  ASSUME NEW s \in Seq(Byte)
  PROVE  /\ IsFiniteSet(Marks(s))
         /\ Marks(s) = {i \in 1 .. Len(s) : s[i] # Zero}
         /\ PayloadBytes(s) = Cardinality(Marks(s))
         /\ PayloadBytes(s) \in Nat
<1>1. Len(s) \in Nat /\ DOMAIN s = 1 .. Len(s)
  BY LenProperties
<1>2. Marks(s) = {i \in 1 .. Len(s) : s[i] # Zero}
  BY <1>1 DEF Marks
<1>3. IsFiniteSet(1 .. Len(s))
  BY <1>1, FS_Interval
<1>4. Marks(s) \in SUBSET (1 .. Len(s))
  BY <1>2
<1>5. IsFiniteSet(Marks(s))
  BY <1>3, <1>4, FS_Subset
<1>6. Cardinality(Marks(s)) \in Nat
  BY <1>5, FS_CardinalityType
<1>. QED BY <1>2, <1>5, <1>6 DEF PayloadBytes, Marks

LEMMA PayloadOfConcat ==
  ASSUME NEW s \in Seq(Byte), NEW t \in Seq(Byte)
  PROVE  PayloadBytes(s \o t) = PayloadBytes(s) + PayloadBytes(t)
<1>1. PICK m \in Nat, n \in Nat : m = Len(s) /\ n = Len(t)
  BY LenProperties
<1>2. /\ s \o t \in Seq(Byte) /\ Len(s \o t) = m + n
      /\ \A i \in 1 .. m + n : (s \o t)[i] = IF i <= m THEN s[i] ELSE t[i - m]
  BY <1>1, ConcatProperties
<1>. DEFINE late == {i \in Marks(s \o t) : i > m}
            f    == [i \in Marks(t) |-> i + m]
<1>3. Marks(s) = {i \in 1 .. m : s[i] # Zero} /\ Marks(t) = {i \in 1 .. n : t[i] # Zero}
  BY <1>1, MarksAreFinite
<1>4. Marks(s \o t) = {i \in 1 .. m + n : (s \o t)[i] # Zero}
  BY <1>2, MarksAreFinite
<1>5. Marks(s \o t) = Marks(s) \cup late
  <2>1. ASSUME NEW i \in Marks(s \o t), ~ (i > m)
        PROVE  i \in Marks(s)
    <3>1. i \in 1 .. m /\ i \in 1 .. m + n /\ (s \o t)[i] # Zero
      <4>1. i \in 1 .. m + n /\ (s \o t)[i] # Zero
        BY <1>4
      <4>2. i \in 1 .. m
        BY <2>1, <4>1
      <4>. QED BY <4>1, <4>2
    <3>2. (s \o t)[i] = s[i]
      BY <1>2, <3>1
    <3>. QED BY <1>3, <3>1, <3>2
  <2>2. ASSUME NEW i \in Marks(s)
        PROVE  i \in Marks(s \o t)
    <3>1. i \in 1 .. m /\ i \in 1 .. m + n /\ s[i] # Zero
      BY <1>3
    <3>2. (s \o t)[i] = s[i]
      BY <1>2, <3>1
    <3>. QED BY <1>4, <3>1, <3>2
  <2>. QED BY <2>1, <2>2
<1>6. Marks(s) \cap late = {}
  BY <1>3
<1>7. ASSUME NEW j \in Marks(t)
      PROVE  j + m \in late
  <2>1. j \in 1 .. n /\ t[j] # Zero
    BY <1>3
  <2>2. j + m \in 1 .. m + n /\ j + m > m /\ (j + m) - m = j
    BY <2>1
  <2>3. (s \o t)[j + m] = t[j]
    BY <1>2, <2>2
  <2>. QED BY <1>4, <2>1, <2>2, <2>3
<1>8. ASSUME NEW i \in late
      PROVE  \E j \in Marks(t) : i = j + m
  <2>1. i \in 1 .. m + n /\ i > m /\ (s \o t)[i] # Zero
    BY <1>4
  <2>2. i - m \in 1 .. n /\ i = (i - m) + m
    BY <2>1
  <2>3. (s \o t)[i] = t[i - m]
    BY <1>2, <2>1
  <2>4. i - m \in Marks(t)
    BY <1>3, <2>1, <2>2, <2>3
  <2>. QED BY <2>2, <2>4
<1>. HIDE DEF late
<1>9. f \in Bijection(Marks(t), late)
  <2>1. f \in [Marks(t) -> late]
    BY <1>7
  <2>2. \A a, b \in Marks(t) : f[a] = f[b] => a = b
    <3>1. \A a \in Marks(t) : a \in Nat /\ f[a] = a + m
      BY <1>3
    <3>. QED BY <3>1
  <2>3. \A i \in late : \E j \in Marks(t) : f[j] = i
    BY <1>8
  <2>. QED BY <2>1, <2>2, <2>3, Fun_IsBij
<1>10. ExistsBijection(Marks(t), late)
  BY <1>9, Fun_ExistsBij
<1>11. /\ IsFiniteSet(Marks(s)) /\ IsFiniteSet(Marks(t))
       /\ PayloadBytes(s) = Cardinality(Marks(s)) /\ PayloadBytes(s) \in Nat
       /\ PayloadBytes(t) = Cardinality(Marks(t)) /\ PayloadBytes(t) \in Nat
       /\ PayloadBytes(s \o t) = Cardinality(Marks(s \o t))
  BY <1>2, MarksAreFinite
<1>12. IsFiniteSet(late) /\ Cardinality(late) = Cardinality(Marks(t))
  BY <1>10, <1>11, FS_Bijection
<1>13. Cardinality(Marks(s \o t)) =
         Cardinality(Marks(s)) + Cardinality(late) - Cardinality(Marks(s) \cap late)
  BY <1>5, <1>11, <1>12, FS_Union
<1>14. Cardinality(Marks(s) \cap late) = 0
  BY <1>6, FS_EmptySet
<1>. QED BY <1>11, <1>12, <1>13, <1>14

LEMMA PayloadOfZeros ==
  ASSUME NEW n \in Nat
  PROVE  PayloadBytes(Zeros(n)) = 0
<1>1. Zeros(n) \in Seq(Byte) /\ Len(Zeros(n)) = n
  BY ZeroFacts
<1>2. \A i \in 1 .. n : Zeros(n)[i] = Zero
  BY DEF Zeros
<1>3. Marks(Zeros(n)) = {}
  BY <1>1, <1>2, MarksAreFinite
<1>. QED BY <1>1, <1>3, MarksAreFinite, FS_EmptySet

LEMMA PayloadOfRows ==
  ASSUME NEW k \in Nat \ {0}, NEW first \in Nat, NEW count \in Nat, SizeIn(k) \in Nat \ {0}
  PROVE  PayloadBytes(RowBytes(k, first, count)) = SizeOf(k, count)
<1>. DEFINE s == RowBytes(k, first, count)
<1>1. PICK n \in Nat : n = SizeOf(k, count)
  BY SizeFacts
<1>2. AreRows(s, k, first, count)
  BY RowBytesFacts
<1>3. /\ s \in Seq(Byte) /\ Len(s) = n
      /\ \A i \in 1 .. n : s[i] = ByteAt(k, first, SizeIn(k), i)
  BY <1>1, <1>2 DEF AreRows
<1>. HIDE DEF s
<1>4. ASSUME NEW i \in 1 .. n
      PROVE  s[i] # Zero
  <2>1. s[i] = ByteAt(k, first, SizeIn(k), i)
    BY <1>3
  <2>2. ByteAt(k, first, SizeIn(k), i)[1] = k
    BY DEF ByteAt
  <2>3. Zero[1] = 0
    BY DEF Zero
  <2>. QED BY <2>1, <2>2, <2>3
<1>5. Marks(s) = 1 .. n
  BY <1>3, <1>4, MarksAreFinite
<1>6. Cardinality(1 .. n) = n
  BY FS_Interval
<1>. QED BY <1>1, <1>3, <1>5, <1>6, MarksAreFinite DEF s

-----------------------------------------------------------------------------
(* What is still to be written when u is being written, p zeros are owed   *)
(* and a is ahead.                                                         *)
Rest(u, p, a) == u \o (Zeros(p) \o a)

LEMMA RestIsSeq ==
  ASSUME NEW u \in Seq(Byte), NEW p \in Nat, NEW a \in Seq(Byte)
  PROVE  Rest(u, p, a) \in Seq(Byte)
<1>1. Zeros(p) \in Seq(Byte)
  BY ZeroFacts
<1>2. Zeros(p) \o a \in Seq(Byte)
  BY <1>1, ConcatProperties
<1>. QED BY <1>2, ConcatProperties DEF Rest

LEMMA EmptyFacts ==
  /\ <<>> \in Seq(Byte)
  /\ \A s \in Seq(Byte) : s \o <<>> = s /\ <<>> \o s = s
BY EmptySeq, ConcatEmptySeq

LEMMA Associative ==
  \A s, t, u \in Seq(Byte) : (s \o t) \o u = s \o (t \o u)
BY ConcatAssociative

(* Nothing is being written: only what is ahead is left. *)
LEMMA RestAhead ==
  ASSUME NEW a \in Seq(Byte), NEW p \in Nat, NEW u \in Seq(Byte)
  PROVE  /\ Rest(<<>>, 0, a) = a
         /\ Rest(<<>>, p, a) = Zeros(p) \o a
         /\ Rest(u, 0, a) = u \o a
<1>1. Zeros(p) \in Seq(Byte) /\ Zeros(0) = <<>>
  BY ZeroFacts
<1>2. Zeros(p) \o a \in Seq(Byte)
  BY <1>1, ConcatProperties
<1>3. <<>> \o (Zeros(p) \o a) = Zeros(p) \o a
  BY <1>2, EmptyFacts
<1>4. <<>> \o a = a
  BY EmptyFacts
<1>. QED BY <1>1, <1>3, <1>4 DEF Rest

(* write() takes the first n bytes. *)
WriteKeepsRest(s, u, p, a, n) ==
  LET t == s \o SubSeq(u, 1, n)
      v == SubSeq(u, n + 1, Len(u))
  IN  v \in Seq(Byte) /\ t \in Seq(Byte) /\ t \o Rest(v, p, a) = s \o Rest(u, p, a)

LEMMA RestAfterWrite ==
  ASSUME NEW s \in Seq(Byte), NEW u \in Seq(Byte), NEW p \in Nat, NEW a \in Seq(Byte),
         NEW n \in 1 .. Len(u)
  PROVE  WriteKeepsRest(s, u, p, a, n)
<1>. DEFINE x == SubSeq(u, 1, n)
            y == SubSeq(u, n + 1, Len(u))
            z == Zeros(p) \o a
<1>1. PICK l \in Nat : l = Len(u) /\ \A i \in 1 .. l : u[i] \in Byte
  BY LenProperties
<1>2. n \in Int /\ l \in Int /\ n + 1 \in Int /\ 1 \in Int /\ n <= l /\ n >= 1
  BY <1>1
<1>3. x \in Seq(Byte)
  <2>1. \A i \in 1 .. n : u[i] \in Byte
    BY <1>1, <1>2
  <2>. QED BY <1>2, <2>1, SubSeqProperties
<1>4. y \in Seq(Byte)
  <2>1. \A i \in n + 1 .. l : u[i] \in Byte
    BY <1>1, <1>2
  <2>. QED BY <1>1, <1>2, <2>1, SubSeqProperties
<1>5. x \o y = u
  <2>1. 1 \in 1 .. l + 1 /\ n \in 1 - 1 .. l /\ l \in n .. l
    BY <1>1, <1>2
  <2>2. SubSeq(u, 1, n) \o SubSeq(u, n + 1, l) = SubSeq(u, 1, l)
    BY <1>1, <2>1, ConcatAdjacentSubSeq
  <2>3. SubSeq(u, 1, l) = u
    BY <1>1, SubSeqFull
  <2>. QED BY <1>1, <2>2, <2>3
<1>. HIDE DEF x, y
<1>6. z \in Seq(Byte)
  <2>1. Zeros(p) \in Seq(Byte)
    BY ZeroFacts
  <2>. QED BY <2>1, ConcatProperties
<1>. HIDE DEF z
<1>7. s \o x \in Seq(Byte) /\ y \o z \in Seq(Byte)
  BY <1>3, <1>4, <1>6, ConcatProperties
<1>8. (s \o x) \o (y \o z) = s \o (x \o (y \o z))
  <2>1. \A w \in Seq(Byte) : (s \o x) \o w = s \o (x \o w)
    BY <1>3, Associative, Zenon
  <2>. QED BY <1>7, <2>1, Zenon
<1>9. (x \o y) \o z = x \o (y \o z)
  <2>1. \A w \in Seq(Byte) : (x \o y) \o w = x \o (y \o w)
    BY <1>3, <1>4, Associative, Zenon
  <2>. QED BY <1>6, <2>1, Zenon
<1>10. (s \o x) \o (y \o z) = s \o (u \o z)
  BY <1>5, <1>8, <1>9
<1>. QED BY <1>3, <1>4, <1>7, <1>10 DEF WriteKeepsRest, Rest, x, y, z

(* A part of the zeros is handed to write_all_fd. *)
LEMMA RestOfZeros ==
  ASSUME NEW p \in Nat, NEW a \in Seq(Byte), NEW m \in 0 .. p
  PROVE  Rest(Zeros(m), p - m, a) = Rest(<<>>, p, a)
<1>1. PICK q \in Nat : q = p - m /\ p = m + q
  <2>1. p - m \in Nat /\ p = m + (p - m)
    OBVIOUS
  <2>. QED BY <2>1
<1>2. m \in Nat
  OBVIOUS
<1>3. Zeros(m) \in Seq(Byte) /\ Zeros(q) \in Seq(Byte)
  BY <1>2, ZeroFacts
<1>4. Zeros(p) = Zeros(m) \o Zeros(q)
  BY <1>1, <1>2, ZerosSplit
<1>5. (Zeros(m) \o Zeros(q)) \o a = Zeros(m) \o (Zeros(q) \o a)
  BY <1>3, Associative, Zenon
<1>6. Rest(<<>>, p, a) = Zeros(p) \o a
  BY RestAhead, EmptyFacts
<1>7. Rest(Zeros(m), q, a) = Zeros(m) \o (Zeros(q) \o a)
  BY DEF Rest
<1>. QED BY <1>1, <1>4, <1>5, <1>6, <1>7

LEMMA PrefixOfConcat ==
  ASSUME NEW s \in Seq(Byte), NEW t \in Seq(Byte)
  PROVE  Len(s) <= Len(s \o t) /\ s = SubSeq(s \o t, 1, Len(s))
<1>1. PICK m \in Nat, n \in Nat : m = Len(s) /\ n = Len(t)
  BY LenProperties
<1>2. /\ s \o t \in Seq(Byte) /\ Len(s \o t) = m + n
      /\ \A i \in 1 .. m + n : (s \o t)[i] = IF i <= m THEN s[i] ELSE t[i - m]
  BY <1>1, ConcatProperties
<1>3. \A i \in 1 .. m : (s \o t)[i] = s[i] /\ s[i] \in Byte
  <2>1. \A i \in 1 .. m : s[i] \in Byte
    BY <1>1, LenProperties
  <2>. QED BY <1>2, <2>1
<1>4. /\ SubSeq(s \o t, 1, m) \in Seq(Byte)
      /\ Len(SubSeq(s \o t, 1, m)) = m
      /\ \A i \in 1 .. m : SubSeq(s \o t, 1, m)[i] = (s \o t)[i]
  <2>. DEFINE w == s \o t
  <2>1. \A i \in 1 .. m : w[i] \in Byte
    BY <1>3
  <2>. HIDE DEF w
  <2>2. m \in Int /\ 1 \in Int
    OBVIOUS
  <2>3. /\ SubSeq(w, 1, m) \in Seq(Byte)
        /\ Len(SubSeq(w, 1, m)) = IF 1 <= m THEN m - 1 + 1 ELSE 0
        /\ \A i \in 1 .. m - 1 + 1 : SubSeq(w, 1, m)[i] = w[1 + i - 1]
    BY <2>1, <2>2, SubSeqProperties
  <2>4. (IF 1 <= m THEN m - 1 + 1 ELSE 0) = m /\ m - 1 + 1 = m
    OBVIOUS
  <2>5. \A i \in 1 .. m : 1 + i - 1 = i
    OBVIOUS
  <2>. QED BY <2>3, <2>4, <2>5 DEF w
<1>5. s = SubSeq(s \o t, 1, m)
  BY <1>1, <1>3, <1>4, SeqEqual
<1>. QED BY <1>1, <1>2, <1>5

(* A tensor's padding after its rows. *)
Trailer(p) == Zeros(PadTo(Nbytes(p)) - Nbytes(p))

LEMMA TensorFacts ==
  ASSUME plans \in Seq(Plans), NEW k \in 1 .. Len(plans)
  PROVE  /\ k \in Nat \ {0} /\ plans[k] \in Plans /\ SizeIn(k) \in Nat \ {0}
         /\ plans[k].rows \in Nat \ {0}
         /\ Nbytes(plans[k]) = SizeOf(k, plans[k].rows)
         /\ Nbytes(plans[k]) \in Nat
         /\ PadTo(Nbytes(plans[k])) - Nbytes(plans[k]) \in Nat
         /\ Trailer(plans[k]) \in Seq(Byte)
         /\ PayloadBytes(Trailer(plans[k])) = 0
         /\ \A r, c \in Nat : RowBytes(k, r, c) \in Seq(Byte)
<1>1. k \in Nat \ {0} /\ plans[k] \in Plans
  BY LenProperties
<1>2. SizeIn(k) \in Nat \ {0} /\ plans[k].rows \in Nat \ {0}
  BY <1>1, PlanFacts DEF SizeIn
<1>3. Nbytes(plans[k]) = SizeOf(k, plans[k].rows)
  BY DEF Nbytes, SizeOf, SizeIn
<1>4. SizeOf(k, plans[k].rows) \in Nat
  BY <1>1, <1>2, SizeFacts
<1>5. PICK n \in Nat : n = Nbytes(plans[k])
  BY <1>3, <1>4
<1>6. PadTo(n) - n \in Nat
  BY PadToFacts
<1>7. Trailer(plans[k]) = Zeros(PadTo(n) - n)
  BY <1>5 DEF Trailer
<1>8. Trailer(plans[k]) \in Seq(Byte) /\ PayloadBytes(Trailer(plans[k])) = 0
  BY <1>6, <1>7, ZeroFacts, PayloadOfZeros
<1>9. ASSUME NEW r \in Nat, NEW c \in Nat
      PROVE  RowBytes(k, r, c) \in Seq(Byte)
  <2>1. AreRows(RowBytes(k, r, c), k, r, c)
    BY <1>1, <1>2, RowBytesFacts
  <2>. QED BY <2>1 DEF AreRows
<1>. QED BY <1>1, <1>2, <1>3, <1>5, <1>6, <1>8, <1>9

LEMMA ContributionFacts ==
  ASSUME plans \in Seq(Plans), NEW k \in 1 .. Len(plans), NEW n \in Nat
  PROVE  /\ Contribution(k, n) \in Seq(Byte)
         /\ Contribution(k, n) = Zeros(PadTo(n) - n)
              \o (RowBytes(k, 0, plans[k].rows) \o Trailer(plans[k]))
         /\ PadTo(n) - n \in Nat
         /\ PayloadBytes(Contribution(k, n)) = Nbytes(plans[k])
<1>1. PICK z \in Nat : z = PadTo(n) - n
  BY PadToFacts
<1>. DEFINE r == RowBytes(k, 0, plans[k].rows)
            t == Trailer(plans[k])
<1>2. Zeros(z) \in Seq(Byte) /\ PayloadBytes(Zeros(z)) = 0
  BY ZeroFacts, PayloadOfZeros
<1>3. /\ k \in Nat \ {0} /\ SizeIn(k) \in Nat \ {0} /\ plans[k].rows \in Nat
      /\ Nbytes(plans[k]) = SizeOf(k, plans[k].rows) /\ Nbytes(plans[k]) \in Nat
      /\ t \in Seq(Byte) /\ PayloadBytes(t) = 0
      /\ \A x, c \in Nat : RowBytes(k, x, c) \in Seq(Byte)
  BY TensorFacts
<1>4. r \in Seq(Byte)
  <2>1. 0 \in Nat
    OBVIOUS
  <2>. QED BY <1>3, <2>1, Zenon
<1>5. PayloadBytes(r) = Nbytes(plans[k])
  <2>1. PICK c \in Nat : c = plans[k].rows
    BY <1>3
  <2>2. PICK f \in Nat : f = 0
    OBVIOUS
  <2>3. PayloadBytes(RowBytes(k, f, c)) = SizeOf(k, c)
    BY <1>3, PayloadOfRows
  <2>. QED BY <1>3, <2>1, <2>2, <2>3
<1>6. Contribution(k, n) = (Zeros(z) \o r) \o t
  BY <1>1 DEF Contribution, Trailer
<1>. HIDE DEF r, t
<1>7. /\ Zeros(z) \o r \in Seq(Byte)
      /\ PayloadBytes(Zeros(z) \o r) = PayloadBytes(Zeros(z)) + PayloadBytes(r)
  BY <1>2, <1>4, ConcatProperties, PayloadOfConcat
<1>8. /\ (Zeros(z) \o r) \o t \in Seq(Byte)
      /\ PayloadBytes((Zeros(z) \o r) \o t) = PayloadBytes(Zeros(z) \o r) + PayloadBytes(t)
  BY <1>3, <1>7, ConcatProperties, PayloadOfConcat
<1>9. (Zeros(z) \o r) \o t = Zeros(z) \o (r \o t)
  BY <1>2, <1>3, <1>4, Associative, Zenon
<1>10. PayloadBytes((Zeros(z) \o r) \o t) = Nbytes(plans[k])
  BY <1>2, <1>3, <1>5, <1>7, <1>8
<1>. QED BY <1>1, <1>6, <1>8, <1>9, <1>10 DEF r, t

(* The rows of the current tensor from r on, and what is ahead of the      *)
(* bytes that are being written.                                           *)
RowsLeft(r) == RowBytes(begun, r, MaxOf(Current.rows - r, 0))

Ahead ==
  CASE at \in {"imatrix", "pad"} -> Contribution(begun, Len(out))
    [] at = "payload"            -> RowsLeft(0) \o Trailer(Current)
    [] at = "chunk"              -> RowsLeft(row) \o Trailer(Current)
    [] at = "written"            -> Trailer(Current)
    [] OTHER                     -> <<>>

PiecesAreSeqs ==
  /\ out \in Seq(Byte)
  /\ unwritten \in Seq(Byte)
  /\ wanted \in Seq(Byte)
  /\ pad \in Nat

(* Between calls of the functions that write. *)
Idle == {"map", "plan", "imatrix", "pad", "returned"}

(* Whatever has been written, is being written and is still ahead make up  *)
(* what the plans ask for.                                                 *)
OutputInv ==
  /\ PiecesAreSeqs
  /\ at \in Idle => WritesAreDone
  /\ at # "failed" => wanted = out \o Rest(unwritten, pad, Ahead)
  /\ at = "failed" => \E rest \in Seq(Byte) : wanted = out \o rest

LEMMA AheadIsSeq ==
  ASSUME IInv, PiecesAreSeqs
  PROVE  /\ Ahead \in Seq(Byte)
         /\ Rest(unwritten, pad, Ahead) \in Seq(Byte)
         /\ at \in Busy => begun \in 1 .. Len(plans) /\ Current = plans[begun]
<1>1. plans \in Seq(Plans) /\ row \in Nat /\ begun \in Nat
  BY DEF IInv
<1>2. at \in Busy => begun \in 1 .. Len(plans) /\ Current = plans[begun]
  BY <1>1 DEF IInv, Current
<1>3. Len(out) \in Nat
  BY LenProperties DEF PiecesAreSeqs
<1>4. ASSUME at \in Busy
      PROVE  Ahead \in Seq(Byte)
  <2>1. begun \in 1 .. Len(plans) /\ Current = plans[begun]
    BY <1>2, <1>4
  <2>2. Contribution(begun, Len(out)) \in Seq(Byte)
    BY <1>1, <1>3, <2>1, ContributionFacts
  <2>3. /\ Trailer(Current) \in Seq(Byte) /\ Current.rows \in Nat
        /\ \A r, c \in Nat : RowBytes(begun, r, c) \in Seq(Byte)
    BY <1>1, <2>1, TensorFacts
  <2>4. ASSUME NEW r \in Nat
        PROVE  RowsLeft(r) \o Trailer(Current) \in Seq(Byte)
    <3>1. MaxOf(Current.rows - r, 0) \in Nat
      <4>1. PICK c \in Nat : c = Current.rows
        BY <2>3
      <4>2. MaxOf(c - r, 0) \in Nat
        BY DEF MaxOf
      <4>. QED BY <4>1, <4>2
    <3>2. RowsLeft(r) \in Seq(Byte)
      BY <2>3, <3>1 DEF RowsLeft
    <3>. QED BY <2>3, <3>2, ConcatProperties
  <2>5. RowsLeft(0) \o Trailer(Current) \in Seq(Byte)
    BY <2>4
  <2>6. RowsLeft(row) \o Trailer(Current) \in Seq(Byte)
    BY <1>1, <2>4
  <2>. QED BY <2>2, <2>3, <2>5, <2>6, EmptyFacts DEF Ahead
<1>5. ASSUME at \notin Busy
      PROVE  Ahead = <<>>
  BY <1>5 DEF Ahead, Busy
<1>6. Ahead \in Seq(Byte)
  BY <1>4, <1>5, EmptyFacts
<1>. QED BY <1>2, <1>6, RestIsSeq DEF PiecesAreSeqs

LEMMA InitOutput == Init => OutputInv
<1>. SUFFICES ASSUME Init PROVE OutputInv
  OBVIOUS
<1>1. PICK n \in Starts : out = Zeros(n)
  BY DEF Init
<1>2. n \in Nat
  BY PayloadAssumption
<1>3. out \in Seq(Byte) /\ wanted = out /\ unwritten = <<>> /\ pad = 0 /\ at = "map"
  BY <1>1, <1>2, ZeroFacts DEF Init
<1>4. PiecesAreSeqs
  BY <1>3, EmptyFacts DEF PiecesAreSeqs
<1>5. Ahead = <<>>
  BY <1>3 DEF Ahead
<1>6. Rest(<<>>, 0, <<>>) = <<>>
  BY EmptyFacts, RestAhead
<1>7. out \o <<>> = out
  BY <1>3, EmptyFacts
<1>8. wanted = out \o Rest(unwritten, pad, Ahead)
  BY <1>3, <1>5, <1>6, <1>7
<1>. QED BY <1>3, <1>4, <1>8 DEF OutputInv, WritesAreDone

(* A step that writes nothing and leaves the same bytes ahead. *)
LEMMA OutputKept ==
  ASSUME OutputInv, UNCHANGED <<out, unwritten, pad, wanted>>,
         at' # "failed", Ahead' = Ahead, at # "failed",
         at' \in Idle => WritesAreDone
  PROVE  OutputInv'
<1>1. PiecesAreSeqs' /\ (at' \in Idle => WritesAreDone')
  BY DEF OutputInv, PiecesAreSeqs, WritesAreDone
<1>2. wanted = out \o Rest(unwritten, pad, Ahead)
  BY DEF OutputInv
<1>3. wanted' = out' \o Rest(unwritten', pad', Ahead')
  BY <1>2
<1>. QED BY <1>1, <1>3 DEF OutputInv

(* A step that gives up. *)
LEMMA OutputFailed ==
  ASSUME IInv, OutputInv, UNCHANGED <<out, unwritten, pad, wanted>>, at' = "failed"
  PROVE  OutputInv'
<1>1. PiecesAreSeqs' /\ at' \notin Idle
  BY DEF OutputInv, PiecesAreSeqs, Idle
<1>2. PICK rest \in Seq(Byte) : wanted = out \o rest
  <2>1. CASE at = "failed"
    BY <2>1 DEF OutputInv
  <2>2. CASE at # "failed"
    BY <2>2, AheadIsSeq DEF OutputInv
  <2>. QED BY <2>1, <2>2
<1>3. wanted' = out' \o rest
  BY <1>2
<1>. QED BY <1>1, <1>3 DEF OutputInv

LEMMA NoRowsLeft ==
  ASSUME plans \in Seq(Plans), NEW k \in 1 .. Len(plans), NEW r \in Nat
  PROVE  RowBytes(k, r, 0) = <<>>
<1>1. k \in Nat /\ SizeIn(k) \in Nat \ {0}
  BY TensorFacts
<1>2. PICK z \in Nat : z = 0
  OBVIOUS
<1>3. AreRows(RowBytes(k, r, z), k, r, z)
  BY <1>1, RowBytesFacts
<1>4. SizeOf(k, z) = 0
  BY <1>1, <1>2 DEF SizeOf
<1>5. RowBytes(k, r, z) \in Seq(Byte) /\ Len(RowBytes(k, r, z)) = 0
  BY <1>3, <1>4 DEF AreRows
<1>6. RowBytes(k, r, z) = <<>>
  BY <1>5, EmptySeq
<1>. QED BY <1>2, <1>6

LEMMA QuietSteps ==
  ASSUME IInv, OutputInv,
         \/ Map \/ SumRows \/ EndSum \/ PrepareChunks \/ EndChunks \/ EndPlan \/ Return
         \/ UNCHANGED vars
  PROVE  OutputInv'
<1>. USE DEF call, rowVars, writeVars
<1>1. CASE Map \/ Return \/ EndPlan
  <2>1. /\ UNCHANGED <<out, unwritten, pad, wanted>> /\ at # "failed" /\ at' # "failed"
        /\ Ahead = <<>> /\ Ahead' = <<>>
    BY <1>1 DEF Map, Return, EndPlan, Ahead
  <2>2. WritesAreDone
    BY <1>1 DEF Map, Return, EndPlan, OutputInv, Idle
  <2>. QED BY <2>1, <2>2, OutputKept
<1>2. CASE SumRows \/ EndSum
  <2>1. /\ UNCHANGED <<out, unwritten, pad, wanted, plans, begun>>
        /\ at \in {"imatrix", "pad"} /\ at' \in {"imatrix", "pad"}
    BY <1>2 DEF SumRows, EndSum
  <2>2. Ahead' = Ahead
    BY <2>1 DEF Ahead, Contribution, RowBytes
  <2>3. WritesAreDone
    BY <2>1 DEF OutputInv, Idle
  <2>. QED BY <2>1, <2>2, <2>3, OutputKept
<1>3. CASE PrepareChunks
  <2>1. /\ UNCHANGED <<out, unwritten, pad, wanted, plans, begun>>
        /\ at = "payload" /\ at' = "chunk" /\ row' = 0
    BY <1>3 DEF PrepareChunks
  <2>2. Ahead' = Ahead
    BY <2>1 DEF Ahead, RowsLeft, Trailer, RowBytes, Current
  <2>. QED BY <2>1, <2>2, OutputKept DEF Idle
<1>4. CASE EndChunks
  <2>1. /\ UNCHANGED <<out, unwritten, pad, wanted, plans, begun>>
        /\ at = "chunk" /\ at' = "written" /\ row >= Current.rows
    BY <1>4 DEF EndChunks
  <2>2. /\ begun \in 1 .. Len(plans) /\ Current = plans[begun] /\ plans \in Seq(Plans)
        /\ row \in Nat
    BY <2>1, AheadIsSeq DEF Busy, IInv, OutputInv
  <2>3. Current.rows \in Nat /\ Trailer(Current) \in Seq(Byte)
    BY <2>2, TensorFacts
  <2>4. MaxOf(Current.rows - row, 0) = 0
    BY <2>1, <2>2, <2>3 DEF MaxOf
  <2>5. RowsLeft(row) = <<>>
    BY <2>2, <2>4, NoRowsLeft DEF RowsLeft
  <2>6. Ahead = Trailer(Current)
    BY <2>1, <2>3, <2>5, EmptyFacts DEF Ahead
  <2>7. Ahead' = Trailer(Current)
    BY <2>1 DEF Ahead, Trailer, Current
  <2>. QED BY <2>1, <2>6, <2>7, OutputKept DEF Idle
<1>5. CASE UNCHANGED vars
  <2>1. UNCHANGED <<out, unwritten, pad, wanted, plans, begun, row, at>>
    BY <1>5 DEF vars
  <2>2. Ahead' = Ahead
    BY <2>1 DEF Ahead, RowsLeft, Trailer, RowBytes, Current, Contribution
  <2>3. CASE at = "failed"
    BY <2>1, <2>3, OutputFailed
  <2>4. CASE at # "failed"
    BY <2>1, <2>2, <2>4, OutputKept DEF OutputInv
  <2>. QED BY <2>3, <2>4
<1>. QED BY <1>1, <1>2, <1>3, <1>4, <1>5

LEMMA BeginStep ==
  ASSUME IInv, OutputInv, BeginPlan
  PROVE  OutputInv'
<1>. USE DEF call, rowVars, writeVars
<1>1. /\ at = "plan" /\ at' \in {"imatrix", "pad"}
      /\ UNCHANGED <<out, unwritten, pad, plans>>
      /\ begun' = begun + 1 /\ begun < Len(plans)
      /\ wanted' = wanted \o Contribution(begun + 1, Len(wanted))
  BY DEF BeginPlan
<1>2. WritesAreDone /\ PiecesAreSeqs
  BY <1>1 DEF OutputInv, Idle
<1>3. wanted = out
  <2>1. Ahead = <<>>
    BY <1>1 DEF Ahead
  <2>2. Rest(<<>>, 0, <<>>) = <<>>
    BY EmptyFacts, RestAhead
  <2>3. wanted = out \o <<>>
    BY <1>1, <1>2, <2>1, <2>2 DEF OutputInv, WritesAreDone
  <2>. QED BY <1>2, <2>3, EmptyFacts DEF PiecesAreSeqs
<1>. DEFINE c == Contribution(begun + 1, Len(out))
<1>4. begun + 1 \in 1 .. Len(plans) /\ plans \in Seq(Plans) /\ Len(out) \in Nat
  <2>1. Len(plans) \in Nat /\ begun \in 0 .. Len(plans)
    BY LenProperties DEF IInv
  <2>2. Len(out) \in Nat
    BY <1>2, LenProperties DEF PiecesAreSeqs
  <2>. QED BY <1>1, <2>1, <2>2 DEF IInv
<1>5. c \in Seq(Byte)
  BY <1>4, ContributionFacts
<1>6. Ahead' = c
  BY <1>1 DEF Ahead, Contribution, RowBytes
<1>7. wanted' = out \o c
  BY <1>1, <1>3
<1>. HIDE DEF c
<1>8. Rest(<<>>, 0, c) = c
  BY <1>5, RestAhead, EmptyFacts
<1>9. wanted' \in Seq(Byte)
  BY <1>2, <1>5, <1>7, ConcatProperties DEF PiecesAreSeqs
<1>10. PiecesAreSeqs' /\ WritesAreDone'
  BY <1>1, <1>2, <1>9 DEF PiecesAreSeqs, WritesAreDone
<1>11. wanted' = out' \o Rest(unwritten', pad', Ahead')
  BY <1>1, <1>2, <1>6, <1>7, <1>8 DEF WritesAreDone
<1>. QED BY <1>1, <1>10, <1>11 DEF OutputInv

LEMMA PadBeforeStep ==
  ASSUME IInv, OutputInv, PadBefore
  PROVE  OutputInv'
<1>. USE DEF call, rowVars, writeVars
<1>1. /\ at = "pad" /\ at' = "payload"
      /\ UNCHANGED <<out, unwritten, plans, begun, wanted>>
      /\ pad' = PadTo(Len(out)) - Len(out)
  BY DEF PadBefore
<1>2. WritesAreDone /\ PiecesAreSeqs /\ Ahead \in Seq(Byte)
  BY <1>1, AheadIsSeq DEF OutputInv, Idle
<1>3. plans \in Seq(Plans) /\ begun \in 1 .. Len(plans) /\ Current = plans[begun]
  BY <1>1, AheadIsSeq DEF IInv, OutputInv, Busy
<1>4. Len(out) \in Nat
  BY <1>2, LenProperties DEF PiecesAreSeqs
<1>. DEFINE r == RowBytes(begun, 0, Current.rows)
            t == Trailer(Current)
<1>5. pad' \in Nat /\ Ahead = Zeros(pad') \o (r \o t)
  <2>1. Ahead = Contribution(begun, Len(out))
    BY <1>1 DEF Ahead
  <2>. QED BY <1>1, <1>3, <1>4, <2>1, ContributionFacts
<1>6. r \o t \in Seq(Byte)
  <2>1. PICK z \in Nat : z = 0
    OBVIOUS
  <2>2. PICK n \in Nat : n = Current.rows
    BY <1>3, TensorFacts
  <2>3. RowBytes(begun, z, n) \in Seq(Byte) /\ t \in Seq(Byte)
    BY <1>3, TensorFacts
  <2>. QED BY <2>1, <2>2, <2>3, ConcatProperties
<1>7. Ahead' = r \o t
  <2>1. Current.rows \in Nat
    BY <1>3, TensorFacts
  <2>2. MaxOf(Current.rows - 0, 0) = Current.rows
    BY <2>1 DEF MaxOf
  <2>3. RowsLeft(0) = r
    BY <2>2 DEF RowsLeft
  <2>4. Ahead' = RowsLeft(0) \o t
    BY <1>1 DEF Ahead, RowsLeft, RowBytes, Trailer, Current
  <2>. QED BY <2>3, <2>4
<1>. HIDE DEF r, t
<1>8. Rest(unwritten', pad', Ahead') = Ahead
  <2>1. unwritten' = <<>>
    BY <1>1, <1>2 DEF WritesAreDone
  <2>2. Rest(<<>>, pad', Ahead') = Zeros(pad') \o Ahead'
    BY <1>5, <1>6, <1>7, RestAhead, EmptyFacts
  <2>. QED BY <1>5, <1>7, <2>1, <2>2
<1>9. wanted = out \o Ahead
  <2>1. Rest(<<>>, 0, Ahead) = Ahead
    BY <1>2, RestAhead, EmptyFacts
  <2>. QED BY <1>1, <1>2, <2>1 DEF OutputInv, WritesAreDone
<1>10. PiecesAreSeqs'
  BY <1>1, <1>2, <1>5 DEF PiecesAreSeqs
<1>11. wanted' = out' \o Rest(unwritten', pad', Ahead')
  BY <1>1, <1>8, <1>9
<1>. QED BY <1>1, <1>10, <1>11 DEF OutputInv, Idle

(* A step that hands u over when nothing is being written. *)
LEMMA HandOver ==
  ASSUME IInv, OutputInv, WritesAreDone, at \in Busy, NEW u \in Seq(Byte),
         unwritten' = u, UNCHANGED <<out, pad, wanted>>,
         at' \in Busy, at' \notin Idle, Ahead' \in Seq(Byte), Ahead = u \o Ahead'
  PROVE  OutputInv'
<1>1. PiecesAreSeqs /\ Ahead \in Seq(Byte)
  BY AheadIsSeq DEF OutputInv
<1>2. at # "failed" /\ at' # "failed"
  BY DEF Busy
<1>3. wanted = out \o Ahead
  <2>1. Rest(<<>>, 0, Ahead) = Ahead
    BY <1>1, RestAhead, EmptyFacts
  <2>. QED BY <1>2, <2>1 DEF OutputInv, WritesAreDone
<1>4. Rest(u, 0, Ahead') = u \o Ahead'
  BY RestAhead
<1>5. unwritten' = u /\ pad' = 0 /\ out' = out /\ wanted' = wanted
  BY DEF WritesAreDone
<1>6. wanted' = out' \o Rest(unwritten', pad', Ahead')
  BY <1>3, <1>4, <1>5
<1>7. PiecesAreSeqs'
  BY <1>1 DEF PiecesAreSeqs
<1>. QED BY <1>2, <1>6, <1>7 DEF OutputInv

LEMMA CopyStep ==
  ASSUME IInv, OutputInv, CopyPayload
  PROVE  OutputInv'
<1>. USE DEF call, rowVars, writeVars
<1>. DEFINE r == RowBytes(begun, 0, Current.rows)
<1>1. /\ at = "payload" /\ at' = "written" /\ WritesAreDone
      /\ UNCHANGED <<out, pad, plans, begun, wanted>>
      /\ unwritten' = r
  BY DEF CopyPayload
<1>2. plans \in Seq(Plans) /\ begun \in 1 .. Len(plans) /\ Current = plans[begun]
  BY <1>1, AheadIsSeq DEF IInv, OutputInv, Busy
<1>3. PICK n \in Nat, z \in Nat : n = Current.rows /\ z = 0
  <2>1. PICK n \in Nat : n = Current.rows
    BY <1>2, TensorFacts
  <2>2. PICK z \in Nat : z = 0
    OBVIOUS
  <2>. QED BY <2>1, <2>2
<1>4. r \in Seq(Byte) /\ Trailer(Current) \in Seq(Byte)
  <2>1. RowBytes(begun, z, n) \in Seq(Byte) /\ Trailer(Current) \in Seq(Byte)
    BY <1>2, TensorFacts
  <2>. QED BY <1>3, <2>1
<1>5. Ahead' = Trailer(Current)
  BY <1>1 DEF Ahead, Trailer, Current
<1>6. Ahead = r \o Trailer(Current)
  <2>1. MaxOf(Current.rows - 0, 0) = Current.rows
    BY <1>3 DEF MaxOf
  <2>. QED BY <1>1, <2>1 DEF Ahead, RowsLeft
<1>. HIDE DEF r
<1>. QED BY <1>1, <1>4, <1>5, <1>6, HandOver DEF Busy, Idle

(* A chunk of c rows, or less, is taken from the rows from r on. *)
ChunkIsTaken(k, n, r, c) ==
  /\ MinOf(c, n - r) \in Nat
  /\ RowBytes(k, r, MaxOf(n - r, 0))
       = RowBytes(k, r, MinOf(c, n - r)) \o RowBytes(k, r + c, MaxOf(n - (r + c), 0))

LEMMA ChunkOfRows ==
  ASSUME NEW k \in Nat, SizeIn(k) \in Nat \ {0}, NEW n \in Nat, NEW r \in Nat, r < n,
         NEW c \in Nat \ {0}
  PROVE  ChunkIsTaken(k, n, r, c)
<1>1. PICK l \in Nat : l = n - r
  <2>1. n - r \in Nat
    OBVIOUS
  <2>. QED BY <2>1
<1>2. MaxOf(l, 0) = l
  BY DEF MaxOf
<1>3. CASE c <= l
  <2>1. PICK d \in Nat : l = c + d /\ d = n - (r + c)
    <3>1. l - c \in Nat /\ l = c + (l - c) /\ l - c = n - (r + c)
      BY <1>1, <1>3
    <3>. QED BY <3>1
  <2>2. MinOf(c, l) = c /\ MaxOf(d, 0) = d
    BY <1>3 DEF MinOf, MaxOf
  <2>3. RowBytes(k, r, l) = RowBytes(k, r, c) \o RowBytes(k, r + c, d)
    <3>1. c \in Nat
      OBVIOUS
    <3>2. RowsAreSplit(k, r, c, d)
      BY <3>1, RowBytesSplit
    <3>. QED BY <2>1, <3>2 DEF RowsAreSplit
  <2>. QED BY <1>1, <1>2, <2>1, <2>2, <2>3 DEF ChunkIsTaken
<1>4. CASE ~ (c <= l)
  <2>1. MinOf(c, l) = l
    BY <1>4 DEF MinOf
  <2>2. MaxOf(n - (r + c), 0) = 0
    BY <1>1, <1>4 DEF MaxOf
  <2>3. PICK z \in Nat, e \in Nat : z = 0 /\ e = r + c
    <3>1. PICK z \in Nat : z = 0
      OBVIOUS
    <3>2. PICK e \in Nat : e = r + c
      OBVIOUS
    <3>. QED BY <3>1, <3>2
  <2>4. RowBytes(k, e, z) = <<>>
    <3>1. AreRows(RowBytes(k, e, z), k, e, z)
      BY RowBytesFacts
    <3>2. SizeOf(k, z) = 0
      BY <2>3 DEF SizeOf
    <3>. QED BY <3>1, <3>2, EmptySeq DEF AreRows
  <2>5. RowBytes(k, r, l) \o <<>> = RowBytes(k, r, l)
    <3>1. RowBytes(k, r, l) \in Seq(Byte)
      <4>1. AreRows(RowBytes(k, r, l), k, r, l)
        BY RowBytesFacts
      <4>. QED BY <4>1 DEF AreRows
    <3>. QED BY <3>1, EmptyFacts
  <2>. QED BY <1>1, <1>2, <2>1, <2>2, <2>3, <2>4, <2>5 DEF ChunkIsTaken
<1>. QED BY <1>3, <1>4

LEMMA EncodeStep ==
  ASSUME IInv, OutputInv, EncodeChunk
  PROVE  OutputInv'
<1>. USE DEF call, rowVars, writeVars
<1>. DEFINE u == RowBytes(begun, row, ChunkRows(Current))
            c == RowsPerChunk(Current)
<1>1. /\ at = "chunk" /\ at' = "chunk" /\ WritesAreDone /\ row < Current.rows
      /\ UNCHANGED <<out, pad, plans, begun, wanted>>
      /\ unwritten' = u /\ row' = row + c
  BY DEF EncodeChunk
<1>2. /\ plans \in Seq(Plans) /\ begun \in 1 .. Len(plans) /\ Current = plans[begun]
      /\ row \in Nat
  BY <1>1, AheadIsSeq DEF IInv, OutputInv, Busy
<1>3. /\ begun \in Nat /\ SizeIn(begun) \in Nat \ {0} /\ Current.rows \in Nat
      /\ Current \in Plans /\ Trailer(Current) \in Seq(Byte)
      /\ \A x, y \in Nat : RowBytes(begun, x, y) \in Seq(Byte)
  BY <1>2, TensorFacts
<1>4. c \in Nat \ {0}
  BY <1>3, PlanFacts, ChunkFacts DEF RowsPerChunk
<1>. DEFINE left == RowBytes(begun, row + c, MaxOf(Current.rows - (row + c), 0))
<1>5. ChunkRows(Current) \in Nat /\ RowsLeft(row) = u \o left
  <2>1. PICK n \in Nat, d \in Nat \ {0} : n = Current.rows /\ d = c
    <3>1. PICK n \in Nat : n = Current.rows
      BY <1>3
    <3>. QED BY <1>4, <3>1
  <2>2. row < n
    BY <1>1, <2>1
  <2>3. /\ MinOf(d, n - row) \in Nat
        /\ RowBytes(begun, row, MaxOf(n - row, 0))
             = RowBytes(begun, row, MinOf(d, n - row))
                 \o RowBytes(begun, row + d, MaxOf(n - (row + d), 0))
    <3>1. ChunkIsTaken(begun, n, row, d)
      BY <1>2, <1>3, <2>2, ChunkOfRows
    <3>. QED BY <3>1 DEF ChunkIsTaken
  <2>4. ChunkRows(Current) = MinOf(d, n - row)
    BY <2>1 DEF ChunkRows
  <2>. QED BY <2>1, <2>3, <2>4 DEF RowsLeft
<1>6. u \in Seq(Byte)
  BY <1>2, <1>3, <1>5
<1>7. left \in Seq(Byte)
  <2>1. PICK n \in Nat : n = row + c
    BY <1>2, <1>4
  <2>2. MaxOf(Current.rows - n, 0) \in Nat
    <3>1. PICK m \in Nat : m = Current.rows
      BY <1>3
    <3>2. MaxOf(m - n, 0) \in Nat
      BY DEF MaxOf
    <3>. QED BY <3>1, <3>2
  <2>. QED BY <1>3, <2>1, <2>2
<1>8. Ahead' = left \o Trailer(Current)
  BY <1>1 DEF Ahead, RowsLeft, RowBytes, Trailer, Current
<1>9. Ahead = (u \o left) \o Trailer(Current)
  BY <1>1, <1>5 DEF Ahead
<1>. HIDE DEF u, left, c
<1>10. Ahead = u \o Ahead'
  <2>1. (u \o left) \o Trailer(Current) = u \o (left \o Trailer(Current))
    BY <1>3, <1>6, <1>7, Associative, Zenon
  <2>. QED BY <1>8, <1>9, <2>1
<1>11. Ahead' \in Seq(Byte)
  BY <1>3, <1>7, <1>8, ConcatProperties
<1>. QED BY <1>1, <1>6, <1>10, <1>11, HandOver DEF Busy, Idle

LEMMA PadAfterStep ==
  ASSUME IInv, OutputInv, PadAfter
  PROVE  OutputInv'
<1>. USE DEF call, rowVars, writeVars
<1>1. /\ at = "written" /\ at' = "padded" /\ WritesAreDone
      /\ UNCHANGED <<out, unwritten, wanted>>
      /\ pad' = PadTo(Nbytes(Current)) - Nbytes(Current)
  BY DEF PadAfter
<1>2. plans \in Seq(Plans) /\ begun \in 1 .. Len(plans) /\ Current = plans[begun]
  BY <1>1, AheadIsSeq DEF IInv, OutputInv, Busy
<1>3. pad' \in Nat /\ PiecesAreSeqs
  BY <1>1, <1>2, TensorFacts DEF OutputInv
<1>4. Ahead = Zeros(pad') /\ Zeros(pad') \in Seq(Byte)
  BY <1>1, <1>3, ZeroFacts DEF Ahead, Trailer
<1>5. wanted = out \o Zeros(pad')
  <2>1. Rest(<<>>, 0, Ahead) = Ahead
    BY <1>4, RestAhead, EmptyFacts
  <2>. QED BY <1>1, <1>4, <2>1 DEF OutputInv, WritesAreDone
<1>6. Rest(<<>>, pad', <<>>) = Zeros(pad')
  <2>1. Rest(<<>>, pad', <<>>) = Zeros(pad') \o <<>>
    BY <1>3, RestAhead, EmptyFacts
  <2>. QED BY <1>4, <2>1, EmptyFacts
<1>7. Ahead' = <<>> /\ unwritten' = <<>>
  BY <1>1 DEF Ahead, WritesAreDone
<1>8. wanted' = out' \o Rest(unwritten', pad', Ahead')
  BY <1>1, <1>5, <1>6, <1>7
<1>9. PiecesAreSeqs'
  BY <1>1, <1>3 DEF PiecesAreSeqs
<1>. QED BY <1>1, <1>8, <1>9 DEF OutputInv, Idle

LEMMA WriteZerosStep ==
  ASSUME IInv, OutputInv, WriteZeros
  PROVE  OutputInv'
<1>. USE DEF call, rowVars, writeVars
<1>. DEFINE m == MinOf(pad, ZeroBlock)
<1>1. /\ at # "failed" /\ unwritten = <<>> /\ pad > 0
      /\ unwritten' = Zeros(m) /\ pad' = pad - m
      /\ UNCHANGED <<at, out, plans, begun, row, wanted>>
  BY DEF WriteZeros
<1>2. PiecesAreSeqs /\ Ahead \in Seq(Byte)
  BY AheadIsSeq DEF OutputInv
<1>3. m \in 0 .. pad /\ pad \in Nat
  BY <1>2, PayloadAssumption DEF PiecesAreSeqs, MinOf
<1>. HIDE DEF m
<1>4. Ahead' = Ahead
  BY <1>1 DEF Ahead, RowsLeft, Trailer, RowBytes, Current, Contribution
<1>5. Rest(Zeros(m), pad - m, Ahead) = Rest(<<>>, pad, Ahead)
  BY <1>2, <1>3, RestOfZeros
<1>6. wanted = out \o Rest(<<>>, pad, Ahead)
  BY <1>1 DEF OutputInv
<1>7. wanted' = out' \o Rest(unwritten', pad', Ahead')
  BY <1>1, <1>4, <1>5, <1>6
<1>8. m \in Nat /\ pad' \in Nat
  BY <1>1, <1>3
<1>9. PiecesAreSeqs'
  BY <1>1, <1>2, <1>8, ZeroFacts DEF PiecesAreSeqs
<1>10. at' \notin Idle
  BY <1>1, <1>3 DEF OutputInv, WritesAreDone
<1>. QED BY <1>1, <1>7, <1>9, <1>10 DEF OutputInv

LEMMA WriteSomeStep ==
  ASSUME IInv, OutputInv, WriteSome
  PROVE  OutputInv'
<1>. USE DEF call, rowVars, writeVars
<1>1. PICK n \in 1 .. Len(unwritten) :
        out' = out \o SubSeq(unwritten, 1, n) /\ unwritten' = RestAfter(n)
  BY DEF WriteSome
<1>2. unwritten' = SubSeq(unwritten, n + 1, Len(unwritten))
  BY <1>1 DEF RestAfter
<1>3. at # "failed" /\ UNCHANGED <<at, pad, plans, begun, row, wanted>>
  BY DEF WriteSome
<1>4. PiecesAreSeqs /\ Ahead \in Seq(Byte)
  BY AheadIsSeq DEF OutputInv
<1>5. at \notin Idle
  <2>1. Len(<<>>) = 0
    BY EmptySeq
  <2>2. unwritten # <<>>
    BY <1>1, <2>1
  <2>. QED BY <2>2 DEF OutputInv, WritesAreDone
<1>6. Ahead' = Ahead
  BY <1>3, <1>5 DEF Ahead, RowsLeft, Trailer, RowBytes, Current, Idle
<1>7. /\ unwritten' \in Seq(Byte)
      /\ out' \in Seq(Byte)
      /\ out' \o Rest(unwritten', pad, Ahead) = out \o Rest(unwritten, pad, Ahead)
  <2>1. WriteKeepsRest(out, unwritten, pad, Ahead, n)
    BY <1>4, RestAfterWrite DEF PiecesAreSeqs
  <2>. QED BY <1>1, <1>2, <2>1 DEF WriteKeepsRest
<1>8. wanted = out \o Rest(unwritten, pad, Ahead)
  BY <1>3 DEF OutputInv
<1>9. wanted' = out' \o Rest(unwritten', pad', Ahead')
  BY <1>1, <1>2, <1>3, <1>6, <1>7, <1>8
<1>10. PiecesAreSeqs'
  BY <1>1, <1>2, <1>3, <1>4, <1>7 DEF PiecesAreSeqs
<1>. QED BY <1>3, <1>5, <1>9, <1>10 DEF OutputInv

LEMMA StepOutput == IInv /\ OutputInv /\ [Next]_vars => OutputInv'
<1>. SUFFICES ASSUME IInv, OutputInv, [Next]_vars PROVE OutputInv'
  OBVIOUS
<1>1. CASE RejectPlan \/ Fail
  <2>1. UNCHANGED <<out, unwritten, pad, wanted>> /\ at' = "failed"
    BY <1>1 DEF RejectPlan, Fail, writeVars
  <2>. QED BY <2>1, OutputFailed
<1>. QED BY <1>1, QuietSteps, BeginStep, PadBeforeStep, CopyStep, EncodeStep, PadAfterStep,
            WriteZerosStep, WriteSomeStep DEF Next, Step

-----------------------------------------------------------------------------
(* What has been reported, with the tensor at work, is what was asked for. *)
ReportInv ==
  /\ reported \in Nat
  /\ at \in {"map", "plan", "returned"} => reported = PayloadBytes(wanted)
  /\ at \in Busy => PayloadBytes(wanted) = reported + Nbytes(Current)

LEMMA InitReport == Init => ReportInv
<1>. SUFFICES ASSUME Init PROVE ReportInv
  OBVIOUS
<1>1. PICK n \in Starts : wanted = Zeros(n)
  BY DEF Init
<1>2. PayloadBytes(wanted) = 0
  BY <1>1, PayloadAssumption, PayloadOfZeros
<1>. QED BY <1>2 DEF Init, ReportInv, Busy

LEMMA StepReport == IInv /\ OutputInv /\ ReportInv /\ [Next]_vars => ReportInv'
<1>. SUFFICES ASSUME IInv, OutputInv, ReportInv, [Next]_vars PROVE ReportInv'
  OBVIOUS
<1>. USE DEF call, rowVars, writeVars
<1>1. ASSUME UNCHANGED <<reported, wanted, plans, begun>>,
             at' \in Busy => at \in Busy,
             at' \in {"map", "plan", "returned"} => at \in {"map", "plan", "returned"}
      PROVE  ReportInv'
  <2>1. PayloadBytes(wanted)' = PayloadBytes(wanted) /\ Nbytes(Current)' = Nbytes(Current)
    BY <1>1 DEF PayloadBytes, Nbytes, Current
  <2>. QED BY <1>1, <2>1 DEF ReportInv
<1>2. CASE BeginPlan
  <2>1. /\ at = "plan" /\ at' \in {"imatrix", "pad"} /\ UNCHANGED <<plans, reported>>
        /\ begun' = begun + 1 /\ begun < Len(plans)
        /\ wanted' = wanted \o Contribution(begun + 1, Len(wanted))
    BY <1>2 DEF BeginPlan
  <2>2. /\ begun + 1 \in 1 .. Len(plans) /\ plans \in Seq(Plans)
        /\ wanted \in Seq(Byte) /\ Len(wanted) \in Nat
    <3>1. wanted \in Seq(Byte) /\ Len(wanted) \in Nat
      BY LenProperties DEF OutputInv, PiecesAreSeqs
    <3>2. Len(plans) \in Nat /\ begun \in 0 .. Len(plans) /\ plans \in Seq(Plans)
      BY LenProperties DEF IInv
    <3>. QED BY <2>1, <3>1, <3>2
  <2>. DEFINE c == Contribution(begun + 1, Len(wanted))
  <2>3. c \in Seq(Byte) /\ PayloadBytes(c) = Nbytes(plans[begun + 1])
    BY <2>2, ContributionFacts
  <2>. HIDE DEF c
  <2>4. PayloadBytes(wanted \o c) = PayloadBytes(wanted) + PayloadBytes(c)
    BY <2>2, <2>3, PayloadOfConcat
  <2>5. PayloadBytes(wanted)' = PayloadBytes(wanted \o c)
    BY <2>1 DEF PayloadBytes, c
  <2>6. Nbytes(Current)' = Nbytes(plans[begun + 1])
    BY <2>1 DEF Nbytes, Current
  <2>7. reported = PayloadBytes(wanted) /\ reported \in Nat
    BY <2>1 DEF ReportInv
  <2>8. PayloadBytes(wanted)' = reported' + Nbytes(Current)'
    BY <2>1, <2>3, <2>4, <2>5, <2>6, <2>7
  <2>. QED BY <2>1, <2>7, <2>8 DEF ReportInv
<1>3. CASE EndPlan
  <2>1. /\ at = "padded" /\ at' = "plan" /\ reported' = reported + Nbytes(Current)
        /\ wanted' = wanted
    BY <1>3 DEF EndPlan, Counted
  <2>2. plans \in Seq(Plans) /\ begun \in 1 .. Len(plans) /\ Current = plans[begun]
    BY <2>1, AheadIsSeq DEF IInv, OutputInv, Busy
  <2>3. Nbytes(Current) \in Nat
    BY <2>2, TensorFacts
  <2>4. reported \in Nat /\ PayloadBytes(wanted) = reported + Nbytes(Current)
    BY <2>1 DEF ReportInv, Busy
  <2>5. PayloadBytes(wanted)' = PayloadBytes(wanted)
    BY <2>1 DEF PayloadBytes
  <2>. QED BY <2>1, <2>3, <2>4, <2>5 DEF ReportInv, Busy
<1>4. CASE Map \/ RejectPlan \/ SumRows \/ EndSum \/ PadBefore \/ CopyPayload
  BY <1>1, <1>4 DEF Map, RejectPlan, SumRows, EndSum, PadBefore, CopyPayload, Busy
<1>5. CASE PrepareChunks \/ EncodeChunk \/ EndChunks \/ PadAfter \/ Return
  BY <1>1, <1>5 DEF PrepareChunks, EncodeChunk, EndChunks, PadAfter, Return, Busy
<1>6. CASE WriteZeros \/ WriteSome
  BY <1>1, <1>6 DEF WriteZeros, WriteSome
<1>7. CASE Fail
  BY <1>1, <1>7 DEF Fail, Busy
<1>8. CASE UNCHANGED vars
  BY <1>1, <1>8 DEF vars
<1>. QED BY <1>2, <1>3, <1>4, <1>5, <1>6, <1>7, <1>8 DEF Next, Step

LEMMA OutputHolds == Spec => [](IInv /\ OutputInv /\ ReportInv)
BY InitInvariant, StepInvariant, InitOutput, StepOutput, InitReport, StepReport, PTL DEF Spec

LEMMA InvariantGivesOutput == IInv /\ OutputInv /\ ReportInv => OutputIsAsReported
<1>. SUFFICES ASSUME IInv, OutputInv, ReportInv PROVE OutputIsAsReported
  OBVIOUS
<1>1. PiecesAreSeqs /\ Ahead \in Seq(Byte) /\ Rest(unwritten, pad, Ahead) \in Seq(Byte)
  BY AheadIsSeq DEF OutputInv
<1>2. PICK rest \in Seq(Byte) : wanted = out \o rest
  BY <1>1 DEF OutputInv
<1>3. Len(out) <= Len(wanted) /\ out = SubSeq(wanted, 1, Len(out))
  BY <1>1, <1>2, PrefixOfConcat DEF PiecesAreSeqs
<1>4. ASSUME at \in {"plan", "returned"}
      PROVE  out = wanted
  <2>1. Ahead = <<>> /\ WritesAreDone
    BY <1>4 DEF Ahead, OutputInv, Idle
  <2>2. Rest(<<>>, 0, <<>>) = <<>>
    BY EmptyFacts, RestAhead
  <2>3. wanted = out \o <<>>
    BY <1>4, <2>1, <2>2 DEF OutputInv, WritesAreDone
  <2>. QED BY <1>1, <2>3, EmptyFacts DEF PiecesAreSeqs
<1>5. OutputIsAsPlanned
  BY <1>3, <1>4 DEF OutputIsAsPlanned
<1>6. ReportIsTrue
  BY <1>4 DEF ReportInv, ReportIsTrue
<1>. QED BY <1>5, <1>6 DEF OutputIsAsReported

(* For every list of plans, every alignment and scratch memory, and        *)
(* however write() cuts the bytes up: what is written is at every moment a *)
(* beginning of what was asked for, is all of it when the call returns,    *)
(* and the number reported to Python is that of the bytes of payload.      *)
THEOREM OutputIsRight == Spec => []OutputIsAsReported
BY OutputHolds, InvariantGivesOutput, PTL

-----------------------------------------------------------------------------
IsSummed(p) == p.qtype \in NeedsImatrix /\ ~ p.given

(* The rows before the current one have been added once, and no other has. *)
ImatrixInv ==
  /\ at = "imatrix" =>
       sums = [r \in 0 .. Current.rows - 1 |-> IF r < row THEN 1 ELSE 0]
  /\ at \in {"pad", "payload", "chunk"} /\ IsSummed(Current) =>
       sums = [r \in 0 .. Current.rows - 1 |-> 1]

LEMMA StepImatrix == IInv /\ ImatrixInv /\ [Next]_vars => ImatrixInv'
<1>. SUFFICES ASSUME IInv, ImatrixInv, [Next]_vars PROVE ImatrixInv'
  OBVIOUS
<1>. USE DEF call, rowVars, writeVars
<1>1. ASSUME UNCHANGED <<sums, plans, begun>>,
             at' = "imatrix" => at = "imatrix" /\ row' = row,
             at' \in {"pad", "payload", "chunk"} => at \in {"pad", "payload", "chunk"}
      PROVE  ImatrixInv'
  BY <1>1 DEF ImatrixInv, Current, IsSummed
<1>2. CASE BeginPlan
  <2>1. /\ at' = IF IsSummed(NextPlan) THEN "imatrix" ELSE "pad"
        /\ sums' = IF IsSummed(NextPlan) THEN [r \in 0 .. NextPlan.rows - 1 |-> 0] ELSE <<>>
        /\ row' = 0
    BY <1>2 DEF BeginPlan, IsSummed
  <2>2. Current' = NextPlan
    BY <1>2 DEF BeginPlan, Current, NextPlan
  <2>3. [r \in 0 .. NextPlan.rows - 1 |-> 0]
          = [r \in 0 .. NextPlan.rows - 1 |-> IF r < 0 THEN 1 ELSE 0]
    OBVIOUS
  <2>4. IsSummed(Current)' = IsSummed(NextPlan)
    BY <2>2 DEF IsSummed
  <2>. QED BY <2>1, <2>2, <2>3, <2>4 DEF ImatrixInv
<1>3. CASE SumRows
  <2>. DEFINE n == RowsPerSum(Current)
  <2>1. /\ at = "imatrix" /\ at' = "imatrix" /\ Current' = Current /\ row' = row + n
        /\ sums' = [r \in DOMAIN sums |->
                     IF r \in row .. MinOf(row + n, Current.rows) - 1 THEN sums[r] + 1 ELSE sums[r]]
        /\ row < Current.rows
    BY <1>3 DEF SumRows, MoreToSum, Current
  <2>2. Current \in Plans /\ row \in Nat
    BY <2>1 DEF IInv, Busy, Current
  <2>3. n \in Nat /\ Current.rows \in Nat
    BY <2>2, PlanFacts, ChunkFacts DEF RowsPerSum
  <2>4. sums = [r \in 0 .. Current.rows - 1 |-> IF r < row THEN 1 ELSE 0]
    BY <2>1 DEF ImatrixInv
  <2>. HIDE DEF n
  <2>5. PICK m \in Nat : m = Current.rows
    BY <2>3
  <2>6. sums' = [r \in 0 .. m - 1 |-> IF r < row + n THEN 1 ELSE 0]
    <3>1. ASSUME NEW r \in 0 .. m - 1
          PROVE  (IF r \in row .. MinOf(row + n, m) - 1 THEN sums[r] + 1 ELSE sums[r])
                   = IF r < row + n THEN 1 ELSE 0
      <4>1. sums[r] = IF r < row THEN 1 ELSE 0
        BY <2>4, <2>5
      <4>2. r \in row .. MinOf(row + n, m) - 1 <=> r >= row /\ r < row + n
        BY <2>2, <2>3 DEF MinOf
      <4>. QED BY <2>2, <2>3, <4>1, <4>2
    <3>2. DOMAIN sums = 0 .. m - 1
      BY <2>4, <2>5
    <3>. QED BY <2>1, <2>5, <3>1, <3>2
  <2>. QED BY <2>1, <2>5, <2>6 DEF ImatrixInv
<1>4. CASE EndSum
  <2>1. /\ at = "imatrix" /\ at' = "pad" /\ Current' = Current /\ sums' = sums
        /\ ~ (row < Current.rows)
    BY <1>4 DEF EndSum, MoreToSum, Current
  <2>2. Current \in Plans /\ row \in Nat
    BY <2>1 DEF IInv, Busy, Current
  <2>3. PICK m \in Nat : m = Current.rows
    BY <2>2, PlanFacts
  <2>4. sums = [r \in 0 .. m - 1 |-> IF r < row THEN 1 ELSE 0]
    BY <2>1, <2>3 DEF ImatrixInv
  <2>5. \A r \in 0 .. m - 1 : r < row
    BY <2>1, <2>2, <2>3
  <2>6. sums = [r \in 0 .. m - 1 |-> 1]
    BY <2>4, <2>5
  <2>. QED BY <2>1, <2>3, <2>6 DEF ImatrixInv
<1>5. CASE Map \/ RejectPlan \/ PadBefore \/ CopyPayload \/ PrepareChunks
  BY <1>1, <1>5 DEF Map, RejectPlan, PadBefore, CopyPayload, PrepareChunks
<1>6. CASE EncodeChunk \/ EndChunks \/ PadAfter \/ EndPlan \/ Return
  BY <1>1, <1>6 DEF EncodeChunk, EndChunks, PadAfter, EndPlan, Return
<1>7. CASE WriteZeros \/ WriteSome
  BY <1>1, <1>7 DEF WriteZeros, WriteSome
<1>8. CASE Fail
  BY <1>1, <1>8 DEF Fail
<1>9. CASE UNCHANGED vars
  BY <1>1, <1>9 DEF vars
<1>. QED BY <1>2, <1>3, <1>4, <1>5, <1>6, <1>7, <1>8, <1>9 DEF Next, Step

LEMMA ImatrixHolds == Spec => []ImatrixInv
<1>1. Init => ImatrixInv
  BY DEF Init, ImatrixInv
<1>. QED BY <1>1, InvariantHolds, StepImatrix, PTL DEF Spec

(* For every list of plans, every scratch memory and wherever a tensor     *)
(* lies in the source: an imatrix that is computed during the call has     *)
(* added every row exactly once when the tensor is encoded.                *)
THEOREM EveryRowIsSummedOnce == Spec => []ImatrixIsWhole
<1>1. ImatrixInv => ImatrixIsWhole
  BY DEF ImatrixInv, ImatrixIsWhole, IsSummed
<1>. QED BY <1>1, ImatrixHolds, PTL

-----------------------------------------------------------------------------
(* The stream of rows.  A function on the numbers up to the length of an   *)
(* output collects the rows that end in its first bytes. *)

Numbers == INSTANCE RowPartition_proofs

RowIn(byte) == IF EndsRow(plans, byte) THEN << <<byte[1], byte[2]>> >> ELSE <<>>

Line == Nat \X Nat

LEMMA LinesAssociative ==
  \A s, t, u \in Seq(Line) : (s \o t) \o u = s \o (t \o u)
BY ConcatAssociative

Collects(g, bytes) ==
  /\ g \in [0 .. Len(bytes) -> Seq(Line)]
  /\ g[0] = <<>>
  /\ \A i \in 1 .. Len(bytes) : g[i] = g[i - 1] \o RowIn(bytes[i])

LEMMA RowInFacts ==
  ASSUME NEW byte \in Byte
  PROVE  RowIn(byte) \in Seq(Line)
<1>1. <<byte[1], byte[2]>> \in Line
  BY DEF Byte, Line
<1>2. <<>> \in Seq(Line) /\ << <<byte[1], byte[2]>> >> \in Seq(Line)
  BY <1>1
<1>. QED BY <1>2 DEF RowIn

LEMMA RowsAreCollected ==
  ASSUME NEW s \in Seq(Byte)
  PROVE  \E g : Collects(g, s)
<1>1. PICK n \in Nat : n = Len(s) /\ \A i \in 1 .. n : s[i] \in Byte
  BY LenProperties
<1>. DEFINE S == Seq(Line)
            step == [x \in S \X (1 .. n) |-> x[1] \o RowIn(s[x[2]])]
<1>2. \A x \in S, i \in 1 .. n : x \o RowIn(s[i]) \in S
  <2>1. ASSUME NEW x \in Seq(Line), NEW y \in Seq(Line) PROVE x \o y \in Seq(Line)
    BY ConcatProperties
  <2>. QED BY <1>1, <2>1, RowInFacts
<1>3. step \in [S \X (1 .. n) -> S]
  BY <1>2
<1>4. \A x \in S, i \in 1 .. n : step[<<x, i>>] = x \o RowIn(s[i])
  OBVIOUS
<1>5. <<>> \in S
  OBVIOUS
<1>. HIDE DEF step, S
<1>6. PICK g : Numbers!Steps(g, n, S, <<>>, step)
  BY <1>3, <1>5, Numbers!RecursionUpTo
<1>7. g \in [0 .. n -> S] /\ g[0] = <<>> /\ \A i \in 1 .. n : g[i] = step[<<g[i - 1], i>>]
  BY <1>6 DEF Numbers!Steps
<1>8. \A i \in 1 .. n : i - 1 \in 0 .. n
  OBVIOUS
<1>9. \A i \in 1 .. n : g[i - 1] \in S
  BY <1>7, <1>8
<1>10. \A i \in 1 .. n : g[i] = g[i - 1] \o RowIn(s[i])
  BY <1>4, <1>7, <1>9
<1>11. g \in [0 .. n -> Seq(Line)]
  BY <1>7 DEF S
<1>. QED BY <1>1, <1>7, <1>10, <1>11 DEF Collects

(* What the refinement mapping reads off a beginning t of s. *)
LEMMA WholeRowsFacts ==
  ASSUME NEW s \in Seq(Byte), NEW g, Collects(g, s), NEW t \in Seq(Byte), Len(t) <= Len(s),
         \A i \in 1 .. Len(t) : t[i] = s[i]
  PROVE  RowsIn(plans, t) = g[Len(t)]
<1>1. PICK m \in Nat, n \in Nat : m = Len(t) /\ n = Len(s) /\ m <= n
  BY LenProperties
<1>. DEFINE Upto(h) ==
              h = [i \in 0 .. Len(t) |->
                     IF i = 0 THEN <<>>
                     ELSE h[i - 1] \o (IF EndsRow(plans, t[i]) THEN << <<t[i][1], t[i][2]>> >>
                                                               ELSE <<>>)]
            h == CHOOSE h : Upto(h)
            r == [i \in 0 .. m |-> g[i]]
<1>2. /\ \A i \in 0 .. m : i \in 0 .. n /\ (i = 0 \/ i \in 1 .. m)
      /\ \A i \in 1 .. m : i \in 1 .. n /\ i \in 0 .. m /\ i - 1 \in 0 .. m /\ i # 0
  BY <1>1
<1>3. /\ g[0] = <<>>
      /\ \A i \in 1 .. m : g[i] = g[i - 1] \o RowIn(t[i])
  BY <1>1, <1>2 DEF Collects
<1>4. Upto(r)
  <2>1. \A i \in 0 .. m : r[i] = g[i]
    OBVIOUS
  <2>2. r[0] = <<>>
    BY <1>3
  <2>3. \A i \in 1 .. m : r[i] = r[i - 1] \o RowIn(t[i])
    BY <1>2, <1>3, <2>1
  <2>4. r = [i \in 0 .. m |-> r[i]]
    OBVIOUS
  <2>. HIDE DEF r
  <2>5. r = [i \in 0 .. m |-> IF i = 0 THEN <<>> ELSE r[i - 1] \o RowIn(t[i])]
    BY <1>2, <2>2, <2>3, <2>4
  <2>. QED BY <1>1, <2>5 DEF RowIn
<1>5. Upto(h)
  BY <1>4
<1>6. RowsIn(plans, t) = h[m]
  BY <1>1 DEF RowsIn
<1>. HIDE DEF h, r
<1>7. h = [i \in 0 .. m |-> IF i = 0 THEN <<>> ELSE h[i - 1] \o RowIn(t[i])]
  BY <1>1, <1>5 DEF RowIn
<1>. HIDE DEF Upto
<1>8. h[0] = <<>> /\ \A i \in 1 .. m : h[i] = h[i - 1] \o RowIn(t[i])
  <2>1. \A i \in 0 .. m : h[i] = IF i = 0 THEN <<>> ELSE h[i - 1] \o RowIn(t[i])
    BY <1>7, Zenon
  <2>2. 0 \in 0 .. m
    OBVIOUS
  <2>. QED BY <1>2, <2>1, <2>2
<1>9. Numbers!StepAlike(h, g, m)
  BY <1>3, <1>8 DEF Numbers!StepAlike
<1>10. \A i \in 0 .. m : h[i] = g[i]
  BY <1>9, Numbers!SameUpTo
<1>. QED BY <1>1, <1>6, <1>10

(* Where a row of the tensor k ends, and how many have ended in n bytes of *)
(* its rows.                                                               *)
Firsts(k, m) == [i \in 1 .. m |-> <<k, i - 1>>]

LEMMA FirstsFacts ==
  ASSUME NEW k \in Nat, NEW m \in Nat
  PROVE  /\ Firsts(k, m) \in Seq(Line) /\ Len(Firsts(k, m)) = m
         /\ \A i \in 1 .. m : Firsts(k, m)[i] = <<k, i - 1>>
         /\ m = 0 => Firsts(k, m) = <<>>
         /\ Firsts(k, m + 1) = Firsts(k, m) \o << <<k, m>> >>
<1>1. ASSUME NEW n \in Nat
      PROVE  /\ Firsts(k, n) \in Seq(Line) /\ Len(Firsts(k, n)) = n
             /\ \A i \in 1 .. n : Firsts(k, n)[i] = <<k, i - 1>>
  <2>1. \A i \in 1 .. n : <<k, i - 1>> \in Line
    BY DEF Line
  <2>2. Firsts(k, n) \in [1 .. n -> Line]
    BY <2>1 DEF Firsts
  <2>3. \A i \in 1 .. n : Firsts(k, n)[i] = <<k, i - 1>>
    BY DEF Firsts
  <2>. QED BY <2>2, <2>3, BlockIsSeq
<1>2. m = 0 => Firsts(k, m) = <<>>
  BY <1>1, EmptySeq
<1>. DEFINE t == << <<k, m>> >>
            u == Firsts(k, m) \o t
            v == Firsts(k, m + 1)
<1>3. t \in Seq(Line) /\ Len(t) = 1 /\ t[1] = <<k, m>>
  BY DEF Line
<1>4. m + 1 \in Nat
  OBVIOUS
<1>5. /\ v \in Seq(Line) /\ Len(v) = m + 1
      /\ \A i \in 1 .. m + 1 : v[i] = <<k, i - 1>>
  BY <1>1, <1>4
<1>6. /\ u \in Seq(Line) /\ Len(u) = m + 1
      /\ \A i \in 1 .. m + 1 : u[i] = IF i <= m THEN Firsts(k, m)[i] ELSE t[i - m]
  <2>1. PICK s : s = Firsts(k, m)
    OBVIOUS
  <2>2. s \in Seq(Line) /\ Len(s) = m
    BY <1>1, <2>1
  <2>. HIDE DEF t
  <2>3. /\ s \o t \in Seq(Line) /\ Len(s \o t) = m + 1
        /\ \A i \in 1 .. m + 1 : (s \o t)[i] = IF i <= m THEN s[i] ELSE t[i - m]
    <3>1. /\ s \o t \in Seq(Line) /\ Len(s \o t) = Len(s) + Len(t)
          /\ \A i \in 1 .. Len(s) + Len(t) :
               (s \o t)[i] = IF i <= Len(s) THEN s[i] ELSE t[i - Len(s)]
      BY <1>3, <2>2, ConcatProperties
    <3>2. Len(s) = m /\ Len(t) = 1
      BY <1>3, <2>2
    <3>. QED BY <3>1, <3>2
  <2>. QED BY <2>1, <2>3
<1>. HIDE DEF t, u, v
<1>7. ASSUME NEW i \in 1 .. m + 1 PROVE u[i] = v[i]
  <2>1. CASE i <= m
    <3>1. i \in 1 .. m
      BY <2>1
    <3>. QED BY <1>1, <1>5, <1>6, <2>1, <3>1
  <2>2. CASE i > m
    <3>1. i = m + 1 /\ i - m = 1 /\ i - 1 = m /\ ~ (i <= m)
      BY <2>2
    <3>. QED BY <1>3, <1>5, <1>6, <3>1
  <2>. QED BY <2>1, <2>2
<1>8. u = v
  BY <1>5, <1>6, <1>7, SeqEqual
<1>. QED BY <1>1, <1>2, <1>8 DEF u, v, t

(* The rows of k that end in the first n bytes of c rows. *)
Ended(k, c, n) == IF n >= SizeOf(k, c) THEN c ELSE IF n <= 0 THEN 0 ELSE n \div SizeIn(k)

LEMMA EndedType ==
  ASSUME NEW k \in Nat, SizeIn(k) \in Nat \ {0}, NEW c \in Nat, NEW n \in Int
  PROVE  Ended(k, c, n) \in 0 .. c
<1>1. PICK w \in Nat \ {0}, l \in Nat : w = SizeIn(k) /\ l = SizeOf(k, c) /\ l = c * w
  BY SizeFacts DEF SizeOf
<1>2. CASE 0 < n /\ n < l
  <2>1. PICK q \in Nat, r \in Nat : q = n \div w /\ r < w /\ n = q * w + r
    BY <1>2, QuotientFacts
  <2>2. q <= c
    <3>. SUFFICES ASSUME c < q PROVE FALSE
      BY <2>1
    <3>1. c * w <= q * w
      BY <2>1, ProductMonotone
    <3>2. q * w \in Nat
      BY <2>1, ProductNat
    <3>. QED BY <1>1, <1>2, <2>1, <3>1, <3>2
  <2>3. Ended(k, c, n) = q
    BY <1>1, <1>2, <2>1 DEF Ended
  <2>. QED BY <2>1, <2>2, <2>3
<1>3. CASE ~ (0 < n /\ n < l)
  BY <1>1, <1>3 DEF Ended
<1>. QED BY <1>2, <1>3

LEMMA EndedMonotone ==
  ASSUME NEW k \in Nat, SizeIn(k) \in Nat \ {0}, NEW c \in Nat, NEW m \in Int, NEW n \in Int,
         m <= n
  PROVE  Ended(k, c, m) <= Ended(k, c, n)
<1>1. PICK w \in Nat \ {0}, l \in Nat : w = SizeIn(k) /\ l = SizeOf(k, c) /\ l = c * w
  BY SizeFacts DEF SizeOf
<1>2. Ended(k, c, m) \in 0 .. c /\ Ended(k, c, n) \in 0 .. c
  BY EndedType
<1>3. CASE 0 < m /\ n < l
  <2>1. PICK p \in Nat, q \in Nat, r \in Nat, s \in Nat :
               /\ p = m \div w /\ r < w /\ m = p * w + r
               /\ q = n \div w /\ s < w /\ n = q * w + s
    <3>1. m \in Nat /\ n \in Nat
      BY <1>3
    <3>. QED BY <3>1, QuotientFacts
  <2>2. p <= q
    <3>. SUFFICES ASSUME q < p PROVE FALSE
      BY <2>1
    <3>1. q + 1 \in Nat /\ q + 1 <= p
      BY <2>1
    <3>2. (q + 1) * w <= p * w
      BY <2>1, <3>1, ProductMonotone
    <3>3. (q + 1) * w = q * w + w /\ q * w \in Nat /\ p * w \in Nat
      BY <2>1, ProductNat
    <3>. QED BY <2>1, <3>2, <3>3
  <2>3. Ended(k, c, m) = p /\ Ended(k, c, n) = q
    BY <1>1, <1>3, <2>1 DEF Ended
  <2>. QED BY <2>2, <2>3
<1>4. CASE n >= l
  <2>1. Ended(k, c, n) = c
    BY <1>1, <1>4 DEF Ended
  <2>. QED BY <1>2, <2>1
<1>5. CASE m <= 0 /\ n < l
  <2>1. Ended(k, c, m) = 0
    BY <1>1, <1>5 DEF Ended
  <2>. QED BY <1>2, <2>1
<1>. QED BY <1>1, <1>3, <1>4, <1>5

LEMMA EndedInRows ==
  ASSUME NEW k \in Nat, SizeIn(k) \in Nat \ {0}, NEW c \in Nat, NEW n \in 0 .. SizeOf(k, c)
  PROVE  Ended(k, c, n) = n \div SizeIn(k)
<1>1. PICK w \in Nat \ {0}, l \in Nat : w = SizeIn(k) /\ l = SizeOf(k, c) /\ l = c * w
  BY SizeFacts DEF SizeOf
<1>2. CASE n = l
  <2>1. n = c * w + 0
    BY <1>1, <1>2
  <2>2. n \div w = c
    <3>1. n \in Nat /\ 0 \in Nat /\ 0 < w
      BY <1>1
    <3>. QED BY <2>1, <3>1, QuotientIsUnique
  <2>3. Ended(k, c, n) = c
    BY <1>1, <1>2 DEF Ended
  <2>. QED BY <1>1, <2>2, <2>3
<1>3. CASE n = 0 /\ n # l
  <2>1. 0 = 0 * w + 0 /\ 0 \in Nat /\ 0 < w
    BY <1>1
  <2>2. 0 \div w = 0
    BY <2>1, QuotientIsUnique
  <2>. QED BY <1>1, <1>3, <2>2 DEF Ended
<1>4. CASE n # 0 /\ n # l
  <2>1. 0 < n /\ n < l
    BY <1>1, <1>4
  <2>. QED BY <1>1, <2>1 DEF Ended
<1>. QED BY <1>2, <1>3, <1>4

LEMMA EndedOutside ==
  ASSUME NEW k \in Nat, SizeIn(k) \in Nat \ {0}, NEW c \in Nat \ {0}, NEW n \in Int
  PROVE  /\ n <= 0 => Ended(k, c, n) = 0
         /\ n >= SizeOf(k, c) => Ended(k, c, n) = c
<1>1. PICK w \in Nat \ {0}, l \in Nat : w = SizeIn(k) /\ l = SizeOf(k, c) /\ l = c * w
  BY SizeFacts DEF SizeOf
<1>2. 1 * w <= c * w
  BY <1>1, ProductMonotone
<1>3. l > 0
  BY <1>1, <1>2
<1>. QED BY <1>1, <1>3 DEF Ended

(* A byte of a row adds the row exactly if it is the row's last. *)
LEMMA EndedStep ==
  ASSUME NEW k \in Nat \ {0}, SizeIn(k) \in Nat \ {0}, NEW c \in Nat, NEW n \in 1 .. SizeOf(k, c)
  PROVE  Firsts(k, Ended(k, c, n)) =
           Firsts(k, Ended(k, c, n - 1)) \o RowIn(ByteAt(k, 0, SizeIn(k), n))
<1>1. PICK w \in Nat \ {0}, l \in Nat : w = SizeIn(k) /\ l = SizeOf(k, c)
  BY SizeFacts
<1>2. n \in 0 .. l /\ n - 1 \in 0 .. l /\ n \in Nat /\ n - 1 \in Nat
  BY <1>1
<1>3. PICK q \in Nat, r \in Nat : /\ q = (n - 1) \div w /\ r = (n - 1) % w
                                  /\ r < w /\ n - 1 = q * w + r
  BY <1>2, QuotientFacts
<1>4. Ended(k, c, n - 1) = q
  BY <1>1, <1>2, <1>3, EndedInRows
<1>5. PICK b : b = ByteAt(k, 0, w, n) /\ b = <<k, q, r>>
  <2>1. 0 + q = q
    BY <1>3
  <2>. QED BY <1>3, <2>1 DEF ByteAt
<1>6. EndsRow(plans, b) <=> r = w - 1
  <2>1. b # Zero
    BY <1>5 DEF Zero
  <2>2. b[3] = r /\ plans[b[1]].rowSize = w
    BY <1>1, <1>5 DEF SizeIn
  <2>. QED BY <2>1, <2>2 DEF EndsRow
<1>7. CASE r = w - 1
  <2>1. n = (q + 1) * w + 0
    <3>1. (q + 1) * w = q * w + w /\ q * w \in Nat
      BY <1>3, ProductNat
    <3>. QED BY <1>2, <1>3, <1>7, <3>1
  <2>2. n \div w = q + 1
    <3>1. 0 \in Nat /\ 0 < w /\ q + 1 \in Nat
      BY <1>3
    <3>. QED BY <1>2, <2>1, <3>1, QuotientIsUnique
  <2>3. Ended(k, c, n) = q + 1
    BY <1>1, <1>2, <2>2, EndedInRows
  <2>4. RowIn(b) = << <<k, q>> >>
    BY <1>5, <1>6, <1>7 DEF RowIn
  <2>5. Firsts(k, q + 1) = Firsts(k, q) \o << <<k, q>> >>
    BY <1>3, FirstsFacts
  <2>. QED BY <1>1, <1>4, <1>5, <2>3, <2>4, <2>5
<1>8. CASE r # w - 1
  <2>1. n = q * w + (r + 1) /\ r + 1 \in Nat /\ r + 1 < w
    <3>1. q * w \in Nat
      BY <1>3, ProductNat
    <3>. QED BY <1>2, <1>3, <1>8, <3>1
  <2>2. n \div w = q
    <3>1. PICK s \in Nat : s = r + 1 /\ s < w /\ n = q * w + s
      BY <2>1
    <3>. QED BY <1>2, <3>1, QuotientIsUnique
  <2>3. Ended(k, c, n) = q
    BY <1>1, <1>2, <2>2, EndedInRows
  <2>4. RowIn(b) = <<>>
    BY <1>6, <1>8 DEF RowIn
  <2>5. Firsts(k, q) \o <<>> = Firsts(k, q)
    BY <1>3, FirstsFacts, ConcatEmptySeq
  <2>. QED BY <1>1, <1>4, <1>5, <2>3, <2>4, <2>5
<1>. QED BY <1>7, <1>8

(* A plan's contribution behind a head: zeros, its rows, zeros. *)
IsTail(w, head, z, k) ==
  w = head \o (Zeros(z) \o (RowBytes(k, 0, plans[k].rows) \o Trailer(plans[k])))

(* The place of a byte behind the head, counted from the first row's first. *)
TailByte(w, h, k, n) ==
  w[n] = IF n - h \in 1 .. SizeOf(k, plans[k].rows) THEN ByteAt(k, 0, SizeIn(k), n - h) ELSE Zero

LEMMA TailBytes ==
  ASSUME plans \in Seq(Plans), NEW k \in 1 .. Len(plans), NEW head \in Seq(Byte), NEW z \in Nat,
         NEW w, IsTail(w, head, z, k)
  PROVE  /\ w \in Seq(Byte)
         /\ Len(head) + z + SizeOf(k, plans[k].rows) <= Len(w)
         /\ \A n \in 1 .. Len(head) : w[n] = head[n]
         /\ \A n \in Len(head) + 1 .. Len(w) : TailByte(w, Len(head) + z, k, n)
<1>. DEFINE r == RowBytes(k, 0, plans[k].rows)
            t == Trailer(plans[k])
            a == r \o t
            b == Zeros(z) \o a
<1>1. PICK c \in Nat : c = plans[k].rows
  BY TensorFacts
<1>2. k \in Nat /\ SizeIn(k) \in Nat \ {0} /\ t \in Seq(Byte)
  BY TensorFacts
<1>3. PICK l \in Nat : l = SizeOf(k, c)
  BY <1>2, SizeFacts
<1>4. /\ r \in Seq(Byte) /\ Len(r) = l
      /\ \A i \in 1 .. l : r[i] = ByteAt(k, 0, SizeIn(k), i)
  <2>1. 0 \in Nat
    OBVIOUS
  <2>2. AreRows(r, k, 0, c)
    BY <1>1, <1>2, <2>1, RowBytesFacts
  <2>. QED BY <1>3, <2>2 DEF AreRows
<1>5. PICK e \in Nat : e = Len(t) /\ \A i \in 1 .. e : t[i] = Zero
  <2>1. PICK y \in Nat : y = PadTo(Nbytes(plans[k])) - Nbytes(plans[k])
    BY TensorFacts
  <2>2. t = Zeros(y)
    BY <2>1 DEF Trailer
  <2>3. Len(t) = y /\ \A i \in 1 .. y : t[i] = Zero
    BY <2>2, ZeroFacts DEF Zeros
  <2>. QED BY <2>3
<1>6. PICK h \in Nat : h = Len(head)
  BY LenProperties
<1>7. Zeros(z) \in Seq(Byte) /\ Len(Zeros(z)) = z /\ \A i \in 1 .. z : Zeros(z)[i] = Zero
  BY ZeroFacts DEF Zeros
<1>8. w = head \o b
  BY DEF IsTail
<1>. HIDE DEF r, t
<1>9. /\ a \in Seq(Byte) /\ Len(a) = l + e
      /\ \A i \in 1 .. l + e : a[i] = IF i <= l THEN r[i] ELSE t[i - l]
  BY <1>2, <1>4, <1>5, ConcatProperties, ZenonT(60)
<1>. HIDE DEF a
<1>10. /\ b \in Seq(Byte) /\ Len(b) = z + (l + e)
       /\ \A i \in 1 .. z + (l + e) : b[i] = IF i <= z THEN Zeros(z)[i] ELSE a[i - z]
  <2>1. PICK o : o = Zeros(z)
    OBVIOUS
  <2>2. o \in Seq(Byte) /\ Len(o) = z
    BY <1>7, <2>1
  <2>3. /\ o \o a \in Seq(Byte) /\ Len(o \o a) = Len(o) + Len(a)
        /\ \A i \in 1 .. Len(o) + Len(a) :
             (o \o a)[i] = IF i <= Len(o) THEN o[i] ELSE a[i - Len(o)]
    BY <1>9, <2>2, ConcatProperties
  <2>4. Len(o) = z /\ Len(a) = l + e
    BY <1>9, <2>2
  <2>. QED BY <2>1, <2>3, <2>4
<1>. HIDE DEF b
<1>11. /\ w \in Seq(Byte) /\ Len(w) = h + (z + (l + e))
       /\ \A i \in 1 .. h + (z + (l + e)) : w[i] = IF i <= h THEN head[i] ELSE b[i - h]
  <2>1. /\ head \o b \in Seq(Byte) /\ Len(head \o b) = Len(head) + Len(b)
        /\ \A i \in 1 .. Len(head) + Len(b) :
             (head \o b)[i] = IF i <= Len(head) THEN head[i] ELSE b[i - Len(head)]
    BY <1>10, ConcatProperties
  <2>2. Len(head) = h /\ Len(b) = z + (l + e)
    BY <1>6, <1>10
  <2>. QED BY <1>8, <2>1, <2>2
<1>12. ASSUME NEW n \in h + 1 .. Len(w)
       PROVE  TailByte(w, h + z, k, n)
  <2>1. /\ n \in 1 .. h + (z + (l + e)) /\ ~ (n <= h)
        /\ n - h \in 1 .. z + (l + e)
    BY <1>6, <1>11
  <2>2. w[n] = b[n - h]
    BY <1>11, <2>1
  <2>3. n - (h + z) = (n - h) - z
    BY <1>6
  <2>4. CASE n - h <= z
    <3>1. n - h \in 1 .. z /\ n - (h + z) \notin 1 .. l
      BY <2>1, <2>3, <2>4
    <3>2. w[n] = Zero
      BY <1>7, <1>10, <2>1, <2>2, <2>4, <3>1
    <3>. QED BY <1>1, <1>3, <3>1, <3>2 DEF TailByte
  <2>5. CASE ~ (n - h <= z)
    <3>1. (n - h) - z \in 1 .. l + e
      BY <2>1, <2>5
    <3>2. w[n] = a[(n - h) - z]
      BY <1>10, <2>1, <2>2, <2>5
    <3>3. CASE (n - h) - z <= l
      <4>1. (n - h) - z \in 1 .. l
        BY <3>1, <3>3
      <4>2. w[n] = ByteAt(k, 0, SizeIn(k), (n - h) - z)
        BY <1>4, <1>9, <3>1, <3>2, <3>3, <4>1
      <4>. QED BY <1>1, <1>3, <2>3, <4>1, <4>2 DEF TailByte
    <3>4. CASE ~ ((n - h) - z <= l)
      <4>1. ((n - h) - z) - l \in 1 .. e /\ (n - h) - z \notin 1 .. l
        BY <3>1, <3>4
      <4>2. w[n] = Zero
        BY <1>5, <1>9, <3>1, <3>2, <3>4, <4>1
      <4>. QED BY <1>1, <1>3, <2>3, <4>1, <4>2 DEF TailByte
    <3>. QED BY <3>3, <3>4
  <2>. QED BY <2>4, <2>5
<1>13. h + z + l <= Len(w)
  BY <1>11
<1>14. ASSUME NEW n \in 1 .. h PROVE w[n] = head[n]
  <2>1. n \in 1 .. h + (z + (l + e)) /\ n <= h
    OBVIOUS
  <2>. QED BY <1>11, <2>1
<1>. QED BY <1>1, <1>3, <1>6, <1>11, <1>12, <1>13, <1>14

(* How the rows of a tensor follow those in front of it. *)
LEMMA TailStep ==
  ASSUME plans \in Seq(Plans), NEW k \in 1 .. Len(plans), NEW b, NEW x \in Int,
         b = IF x \in 1 .. SizeOf(k, plans[k].rows) THEN ByteAt(k, 0, SizeIn(k), x) ELSE Zero
  PROVE  Firsts(k, Ended(k, plans[k].rows, x)) =
           Firsts(k, Ended(k, plans[k].rows, x - 1)) \o RowIn(b)
<1>1. PICK c \in Nat \ {0} : c = plans[k].rows
  BY TensorFacts
<1>2. k \in Nat \ {0} /\ SizeIn(k) \in Nat \ {0}
  BY TensorFacts
<1>3. PICK l \in Nat : l = SizeOf(k, c)
  BY <1>1, <1>2, SizeFacts
<1>4. CASE x \in 1 .. l
  BY <1>1, <1>2, <1>3, <1>4, EndedStep
<1>5. CASE x \notin 1 .. l
  <2>1. RowIn(b) = <<>>
    BY <1>1, <1>3, <1>5 DEF RowIn, EndsRow
  <2>2. Ended(k, c, x) = Ended(k, c, x - 1)
    <3>1. x <= 0 \/ x > l
      BY <1>5
    <3>2. x - 1 \in Int /\ (x <= 0 => x - 1 <= 0) /\ (x > l => x - 1 >= l /\ x >= l)
      BY <1>3
    <3>3. \A n \in Int : /\ n <= 0 => Ended(k, c, n) = 0
                         /\ n >= l => Ended(k, c, n) = c
      BY <1>1, <1>2, <1>3, EndedOutside
    <3>. QED BY <3>1, <3>2, <3>3
  <2>3. Firsts(k, Ended(k, c, x - 1)) \in Seq(Line)
    <3>1. x - 1 \in Int
      OBVIOUS
    <3>2. Ended(k, c, x - 1) \in 0 .. c
      BY <1>1, <1>2, <3>1, EndedType
    <3>3. Ended(k, c, x - 1) \in Nat
      BY <1>1, <3>2
    <3>. QED BY <1>2, <3>3, FirstsFacts
  <2>4. Firsts(k, Ended(k, c, x - 1)) \o <<>> = Firsts(k, Ended(k, c, x - 1))
    BY <2>3, ConcatEmptySeq
  <2>. QED BY <1>1, <2>1, <2>2, <2>4
<1>. QED BY <1>4, <1>5

(* The rows in the first n bytes, some of which are behind the head. *)
RowsBehind(g, h, z, k, n) ==
  g[n] = g[h] \o Firsts(k, Ended(k, plans[k].rows, n - (h + z)))

LEMMA TailRows ==
  ASSUME plans \in Seq(Plans), NEW k \in 1 .. Len(plans), NEW head \in Seq(Byte), NEW z \in Nat,
         NEW w, IsTail(w, head, z, k), NEW g, Collects(g, w)
  PROVE  \A n \in Len(head) .. Len(w) : RowsBehind(g, Len(head), z, k, n)
<1>1. PICK h \in Nat, m \in Nat :
         /\ h = Len(head) /\ m = Len(w) /\ h <= m
         /\ \A n \in h + 1 .. m : TailByte(w, h + z, k, n)
  <2>1. PICK l \in Nat : l = SizeOf(k, plans[k].rows)
    BY TensorFacts
  <2>2. /\ w \in Seq(Byte) /\ Len(head) + z + l <= Len(w)
        /\ \A n \in Len(head) + 1 .. Len(w) : TailByte(w, Len(head) + z, k, n)
    BY <2>1, TailBytes
  <2>3. Len(head) \in Nat /\ Len(w) \in Nat
    BY <2>2, LenProperties
  <2>4. Len(head) <= Len(w)
    BY <2>2, <2>3
  <2>. QED BY <2>2, <2>3, <2>4
<1>2. PICK c \in Nat \ {0} : c = plans[k].rows
  BY TensorFacts
<1>3. k \in Nat \ {0} /\ SizeIn(k) \in Nat \ {0}
  BY TensorFacts
<1>. DEFINE P(n) == Firsts(k, Ended(k, c, n - (h + z)))
<1>4. /\ \A n \in 0 .. m : g[n] \in Seq(Line)
      /\ \A n \in 1 .. m : g[n] = g[n - 1] \o RowIn(w[n])
  BY <1>1 DEF Collects
<1>5. ASSUME NEW n \in h .. m PROVE P(n) \in Seq(Line) /\ n - (h + z) \in Int
  <2>1. n - (h + z) \in Int
    OBVIOUS
  <2>2. Ended(k, c, n - (h + z)) \in 0 .. c
    BY <1>2, <1>3, <2>1, EndedType
  <2>3. Ended(k, c, n - (h + z)) \in Nat
    BY <1>2, <2>2
  <2>. QED BY <1>3, <2>1, <2>3, FirstsFacts
<1>6. ASSUME NEW n \in h + 1 .. m PROVE P(n) = P(n - 1) \o RowIn(w[n])
  <2>1. PICK x \in Int : x = n - (h + z) /\ (n - 1) - (h + z) = x - 1
    <3>1. (n - 1) - (h + z) = (n - (h + z)) - 1 /\ n - (h + z) \in Int
      OBVIOUS
    <3>. QED BY <3>1
  <2>2. w[n] = IF x \in 1 .. SizeOf(k, plans[k].rows) THEN ByteAt(k, 0, SizeIn(k), x) ELSE Zero
    BY <1>1, <2>1 DEF TailByte
  <2>3. Firsts(k, Ended(k, plans[k].rows, x)) =
          Firsts(k, Ended(k, plans[k].rows, x - 1)) \o RowIn(w[n])
    BY <2>2, TailStep
  <2>. QED BY <1>2, <2>1, <2>3
<1>7. P(h) = <<>>
  <2>1. h - (h + z) \in Int /\ h - (h + z) <= 0
    OBVIOUS
  <2>2. Ended(k, c, h - (h + z)) = 0
    BY <1>2, <1>3, <2>1, EndedOutside
  <2>3. Firsts(k, 0) = <<>>
    BY <1>3, FirstsFacts
  <2>. QED BY <2>2, <2>3
<1>. HIDE DEF P
<1>. DEFINE T == {d \in 0 .. m - h : g[h + d] = g[h] \o P(h + d)}
<1>8. 0 \in T
  <2>1. h \in 0 .. m /\ h + 0 = h /\ 0 \in 0 .. m - h
    BY <1>1
  <2>2. g[h] \o <<>> = g[h]
    BY <1>4, <2>1, ConcatEmptySeq
  <2>. QED BY <1>7, <2>1, <2>2
<1>9. ASSUME NEW d \in 0 .. (m - h) - 1, d \in T PROVE d + 1 \in T
  <2>1. PICK n \in h .. m : n = h + d /\ h + (d + 1) = n + 1 /\ n + 1 \in h + 1 .. m
                            /\ n + 1 \in 1 .. m /\ d + 1 \in 0 .. m - h /\ (n + 1) - 1 = n
    <3>1. h + d \in h .. m /\ h + (d + 1) = (h + d) + 1 /\ (h + d) + 1 \in h + 1 .. m
          /\ (h + d) + 1 \in 1 .. m /\ d + 1 \in 0 .. m - h /\ ((h + d) + 1) - 1 = h + d
      BY <1>1
    <3>. QED BY <3>1
  <2>2. g[n] = g[h] \o P(n)
    BY <1>9, <2>1
  <2>3. g[n + 1] = (g[h] \o P(n)) \o RowIn(w[n + 1])
    BY <1>4, <2>1, <2>2
  <2>4. P(n + 1) = P(n) \o RowIn(w[n + 1])
    BY <1>6, <2>1
  <2>5. g[h] \in Seq(Line) /\ P(n) \in Seq(Line) /\ RowIn(w[n + 1]) \in Seq(Line)
    <3>1. RowIn(w[n + 1]) \in Seq(Line)
      <4>1. w \in Seq(Byte)
        BY TailBytes
      <4>2. w[n + 1] \in Byte
        BY <1>1, <2>1, <4>1, LenProperties
      <4>. QED BY <4>2, RowInFacts
    <3>2. h \in 0 .. m
      BY <1>1
    <3>. QED BY <1>4, <1>5, <3>1, <3>2
  <2>6. (g[h] \o P(n)) \o RowIn(w[n + 1]) = g[h] \o (P(n) \o RowIn(w[n + 1]))
    <3>1. \A s, t, u \in Seq(Line) : (s \o t) \o u = s \o (t \o u)
      BY LinesAssociative, Zenon
    <3>. QED BY <2>5, <3>1, ZenonT(60)
  <2>. QED BY <2>1, <2>3, <2>4, <2>6
<1>10. ASSUME NEW n \in h .. m PROVE n - h \in T
  <2>1. n - h \in Nat
    OBVIOUS
  <2>2. \A d \in 0 .. (n - h) - 1 : d \in 0 .. (m - h) - 1
    BY <1>1
  <2>. HIDE DEF T
  <2>3. \A d \in 0 .. (n - h) - 1 : d \in T => d + 1 \in T
    BY <1>9, <2>2
  <2>. QED BY <1>8, <2>1, <2>3, Numbers!InductionUpTo
<1>11. ASSUME NEW n \in h .. m PROVE g[n] = g[h] \o P(n)
  <2>1. h + (n - h) = n
    OBVIOUS
  <2>. QED BY <1>10, <2>1
<1>. QED BY <1>1, <1>2, <1>11 DEF RowsBehind, P

(* No byte is of a plan behind k. *)
BytesUpTo(bytes, k) == \A i \in DOMAIN bytes : bytes[i][1] <= k

LEMMA EarlierRows ==
  ASSUME NEW k \in Int, NEW head \in Seq(Byte), BytesUpTo(head, k),
         NEW w, NEW g, Collects(g, w), Len(w) \in Nat, Len(head) <= Len(w),
         \A i \in 1 .. Len(head) : w[i] = head[i]
  PROVE  \A j \in 1 .. Len(g[Len(head)]) : g[Len(head)][j][1] <= k
<1>1. PICK h \in Nat : /\ h = Len(head) /\ h <= Len(w) /\ DOMAIN head = 1 .. h
                       /\ \A i \in 1 .. h : w[i] = head[i] /\ head[i] \in Byte
  BY LenProperties
<1>2. /\ \A n \in 0 .. h : g[n] \in Seq(Line) /\ Len(g[n]) \in Nat
      /\ g[0] = <<>>
      /\ \A n \in 1 .. h : g[n] = g[n - 1] \o RowIn(head[n])
  <2>1. \A n \in 0 .. h : n \in 0 .. Len(w)
    BY <1>1
  <2>2. \A n \in 1 .. h : n \in 1 .. Len(w)
    BY <1>1
  <2>. QED BY <1>1, <2>1, <2>2, LenProperties DEF Collects
<1>. DEFINE T == {n \in 0 .. h : \A j \in 1 .. Len(g[n]) : g[n][j][1] <= k}
<1>3. 0 \in T
  <2>1. Len(g[0]) = 0
    BY <1>2
  <2>. QED BY <2>1
<1>4. ASSUME NEW n \in 0 .. h - 1, n \in T PROVE n + 1 \in T
  <2>1. n \in 0 .. h /\ n + 1 \in 1 .. h /\ (n + 1) - 1 = n /\ n + 1 \in 0 .. h
    OBVIOUS
  <2>2. PICK r : r = RowIn(head[n + 1])
    OBVIOUS
  <2>3. r \in Seq(Line) /\ \A j \in 1 .. Len(r) : r[j][1] <= k
    <3>1. head[n + 1] \in Byte /\ head[n + 1][1] <= k
      BY <1>1, <2>1 DEF BytesUpTo
    <3>2. r \in Seq(Line)
      BY <2>2, <3>1, RowInFacts
    <3>3. r = <<>> \/ r = << <<head[n + 1][1], head[n + 1][2]>> >>
      BY <2>2 DEF RowIn
    <3>4. CASE r = <<>>
      <4>1. Len(r) = 0
        BY <3>4
      <4>. QED BY <3>2, <4>1
    <3>5. CASE r = << <<head[n + 1][1], head[n + 1][2]>> >>
      <4>1. Len(r) = 1 /\ r[1][1] = head[n + 1][1]
        BY <3>5
      <4>. QED BY <3>1, <3>2, <4>1
    <3>. QED BY <3>3, <3>4, <3>5
  <2>4. PICK s \in Seq(Line) : s = g[n] /\ \A j \in 1 .. Len(s) : s[j][1] <= k
    BY <1>2, <1>4, <2>1
  <2>5. g[n + 1] = s \o r
    BY <1>2, <2>1, <2>2, <2>4
  <2>6. PICK a \in Nat, b \in Nat : a = Len(s) /\ b = Len(r)
    BY <2>3, LenProperties
  <2>7. /\ Len(s \o r) = a + b
        /\ \A j \in 1 .. a + b : (s \o r)[j] = IF j <= a THEN s[j] ELSE r[j - a]
    BY <2>3, <2>6, ConcatProperties
  <2>8. ASSUME NEW j \in 1 .. a + b PROVE (s \o r)[j][1] <= k
    <3>1. CASE j <= a
      <4>1. j \in 1 .. a /\ (s \o r)[j] = s[j]
        BY <2>7, <3>1
      <4>. QED BY <2>4, <2>6, <4>1
    <3>2. CASE ~ (j <= a)
      <4>1. j - a \in 1 .. b /\ (s \o r)[j] = r[j - a]
        BY <2>7, <3>2
      <4>. QED BY <2>3, <2>6, <4>1
    <3>. QED BY <3>1, <3>2
  <2>. QED BY <2>1, <2>5, <2>7, <2>8
<1>5. h \in T
  <2>. HIDE DEF T
  <2>. QED BY <1>3, <1>4, Numbers!InductionUpTo
<1>. QED BY <1>1, <1>5

(* Behind the head, which is what the plans before the current one asked   *)
(* for and has been written, are the bytes of the current tensor.          *)
IsStream(head, z) ==
  /\ IsTail(wanted, head, z, begun)
  /\ Len(head) <= Len(out)
  /\ BytesUpTo(head, begun - 1)

StreamInv ==
  /\ Len(plans) <= MaxPlans
  /\ BytesUpTo(wanted, begun)
  /\ begun > 0 => \E head \in Seq(Byte), z \in Nat : IsStream(head, z)

LEMMA InitStreamInv == Init => StreamInv
<1>. SUFFICES ASSUME Init PROVE StreamInv
  OBVIOUS
<1>1. PICK n \in Starts : wanted = Zeros(n)
  BY DEF Init
<1>2. n \in Nat /\ begun = 0
  BY PayloadAssumption DEF Init
<1>3. BytesUpTo(wanted, 0)
  BY <1>1, <1>2 DEF BytesUpTo, Zeros, Zero
<1>4. Len(plans) <= MaxPlans
  BY DEF Init
<1>. QED BY <1>2, <1>3, <1>4 DEF StreamInv

LEMMA ContributionIsTail ==
  ASSUME plans \in Seq(Plans), NEW k \in 1 .. Len(plans), NEW w \in Seq(Byte), BytesUpTo(w, k - 1)
  PROVE  \E z \in Nat : /\ IsTail(w \o Contribution(k, Len(w)), w, z, k)
                        /\ BytesUpTo(w \o Contribution(k, Len(w)), k)
<1>1. PICK h \in Nat : h = Len(w) /\ DOMAIN w = 1 .. h
  BY LenProperties
<1>2. PICK z \in Nat : z = PadTo(h) - h
  BY <1>1, ContributionFacts
<1>3. PICK v : v = w \o Contribution(k, h)
  OBVIOUS
<1>4. IsTail(v, w, z, k)
  BY <1>1, <1>2, <1>3, ContributionFacts DEF IsTail
<1>5. PICK n \in Nat : n = Len(v) /\ DOMAIN v = 1 .. n
  BY <1>4, TailBytes, LenProperties
<1>6. /\ \A i \in 1 .. h : v[i] = w[i]
      /\ \A i \in h + 1 .. n : TailByte(v, h + z, k, i)
  BY <1>1, <1>4, <1>5, TailBytes
<1>7. k \in Nat
  BY TensorFacts
<1>8. ASSUME NEW i \in 1 .. n PROVE v[i][1] <= k
  <2>1. CASE i \in 1 .. h
    <3>1. w[i][1] <= k - 1 /\ w[i] \in Byte
      BY <1>1, <2>1, LenProperties DEF BytesUpTo
    <3>2. w[i][1] \in Nat
      BY <3>1 DEF Byte
    <3>. QED BY <1>6, <1>7, <2>1, <3>1, <3>2
  <2>2. CASE i \notin 1 .. h
    <3>1. i \in h + 1 .. n
      BY <2>2
    <3>2. TailByte(v, h + z, k, i)
      BY <1>6, <3>1
    <3>3. v[i][1] = k \/ v[i][1] = 0
      BY <3>2 DEF TailByte, ByteAt, Zero
    <3>. QED BY <1>7, <3>3
  <2>. QED BY <2>1, <2>2
<1>9. BytesUpTo(v, k)
  BY <1>5, <1>8 DEF BytesUpTo
<1>. QED BY <1>1, <1>3, <1>4, <1>9

LEMMA StepStreamInv ==
  IInv /\ OutputInv /\ OutputIsAsPlanned /\ StreamInv /\ [Next]_vars => StreamInv'
<1>. SUFFICES ASSUME IInv, OutputInv, OutputIsAsPlanned, StreamInv, [Next]_vars
              PROVE  StreamInv'
  OBVIOUS
<1>. USE DEF call, rowVars, writeVars
<1>1. out \in Seq(Byte) /\ wanted \in Seq(Byte) /\ Len(out) \in Nat /\ Len(wanted) \in Nat
  BY LenProperties DEF OutputInv, PiecesAreSeqs
<1>2. ASSUME UNCHANGED <<plans, begun, wanted>>, Len(out') \in Nat, Len(out) <= Len(out')
      PROVE  StreamInv'
  <2>1. BytesUpTo(wanted', begun') /\ Len(plans') <= MaxPlans
    BY <1>2 DEF StreamInv
  <2>2. ASSUME begun > 0
        PROVE  \E head \in Seq(Byte), z \in Nat :
                 /\ IsTail(wanted', head, z, begun')
                 /\ Len(head) <= Len(out')
                 /\ BytesUpTo(head, begun' - 1)
    <3>1. PICK head \in Seq(Byte), z \in Nat : IsStream(head, z)
      BY <2>2 DEF StreamInv
    <3>2. Len(head) \in Nat
      BY LenProperties
    <3>3. Len(head) <= Len(out')
      BY <1>1, <1>2, <3>1, <3>2 DEF IsStream
    <3>. QED BY <1>2, <3>1, <3>3 DEF IsStream
  <2>3. begun' > 0 => \E head \in Seq(Byte), z \in Nat : IsStream(head, z)'
    BY <1>2, <2>2 DEF IsStream, IsTail, RowBytes, Trailer
  <2>4. BytesUpTo(wanted, begun)'
    BY <2>1 DEF BytesUpTo
  <2>. QED BY <2>1, <2>3, <2>4 DEF StreamInv
<1>3. ASSUME UNCHANGED <<plans, begun, wanted, out>>
      PROVE  StreamInv'
  BY <1>1, <1>2, <1>3
<1>4. CASE BeginPlan
  <2>1. /\ at = "plan" /\ begun < Len(plans) /\ begun' = begun + 1
        /\ UNCHANGED <<plans, out>>
        /\ wanted' = wanted \o Contribution(begun + 1, Len(wanted))
    BY <1>4 DEF BeginPlan
  <2>2. PICK k \in 1 .. Len(plans) : k = begun + 1 /\ k - 1 = begun
    <3>1. begun + 1 \in 1 .. Len(plans) /\ (begun + 1) - 1 = begun
      BY <2>1 DEF IInv
    <3>. QED BY <3>1
  <2>3. out = wanted
    BY <2>1 DEF OutputIsAsPlanned
  <2>4. plans \in Seq(Plans)
    BY DEF IInv
  <2>5. BytesUpTo(wanted, k - 1)
    BY <2>2 DEF StreamInv
  <2>6. PICK z \in Nat : /\ IsTail(wanted \o Contribution(k, Len(wanted)), wanted, z, k)
                         /\ BytesUpTo(wanted \o Contribution(k, Len(wanted)), k)
    BY <1>1, <2>4, <2>5, ContributionIsTail
  <2>7. IsTail(wanted', wanted, z, begun') /\ BytesUpTo(wanted', begun')
    BY <2>1, <2>2, <2>6
  <2>8. Len(wanted) <= Len(out') /\ BytesUpTo(wanted, begun' - 1)
    BY <1>1, <2>1, <2>2, <2>3, <2>5
  <2>9. \E head \in Seq(Byte), y \in Nat :
          /\ IsTail(wanted', head, y, begun')
          /\ Len(head) <= Len(out')
          /\ BytesUpTo(head, begun' - 1)
    BY <1>1, <2>7, <2>8
  <2>10. \E head \in Seq(Byte), y \in Nat : IsStream(head, y)'
    BY <2>1, <2>9 DEF IsStream, IsTail, RowBytes, Trailer
  <2>11. Len(plans') <= MaxPlans /\ BytesUpTo(wanted, begun)'
    BY <2>1, <2>7 DEF StreamInv, BytesUpTo
  <2>. QED BY <2>10, <2>11 DEF StreamInv
<1>5. CASE WriteSome
  <2>1. PICK n \in 1 .. Len(unwritten) : out' = out \o SubSeq(unwritten, 1, n)
    BY <1>5 DEF WriteSome
  <2>2. UNCHANGED <<plans, begun, wanted>>
    BY <1>5 DEF WriteSome
  <2>3. PICK s \in Seq(Byte) : s = SubSeq(unwritten, 1, n)
    <3>1. unwritten \in Seq(Byte)
      BY DEF OutputInv, PiecesAreSeqs
    <3>2. PICK l \in Nat : l = Len(unwritten) /\ \A i \in 1 .. l : unwritten[i] \in Byte
      BY <3>1, LenProperties
    <3>3. \A i \in 1 .. n : unwritten[i] \in Byte
      BY <3>2
    <3>4. n \in Int /\ 1 \in Int
      BY <3>2
    <3>5. SubSeq(unwritten, 1, n) \in Seq(Byte)
      BY <3>3, <3>4, SubSeqProperties
    <3>. QED BY <3>5
  <2>4. Len(out \o s) \in Nat /\ Len(out) <= Len(out \o s)
    BY <1>1, <2>3, PrefixOfConcat, ConcatProperties, LenProperties
  <2>. QED BY <1>2, <2>1, <2>2, <2>3, <2>4
<1>6. CASE Map \/ RejectPlan \/ SumRows \/ EndSum \/ PadBefore \/ CopyPayload
  BY <1>3, <1>6 DEF Map, RejectPlan, SumRows, EndSum, PadBefore, CopyPayload
<1>7. CASE PrepareChunks \/ EncodeChunk \/ EndChunks \/ PadAfter \/ EndPlan \/ Return
  BY <1>3, <1>7 DEF PrepareChunks, EncodeChunk, EndChunks, PadAfter, EndPlan, Return
<1>8. CASE WriteZeros \/ Fail \/ UNCHANGED vars
  BY <1>3, <1>8 DEF WriteZeros, Fail, vars
<1>. QED BY <1>4, <1>5, <1>6, <1>7, <1>8 DEF Next, Step

LEMMA StreamHolds == Spec => []StreamInv
<1>1. IInv /\ OutputInv /\ ReportInv => OutputIsAsPlanned
  BY InvariantGivesOutput DEF OutputIsAsReported
<1>. QED BY <1>1, OutputHolds, InitStreamInv, StepStreamInv, PTL DEF Spec

Places == Busy \union {"map", "plan", "returned", "failed"}

LEMMA PlacesHold == Spec => [](at \in Places)
<1>1. Init => at \in Places
  BY DEF Init, Places
<1>2. at \in Places /\ [Next]_vars => (at \in Places)'
  <2>. SUFFICES ASSUME at \in Places, [Next]_vars PROVE at' \in Places
    OBVIOUS
  <2>1. CASE Map \/ RejectPlan \/ BeginPlan \/ SumRows \/ EndSum \/ PadBefore \/ CopyPayload
    BY <2>1 DEF Map, RejectPlan, BeginPlan, SumRows, EndSum, PadBefore, CopyPayload, Places, Busy
  <2>2. CASE PrepareChunks \/ EncodeChunk \/ EndChunks \/ PadAfter \/ EndPlan \/ Return
    BY <2>2 DEF PrepareChunks, EncodeChunk, EndChunks, PadAfter, EndPlan, Return, Places, Busy
  <2>3. CASE WriteZeros \/ WriteSome \/ Fail \/ UNCHANGED vars
    BY <2>3 DEF WriteZeros, WriteSome, Fail, vars, Places
  <2>. QED BY <2>1, <2>2, <2>3 DEF Next, Step
<1>. QED BY <1>1, <1>2, PTL DEF Spec

(* The refinement mapping. *)
Sizes == [k \in 1 .. begun |-> plans[k].rows]

Stage == CASE at = "returned" -> "closed"
           [] at = "failed"   -> "failed"
           [] OTHER           -> "open"

LEMMA SizesFacts ==
  ASSUME IInv
  PROVE  /\ begun \in Nat /\ Sizes \in Seq(Nat) /\ Len(Sizes) = begun
         /\ begun = 0 <=> Sizes = <<>>
         /\ begun > 0 => /\ begun \in 1 .. Len(plans) /\ Current = plans[begun]
                         /\ Sizes[begun] = Current.rows
                         /\ Current.rows \in Nat \ {0}
<1>1. plans \in Seq(Plans) /\ Len(plans) \in Nat /\ begun \in 0 .. Len(plans) /\ begun \in Nat
  BY LenProperties DEF IInv
<1>2. ASSUME NEW k \in 1 .. begun PROVE plans[k].rows \in Nat
  <2>1. k \in 1 .. Len(plans)
    BY <1>1
  <2>. QED BY <1>1, <2>1, TensorFacts
<1>3. Sizes \in [1 .. begun -> Nat]
  BY <1>2 DEF Sizes
<1>4. Sizes \in Seq(Nat) /\ Len(Sizes) = begun
  BY <1>1, <1>3, BlockIsSeq
<1>5. begun = 0 <=> Sizes = <<>>
  BY <1>4, EmptySeq
<1>6. ASSUME begun > 0
      PROVE  /\ begun \in 1 .. Len(plans) /\ Current = plans[begun]
             /\ Sizes[begun] = Current.rows /\ Current.rows \in Nat \ {0}
  <2>1. begun \in 1 .. Len(plans) /\ begun \in 1 .. begun
    BY <1>1, <1>6
  <2>2. Current = plans[begun] /\ Sizes[begun] = plans[begun].rows
    BY <2>1 DEF Current, Sizes
  <2>. QED BY <1>1, <2>1, <2>2, TensorFacts
<1>. QED BY <1>1, <1>4, <1>5, <1>6

(* What a beginning of the planned output holds of rows. *)
LEMMA RowsOfBeginning ==
  ASSUME IInv, begun > 0, NEW head \in Seq(Byte), NEW z \in Nat, IsTail(wanted, head, z, begun),
         NEW g, Collects(g, wanted), NEW t \in Seq(Byte), Len(t) <= Len(wanted),
         t = SubSeq(wanted, 1, Len(t)), Len(head) <= Len(t)
  PROVE  RowsIn(plans, t) =
           g[Len(head)] \o Firsts(begun, Ended(begun, Current.rows, Len(t) - (Len(head) + z)))
<1>1. plans \in Seq(Plans) /\ begun \in 1 .. Len(plans) /\ Current = plans[begun]
  BY SizesFacts DEF IInv
<1>2. wanted \in Seq(Byte)
  BY <1>1, TailBytes
<1>3. PICK h \in Nat, l \in Nat, m \in Nat : h = Len(head) /\ l = Len(t) /\ m = Len(wanted)
                                            /\ h <= l /\ l <= m
  BY <1>2, LenProperties
<1>4. \A i \in 1 .. l : t[i] = wanted[i]
  <2>1. \A i \in 1 .. m : wanted[i] \in Byte
    BY <1>2, <1>3, LenProperties
  <2>2. \A i \in 1 .. l : wanted[i] \in Byte
    BY <1>3, <2>1
  <2>3. 1 \in Int /\ l \in Int /\ \A i \in 1 .. l : i \in 1 .. l - 1 + 1 /\ 1 + i - 1 = i
    BY <1>3
  <2>4. \A i \in 1 .. l - 1 + 1 : SubSeq(wanted, 1, l)[i] = wanted[1 + i - 1]
    BY <2>2, <2>3, SubSeqProperties
  <2>5. t = SubSeq(wanted, 1, l)
    BY <1>3
  <2>6. ASSUME NEW i \in 1 .. l PROVE t[i] = wanted[i]
    <3>1. i \in 1 .. l - 1 + 1 /\ 1 + i - 1 = i
      BY <2>3
    <3>2. SubSeq(wanted, 1, l)[i] = wanted[1 + i - 1]
      BY <2>4, <3>1
    <3>. QED BY <2>5, <3>1, <3>2
  <2>. QED BY <2>6
<1>5. RowsIn(plans, t) = g[l]
  BY <1>2, <1>3, <1>4, WholeRowsFacts
<1>6. RowsBehind(g, h, z, begun, l)
  <2>1. \A n \in h .. m : RowsBehind(g, h, z, begun, n)
    BY <1>1, <1>3, TailRows
  <2>2. l \in h .. m
    BY <1>3
  <2>. QED BY <2>1, <2>2
<1>. QED BY <1>1, <1>3, <1>5, <1>6 DEF RowsBehind

(* What TensorStream knows of the current tensor. *)
LEMMA WrittenRows ==
  ASSUME IInv, begun > 0, NEW past \in Seq(Line), NEW m \in Nat,
         \A j \in 1 .. Len(past) : past[j][1] <= begun - 1,
         WholeRows = past \o Firsts(begun, m)
  PROVE  Stream!Written = m
<1>1. begun \in Nat /\ Len(Sizes) = begun
  BY SizesFacts
<1>2. Stream!Written =
        IF WholeRows # <<>> /\ WholeRows[Len(WholeRows)][1] = begun
          THEN WholeRows[Len(WholeRows)][2] + 1 ELSE 0
  BY <1>1 DEF Stream!Written, Sizes
<1>3. PICK f : f = Firsts(begun, m)
  OBVIOUS
<1>4. /\ f \in Seq(Line) /\ Len(f) = m
      /\ \A i \in 1 .. m : f[i] = <<begun, i - 1>>
  BY <1>1, <1>3, FirstsFacts
<1>5. PICK p \in Nat : p = Len(past)
  BY LenProperties
<1>6. /\ WholeRows \in Seq(Line) /\ Len(WholeRows) = p + m
      /\ \A i \in 1 .. p + m : WholeRows[i] = IF i <= p THEN past[i] ELSE f[i - p]
  <2>1. /\ past \o f \in Seq(Line) /\ Len(past \o f) = Len(past) + Len(f)
        /\ \A i \in 1 .. Len(past) + Len(f) :
             (past \o f)[i] = IF i <= Len(past) THEN past[i] ELSE f[i - Len(past)]
    BY <1>4, ConcatProperties
  <2>. QED BY <1>3, <1>4, <1>5, <2>1
<1>7. CASE m = 0
  <2>1. CASE p = 0
    <3>1. WholeRows = <<>>
      BY <1>6, <1>7, <2>1, EmptySeq
    <3>. QED BY <1>2, <1>7, <3>1
  <2>2. CASE p # 0
    <3>1. p \in 1 .. p + m /\ p <= p /\ p + m = p /\ p \in 1 .. p
      BY <1>7, <2>2
    <3>2. WholeRows[Len(WholeRows)] = past[p]
      BY <1>6, <3>1
    <3>3. past[p] \in Line /\ past[p][1] <= begun - 1
      BY <1>5, <3>1, LenProperties
    <3>4. past[p][1] \in Nat
      BY <3>3 DEF Line
    <3>5. past[p][1] # begun
      BY <1>1, <3>3, <3>4
    <3>. QED BY <1>2, <1>7, <3>2, <3>5
  <2>. QED BY <2>1, <2>2
<1>8. CASE m # 0
  <2>1. p + m \in 1 .. p + m /\ ~ (p + m <= p) /\ (p + m) - p = m /\ m \in 1 .. m /\ p + m # 0
    BY <1>8
  <2>2. WholeRows[Len(WholeRows)] = f[m]
    BY <1>6, <2>1
  <2>3. f[m] = <<begun, m - 1>>
    BY <1>4, <2>1
  <2>4. WholeRows # <<>>
    <3>1. Len(WholeRows) # 0
      BY <1>6, <2>1
    <3>. QED BY <3>1, EmptySeq
  <2>5. WholeRows[Len(WholeRows)][1] = begun /\ WholeRows[Len(WholeRows)][2] + 1 = m
    BY <2>2, <2>3
  <2>. QED BY <1>2, <2>4, <2>5
<1>. QED BY <1>7, <1>8

(* More rows of a tensor. *)
MoreRows(k, m, n) == [i \in 1 .. n - m |-> <<k, m + i - 1>>]

LEMMA FirstsSplit ==
  ASSUME NEW k \in Nat, NEW m \in Nat, NEW n \in Nat, m <= n
  PROVE  MoreRows(k, m, n) \in Seq(Line) /\ Firsts(k, n) = Firsts(k, m) \o MoreRows(k, m, n)
<1>1. PICK d \in Nat : d = n - m /\ n = m + d
  <2>1. n - m \in Nat /\ n = m + (n - m)
    OBVIOUS
  <2>. QED BY <2>1
<1>2. PICK v : v = MoreRows(k, m, n)
  OBVIOUS
<1>3. /\ v \in Seq(Line) /\ Len(v) = d
      /\ \A i \in 1 .. d : v[i] = <<k, m + i - 1>>
  <2>1. \A i \in 1 .. d : <<k, m + i - 1>> \in Line
    BY DEF Line
  <2>2. v = [i \in 1 .. d |-> <<k, m + i - 1>>]
    BY <1>1, <1>2 DEF MoreRows
  <2>3. v \in [1 .. d -> Line]
    BY <2>1, <2>2
  <2>4. v \in Seq(Line) /\ Len(v) = d
    BY <2>3, BlockIsSeq
  <2>. QED BY <2>2, <2>4
<1>4. PICK s, t : s = Firsts(k, m) /\ t = Firsts(k, n)
  OBVIOUS
<1>5. /\ s \in Seq(Line) /\ Len(s) = m /\ \A i \in 1 .. m : s[i] = <<k, i - 1>>
      /\ t \in Seq(Line) /\ Len(t) = m + d /\ \A i \in 1 .. m + d : t[i] = <<k, i - 1>>
  <2>1. \A x \in Nat : /\ Firsts(k, x) \in Seq(Line) /\ Len(Firsts(k, x)) = x
                       /\ \A i \in 1 .. x : Firsts(k, x)[i] = <<k, i - 1>>
    BY FirstsFacts
  <2>2. n \in Nat /\ n = m + d
    BY <1>1
  <2>. QED BY <1>4, <2>1, <2>2
<1>6. /\ s \o v \in Seq(Line) /\ Len(s \o v) = m + d
      /\ \A i \in 1 .. m + d : (s \o v)[i] = IF i <= m THEN s[i] ELSE v[i - m]
  BY <1>3, <1>5, ConcatProperties
<1>7. ASSUME NEW i \in 1 .. m + d PROVE t[i] = (s \o v)[i]
  <2>1. CASE i <= m
    <3>1. i \in 1 .. m
      BY <2>1
    <3>. QED BY <1>5, <1>6, <2>1, <3>1
  <2>2. CASE ~ (i <= m)
    <3>1. i - m \in 1 .. d /\ m + (i - m) - 1 = i - 1
      BY <2>2
    <3>. QED BY <1>3, <1>5, <1>6, <2>2, <3>1
  <2>. QED BY <2>1, <2>2
<1>8. t = s \o v
  BY <1>5, <1>6, <1>7, SeqEqual
<1>. QED BY <1>2, <1>3, <1>4, <1>8

(* Between tensors all rows of the last one have been written. *)
LEMMA StreamIsComplete ==
  ASSUME IInv, OutputInv, OutputIsAsPlanned, StreamInv, at \in {"plan", "returned"}
  PROVE  Stream!Complete
<1>1. CASE begun = 0
  <2>1. Sizes = <<>>
    BY <1>1, SizesFacts
  <2>. QED BY <2>1 DEF Stream!Complete, Sizes
<1>2. CASE begun # 0
  <2>1. /\ begun > 0 /\ plans \in Seq(Plans) /\ begun \in 1 .. Len(plans)
        /\ Current = plans[begun] /\ begun \in Nat \ {0}
    BY <1>2, SizesFacts DEF IInv
  <2>2. PICK head \in Seq(Byte), z \in Nat : IsStream(head, z)
    BY <2>1 DEF StreamInv
  <2>3. wanted \in Seq(Byte) /\ out = wanted
    BY DEF OutputInv, PiecesAreSeqs, OutputIsAsPlanned
  <2>4. PICK g : Collects(g, wanted)
    BY <2>3, RowsAreCollected
  <2>5. PICK h \in Nat, l \in Nat, c \in Nat \ {0}, s \in Nat :
           /\ h = Len(head) /\ l = Len(wanted) /\ c = Current.rows /\ s = SizeOf(begun, c)
           /\ h + z + s <= l
    <3>1. PICK s \in Nat, c \in Nat \ {0} : c = Current.rows /\ s = SizeOf(begun, c)
      BY <2>1, TensorFacts
    <3>2. Len(head) + z + s <= Len(wanted)
      BY <2>1, <2>2, <3>1, TailBytes DEF IsStream
    <3>. QED BY <2>3, <3>1, <3>2, LenProperties
  <2>6. l - (h + z) \in Int /\ l - (h + z) >= s /\ h <= l
    BY <2>5
  <2>7. Ended(begun, c, l - (h + z)) = c
    BY <2>1, <2>5, <2>6, EndedOutside, TensorFacts
  <2>8. wanted = SubSeq(wanted, 1, Len(wanted))
    BY <2>3 DEF OutputIsAsPlanned
  <2>9. RowsIn(plans, wanted) = g[h] \o Firsts(begun, Ended(begun, c, l - (h + z)))
    <3>1. IsTail(wanted, head, z, begun) /\ Len(wanted) <= Len(wanted) /\ Len(head) <= Len(wanted)
      BY <2>2, <2>5, <2>6 DEF IsStream
    <3>2. RowsIn(plans, wanted) =
            g[Len(head)] \o Firsts(begun, Ended(begun, Current.rows, Len(wanted) - (Len(head) + z)))
      BY <2>1, <2>3, <2>4, <2>8, <3>1, RowsOfBeginning
    <3>. QED BY <2>5, <3>2
  <2>10. WholeRows = g[h] \o Firsts(begun, c)
    BY <2>3, <2>7, <2>9 DEF WholeRows
  <2>11. g[h] \in Seq(Line)
    <3>1. h \in 0 .. Len(wanted)
      BY <2>5, <2>6
    <3>. QED BY <2>4, <3>1 DEF Collects
  <2>12. \A j \in 1 .. Len(g[h]) : g[h][j][1] <= begun - 1
    <3>1. begun - 1 \in Int
      BY <2>1
    <3>2. \A i \in 1 .. Len(head) : wanted[i] = head[i]
      BY <2>1, <2>2, TailBytes DEF IsStream
    <3>3. Len(head) <= Len(wanted) /\ Len(wanted) \in Nat
      BY <2>5, <2>6
    <3>4. BytesUpTo(head, begun - 1)
      BY <2>2 DEF IsStream
    <3>. QED BY <2>4, <2>5, <3>1, <3>2, <3>3, <3>4, EarlierRows
  <2>13. Stream!Written = c
    BY <2>1, <2>5, <2>10, <2>11, <2>12, WrittenRows
  <2>14. Sizes[Len(Sizes)] = c
    BY <2>1, <2>5, SizesFacts
  <2>. QED BY <2>13, <2>14 DEF Stream!Complete, Sizes
<1>. QED BY <1>1, <1>2

(* Steps that TensorStream does not see. *)
LEMMA InnerStep ==
  ASSUME UNCHANGED <<plans, begun, out>>, Stage' = Stage
  PROVE  UNCHANGED Stream!vars
<1>1. Sizes' = Sizes
  BY DEF Sizes
<1>2. WholeRows' = WholeRows
  BY DEF WholeRows
<1>. QED BY <1>1, <1>2 DEF Stream!vars, Sizes, Stage

LEMMA BeginIsPromised ==
  ASSUME IInv, OutputInv, OutputIsAsPlanned, StreamInv, BeginPlan
  PROVE  Stream!Next
<1>1. /\ at = "plan" /\ at' \in {"imatrix", "pad"} /\ begun < Len(plans) /\ begun' = begun + 1
      /\ UNCHANGED <<plans, out>>
  BY DEF BeginPlan, call, writeVars
<1>2. PICK n : n = plans[begun + 1].rows
  OBVIOUS
<1>3. /\ begun \in Nat /\ Len(plans) \in Nat /\ begun + 1 \in 1 .. Len(plans)
      /\ Sizes \in Seq(Nat) /\ Len(Sizes) = begun
  BY <1>1, SizesFacts, LenProperties DEF IInv
<1>4. n \in 1 .. MaxRows /\ n \in Nat
  <2>1. plans[begun + 1] \in Plans
    BY <1>3 DEF IInv
  <2>2. n \in 1 .. MaxRows
    BY <1>2, <2>1, PayloadAssumption DEF PlanIsAccepted
  <2>3. MaxRows \in Nat
    BY PayloadAssumption
  <2>. QED BY <2>2, <2>3
<1>5. Sizes' = Append(Sizes, n)
  <2>1. Sizes' = [k \in 1 .. begun + 1 |-> plans[k].rows]
    BY <1>1 DEF Sizes
  <2>2. /\ Append(Sizes, n) \in Seq(Nat) /\ Len(Append(Sizes, n)) = begun + 1
        /\ \A k \in 1 .. begun : Append(Sizes, n)[k] = Sizes[k]
        /\ Append(Sizes, n)[begun + 1] = n
    BY <1>3, <1>4, AppendProperties
  <2>3. \A k \in 1 .. begun : Sizes[k] = plans[k].rows
    BY DEF Sizes
  <2>4. ASSUME NEW k \in 1 .. begun + 1
        PROVE  Sizes'[k] = Append(Sizes, n)[k] /\ Sizes'[k] \in Nat
    <3>1. k \in 1 .. begun \/ k = begun + 1
      BY <1>3
    <3>2. Sizes'[k] = Append(Sizes, n)[k]
      BY <1>2, <2>1, <2>2, <2>3, <3>1
    <3>. QED BY <2>2, <3>2
  <2>5. Sizes' \in [1 .. begun + 1 -> Nat]
    BY <2>1, <2>4
  <2>6. Sizes' \in Seq(Nat) /\ Len(Sizes') = begun + 1
    <3>1. begun + 1 \in Nat
      BY <1>3
    <3>. QED BY <2>5, <3>1, BlockIsSeq
  <2>. QED BY <2>2, <2>4, <2>6, SeqEqual
<1>6. WholeRows' = WholeRows
  BY <1>1 DEF WholeRows
<1>7. Stage = "open" /\ Stage' = "open"
  BY <1>1 DEF Stage
<1>8. Stream!Complete
  BY <1>1, StreamIsComplete
<1>9. Stream!Begin(n)
  BY <1>5, <1>6, <1>7, <1>8 DEF Stream!Begin, Sizes, Stage
<1>10. Len(Sizes) < MaxPlans
  <2>1. Len(plans) <= MaxPlans /\ MaxPlans \in Nat
    BY PayloadAssumption DEF StreamInv
  <2>. QED BY <1>1, <1>3, <2>1
<1>11. n \in 0 .. MaxRows
  BY <1>4
<1>. QED BY <1>9, <1>10, <1>11 DEF Stream!Next, Sizes

LEMMA WriteIsPromised ==
  ASSUME IInv, OutputInv, OutputIsAsPlanned, OutputInv', OutputIsAsPlanned', StreamInv,
         at \in Places, WriteSome
  PROVE  Stream!Next \/ UNCHANGED Stream!vars
<1>1. PICK i \in 1 .. Len(unwritten) : out' = out \o SubSeq(unwritten, 1, i)
  BY DEF WriteSome
<1>2. UNCHANGED <<plans, begun, wanted, at>> /\ at # "failed"
  BY DEF WriteSome, call
<1>3. at \in Busy
  <2>1. unwritten # <<>>
    BY <1>1, EmptySeq
  <2>2. at \notin Idle
    BY <2>1 DEF OutputInv, WritesAreDone
  <2>. QED BY <1>2, <2>2 DEF Idle, Places
<1>4. /\ begun > 0 /\ begun \in Nat \ {0} /\ plans \in Seq(Plans) /\ begun \in 1 .. Len(plans)
      /\ Current = plans[begun] /\ Len(Sizes) = begun /\ Sizes # <<>>
  BY <1>3, SizesFacts DEF IInv
<1>5. PICK head \in Seq(Byte), z \in Nat : IsStream(head, z)
  BY <1>4 DEF StreamInv
<1>6. PICK t \in Seq(Byte) : /\ t = out' /\ Len(t) <= Len(wanted)
                             /\ t = SubSeq(wanted, 1, Len(t))
  BY <1>2 DEF OutputInv, PiecesAreSeqs, OutputIsAsPlanned
<1>7. /\ out \in Seq(Byte) /\ Len(out) <= Len(wanted) /\ out = SubSeq(wanted, 1, Len(out))
      /\ wanted \in Seq(Byte)
  BY DEF OutputInv, PiecesAreSeqs, OutputIsAsPlanned
<1>8. PICK h \in Nat, k \in Nat, l \in Nat, m \in Nat :
         /\ h = Len(head) /\ k = Len(out) /\ l = Len(t) /\ m = Len(wanted)
         /\ h <= k /\ k <= l /\ l <= m
  <2>1. Len(head) \in Nat /\ Len(out) \in Nat /\ Len(t) \in Nat /\ Len(wanted) \in Nat
    BY <1>6, <1>7, LenProperties
  <2>2. Len(out) <= Len(t)
    <3>1. PICK u \in Seq(Byte) : u = SubSeq(unwritten, 1, i)
      <4>1. unwritten \in Seq(Byte)
        BY DEF OutputInv, PiecesAreSeqs
      <4>2. PICK y \in Nat : y = Len(unwritten) /\ \A j \in 1 .. y : unwritten[j] \in Byte
        BY <4>1, LenProperties
      <4>3. \A j \in 1 .. i : unwritten[j] \in Byte
        BY <4>2
      <4>4. i \in Int /\ 1 \in Int
        BY <4>2
      <4>5. SubSeq(unwritten, 1, i) \in Seq(Byte)
        BY <4>3, <4>4, SubSeqProperties
      <4>. QED BY <4>5
    <3>. QED BY <1>1, <1>6, <1>7, <3>1, PrefixOfConcat
  <2>. QED BY <1>5, <1>6, <1>7, <2>1, <2>2 DEF IsStream
<1>9. PICK g : Collects(g, wanted)
  BY <1>7, RowsAreCollected
<1>10. PICK c \in Nat : c = Current.rows
  BY <1>4, TensorFacts
<1>11. SizeIn(begun) \in Nat \ {0}
  BY <1>4, TensorFacts
<1>12. PICK a \in 0 .. c, b \in 0 .. c :
          /\ a = Ended(begun, c, k - (h + z)) /\ b = Ended(begun, c, l - (h + z)) /\ a <= b
  <2>1. k - (h + z) \in Int /\ l - (h + z) \in Int /\ k - (h + z) <= l - (h + z)
    BY <1>8
  <2>2. begun \in Nat
    BY <1>4
  <2>3. PICK x \in Int, y \in Int : x = k - (h + z) /\ y = l - (h + z) /\ x <= y
    BY <2>1
  <2>4. Ended(begun, c, x) \in 0 .. c /\ Ended(begun, c, y) \in 0 .. c
    BY <1>10, <1>11, <2>2, <2>3, EndedType
  <2>5. Ended(begun, c, x) <= Ended(begun, c, y)
    BY <1>10, <1>11, <2>2, <2>3, EndedMonotone
  <2>. QED BY <2>3, <2>4, <2>5
<1>13. PICK past \in Seq(Line) : past = g[h] /\ \A j \in 1 .. Len(past) : past[j][1] <= begun - 1
  <2>1. begun - 1 \in Int
    BY <1>4
  <2>2. \A j \in 1 .. Len(head) : wanted[j] = head[j]
    BY <1>4, <1>5, TailBytes DEF IsStream
  <2>3. Len(head) <= Len(wanted) /\ Len(wanted) \in Nat /\ h \in 0 .. Len(wanted)
    BY <1>8
  <2>4. BytesUpTo(head, begun - 1)
    BY <1>5 DEF IsStream
  <2>5. \A j \in 1 .. Len(g[h]) : g[h][j][1] <= begun - 1
    BY <1>8, <1>9, <2>1, <2>2, <2>3, <2>4, EarlierRows
  <2>6. g[h] \in Seq(Line)
    BY <1>9, <2>3 DEF Collects
  <2>. QED BY <2>5, <2>6
<1>14. IsTail(wanted, head, z, begun)
  BY <1>5 DEF IsStream
<1>15. WholeRows = past \o Firsts(begun, a)
  <2>1. Len(head) <= Len(out)
    BY <1>8
  <2>2. RowsIn(plans, out) =
          g[Len(head)] \o Firsts(begun, Ended(begun, Current.rows, Len(out) - (Len(head) + z)))
    <3>1. begun > 0
      BY <1>4
    <3>. QED BY <1>5, <1>7, <1>9, <1>14, <2>1, <3>1, RowsOfBeginning
  <2>. QED BY <1>8, <1>10, <1>12, <1>13, <2>2 DEF WholeRows
<1>16. WholeRows' = past \o Firsts(begun, b)
  <2>1. Len(head) <= Len(t)
    BY <1>8
  <2>2. RowsIn(plans, t) =
          g[Len(head)] \o Firsts(begun, Ended(begun, Current.rows, Len(t) - (Len(head) + z)))
    <3>1. begun > 0
      BY <1>4
    <3>. QED BY <1>5, <1>6, <1>9, <1>14, <2>1, <3>1, RowsOfBeginning
  <2>3. WholeRows' = RowsIn(plans, t)
    BY <1>2, <1>6 DEF WholeRows
  <2>. QED BY <1>8, <1>10, <1>12, <1>13, <2>2, <2>3
<1>17. a \in Nat /\ b \in Nat
  BY <1>10, <1>12
<1>18. Stream!Written = a
  BY <1>4, <1>13, <1>15, <1>17, WrittenRows
<1>19. Sizes' = Sizes /\ Stage = "open" /\ Stage' = "open"
  BY <1>2, <1>3 DEF Sizes, Stage, Busy
<1>20. CASE a = b
  <2>1. WholeRows' = WholeRows
    BY <1>15, <1>16, <1>20
  <2>. QED BY <1>19, <2>1 DEF Stream!vars, Sizes, Stage
<1>21. CASE a # b
  <2>1. b \in a + 1 .. c
    BY <1>10, <1>12, <1>17, <1>21
  <2>2. Sizes[Len(Sizes)] = c
    BY <1>4, <1>10, SizesFacts
  <2>3. PICK f, v : f = Firsts(begun, a) /\ v = MoreRows(begun, a, b)
    OBVIOUS
  <2>4. f \in Seq(Line) /\ v \in Seq(Line) /\ Firsts(begun, b) = f \o v
    <3>1. begun \in Nat
      BY <1>4
    <3>2. f \in Seq(Line)
      BY <1>17, <2>3, <3>1, FirstsFacts
    <3>3. v \in Seq(Line) /\ Firsts(begun, b) = Firsts(begun, a) \o v
      BY <1>12, <1>17, <2>3, <3>1, FirstsSplit, ZenonT(60)
    <3>. QED BY <2>3, <3>2, <3>3
  <2>5. past \o (f \o v) = (past \o f) \o v
    <3>1. \A p, q, s \in Seq(Line) : (p \o q) \o s = p \o (q \o s)
      BY LinesAssociative, Zenon
    <3>. QED BY <1>13, <2>4, <3>1, Zenon
  <2>6. WholeRows' = WholeRows \o v
    BY <1>15, <1>16, <2>3, <2>4, <2>5
  <2>7. Stream!RowsFrom(a, b) = v
    BY <1>4, <2>3 DEF Stream!RowsFrom, MoreRows, Sizes
  <2>8. Stream!WriteChunk
    BY <1>4, <1>18, <1>19, <2>1, <2>2, <2>6, <2>7 DEF Stream!WriteChunk, Sizes, Stage
  <2>. QED BY <2>8 DEF Stream!Next
<1>. QED BY <1>20, <1>21

LEMMA InitIsPromised == Init => Stream!Init
<1>. SUFFICES ASSUME Init PROVE Stream!Init
  OBVIOUS
<1>1. PICK n \in Nat : out = Zeros(n)
  BY PayloadAssumption DEF Init
<1>2. begun = 0 /\ at = "map"
  BY DEF Init
<1>3. out \in Seq(Byte) /\ Len(out) = n /\ \A i \in 1 .. n : out[i] = Zero
  BY <1>1, ZeroFacts DEF Zeros
<1>4. WholeRows = <<>>
  <2>1. PICK g : Collects(g, out)
    BY <1>3, RowsAreCollected
  <2>2. RowsIn(plans, out) = g[n]
    BY <1>3, <2>1, WholeRowsFacts
  <2>3. \A i \in 1 .. n : g[i] = g[i - 1] \o <<>>
    BY <1>3, <2>1 DEF Collects, RowIn, EndsRow
  <2>. DEFINE T == {i \in 0 .. n : g[i] = <<>>}
  <2>4. 0 \in T
    BY <2>1 DEF Collects
  <2>5. ASSUME NEW i \in 0 .. n - 1, i \in T PROVE i + 1 \in T
    <3>1. i + 1 \in 1 .. n /\ i + 1 \in 0 .. n /\ (i + 1) - 1 = i
      OBVIOUS
    <3>2. g[i + 1] = <<>> \o <<>>
      BY <2>3, <2>5, <3>1
    <3>. QED BY <3>1, <3>2, EmptyFacts
  <2>6. n \in T
    <3>. HIDE DEF T
    <3>. QED BY <2>4, <2>5, Numbers!InductionUpTo
  <2>. QED BY <2>2, <2>6 DEF WholeRows
<1>5. Sizes = <<>>
  <2>1. Sizes \in [1 .. 0 -> Nat]
    BY <1>2 DEF Sizes
  <2>2. Sizes \in Seq(Nat) /\ Len(Sizes) = 0
    BY <2>1, BlockIsSeq
  <2>. QED BY <2>2, EmptySeq
<1>6. Stage = "open"
  BY <1>2 DEF Stage
<1>. QED BY <1>4, <1>5, <1>6 DEF Stream!Init, Sizes, Stage

LEMMA StepIsPromised ==
  /\ IInv /\ OutputInv /\ OutputIsAsPlanned /\ StreamInv /\ at \in Places
  /\ OutputInv' /\ OutputIsAsPlanned'
  /\ [Next]_vars
  => [Stream!Next]_(Stream!vars)
<1>. SUFFICES ASSUME IInv, OutputInv, OutputIsAsPlanned, StreamInv, at \in Places,
                     OutputInv', OutputIsAsPlanned', [Next]_vars
              PROVE  Stream!Next \/ UNCHANGED Stream!vars
  OBVIOUS
<1>. USE DEF call, rowVars, writeVars
<1>1. CASE RejectPlan \/ Fail
  <2>1. at \notin {"returned", "failed"} /\ at' = "failed" /\ UNCHANGED <<plans, begun, out>>
    BY <1>1 DEF RejectPlan, Fail
  <2>2. Stage = "open" /\ Stage' = "failed" /\ Sizes' = Sizes /\ WholeRows' = WholeRows
    BY <2>1 DEF Stage, Sizes, WholeRows
  <2>3. Stream!Fail
    BY <2>2 DEF Stream!Fail, Sizes, Stage
  <2>. QED BY <2>3 DEF Stream!Next
<1>2. CASE Return
  <2>1. at = "plan" /\ at' = "returned" /\ UNCHANGED <<plans, begun, out>>
    BY <1>2 DEF Return
  <2>2. Stage = "open" /\ Stage' = "closed" /\ Sizes' = Sizes /\ WholeRows' = WholeRows
    BY <2>1 DEF Stage, Sizes, WholeRows
  <2>3. Stream!Complete
    BY <2>1, StreamIsComplete
  <2>4. Stream!Close
    BY <2>2, <2>3 DEF Stream!Close, Sizes, Stage
  <2>. QED BY <2>4 DEF Stream!Next
<1>3. CASE Map \/ SumRows \/ EndSum \/ PadBefore \/ CopyPayload
  <2>1. UNCHANGED <<plans, begun, out>> /\ Stage' = Stage
    BY <1>3 DEF Map, SumRows, EndSum, PadBefore, CopyPayload, Stage
  <2>. QED BY <2>1, InnerStep
<1>4. CASE PrepareChunks \/ EncodeChunk \/ EndChunks \/ PadAfter \/ EndPlan
  <2>1. UNCHANGED <<plans, begun, out>> /\ Stage' = Stage
    BY <1>4 DEF PrepareChunks, EncodeChunk, EndChunks, PadAfter, EndPlan, Stage
  <2>. QED BY <2>1, InnerStep
<1>5. CASE WriteZeros \/ UNCHANGED vars
  <2>1. UNCHANGED <<plans, begun, out>> /\ Stage' = Stage
    BY <1>5 DEF WriteZeros, vars, Stage
  <2>. QED BY <2>1, InnerStep
<1>. QED
  BY <1>1, <1>2, <1>3, <1>4, <1>5, BeginIsPromised, WriteIsPromised DEF Next, Step

(* The payload writer does what write_tensor_payload promises, for every   *)
(* list of plans: however write() cuts its bytes and chunks its rows, the  *)
(* rows that are whole in the output are those of one tensor after the     *)
(* other, each once and in order, and a tensor begins only when all rows   *)
(* of the one before it are there.                                         *)
THEOREM PayloadIsAStream ==
  Spec => Stream!Init /\ [][Stream!Next]_(Stream!vars)
<1>1. IInv /\ OutputInv /\ ReportInv => OutputIsAsPlanned
  BY InvariantGivesOutput DEF OutputIsAsReported
<1>. QED
  BY <1>1, OutputHolds, StreamHolds, PlacesHold, InitIsPromised, StepIsPromised, PTL DEF Spec

=============================================================================
