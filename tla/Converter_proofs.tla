-------------------------- MODULE Converter_proofs --------------------------
(***************************************************************************)
(* The layout of the output for every list of tensors, every header and    *)
(* every choice of options: LayoutInv is inductive, and the payloads lie   *)
(* where the header says because of it.  What the device encodes is        *)
(* compared with the CPU's encoding as often as was asked:                 *)
(* VerificationInv counts the comparisons.  Then what is said of output    *)
(* files once they are there: which differences are found between two of   *)
(* them, and what of one file is reported.                                 *)
(***************************************************************************)
EXTENDS Converter, Readers, FiniteSetTheorems, TLAPS

(* Padding rounds up to the next multiple of the alignment. *)
LEMMA PadFacts ==
  ASSUME NEW n \in Nat
  PROVE  /\ Pad(n) \in Nat
         /\ Pad(n) >= n
         /\ Aligned(Pad(n))
         /\ Aligned(n) => Pad(n) = n
  BY DEF Pad, Aligned

(* Sums of multiples of the alignment are multiples of it. *)
LEMMA AlignedSum ==
  ASSUME NEW a \in Nat, NEW b \in Nat, Aligned(a), Aligned(b)
  PROVE  a + b \in Nat /\ Aligned(a + b)
  BY DEF Aligned

LEMMA NbytesType ==
  ASSUME NEW t \in Tensors
  PROVE  Nbytes(t) \in Nat
<1>1. t.rows \in Nat /\ t.rowBytes \in Nat
  BY ConverterAssumption
<1> QED
  BY <1>1 DEF Nbytes

LEMMA EncoderType ==
  ASSUME NEW t \in Tensors
  PROVE  Encoder(t) \in {"copy", "gpu", "native", "generic"}
<1>1. CASE t.copied
  BY <1>1, ConverterAssumption DEF Encoder, UsesGpu, RequestsGpu
<1>2. CASE ~ t.copied /\ UsesGpu(t)
  BY <1>2 DEF Encoder
<1>3. CASE ~ t.copied /\ ~ UsesGpu(t)
  BY <1>3 DEF Encoder
<1> QED
  BY <1>1, <1>2, <1>3

(* A chunk has a size and does not run over the end of the tensor. *)
LEMMA NextBytesFacts ==
  ASSUME options \in Options, NEW t \in Tensors, done \in Nat, done <= Nbytes(t)
  PROVE  NextBytes(t) \in Nat /\ done + NextBytes(t) <= Nbytes(t)
<1>1. /\ t.rows \in Nat /\ t.rowBytes \in Nat
      /\ t.workBytes \in Nat \ {0} /\ t.deviceBytes \in Nat \ {0}
  BY ConverterAssumption
<1>2. options.scratch \in Nat /\ options.vram \in Nat
  BY ConverterAssumption DEF OptionsType
<1>3. options.scratch \div t.workBytes \in Nat /\ options.vram \div t.deviceBytes \in Nat
  BY <1>1, <1>2
<1>4. RowsPerChunk(t) \in Nat
  BY <1>1, <1>3 DEF RowsPerChunk, MinOf, MaxOf
<1>5. RowsPerChunk(t) * t.rowBytes \in Nat
  BY <1>1, <1>4
<1>6. Nbytes(t) \in Nat
  BY NbytesType
<1>7. ChunkBytes(t) \in Nat
  BY <1>2, <1>5, <1>6 DEF ChunkBytes, MinOf, MaxOf
<1> QED
  BY <1>6, <1>7 DEF NextBytes, MinOf

LEMMA InitLayout == Init => LayoutInv
<1> SUFFICES ASSUME Init
             PROVE  LayoutInv
  OBVIOUS
<1>1. options.verifyFirst \in Nat \union {All} /\ header \in Nat
  BY ConverterAssumption DEF Init, OptionsType
<1>2. plans \in Seq(Tensors)
  BY DEF Init
<1>3. Len(plans) \in Nat
  BY <1>2
<1>4. /\ offsets = <<>> /\ begins = <<>> /\ encoders = <<>>
      /\ at = "start" /\ gpu = FALSE /\ selected = {} /\ verified = {}
      /\ offset = 0 /\ done = 0 /\ unwritten = 0 /\ pos = 0
      /\ options \in Options /\ remaining = options.verifyFirst
      /\ disk \in {"absent", "old"}
  BY DEF Init
<1>5. TypeOK
  <2>1. offsets \in Seq(Nat) /\ Len(offsets) <= Len(plans)
    BY <1>3, <1>4
  <2>2. begins \in Seq(Nat) /\ Len(begins) <= Len(plans)
    BY <1>3, <1>4
  <2>3. encoders \in Seq({"copy", "gpu", "native", "generic"})
    BY <1>4
  <2>4. remaining \in Nat \union {All}
    BY <1>1, <1>4
  <2>5. selected \subseteq DOMAIN plans /\ verified \subseteq DOMAIN plans
    BY <1>4
  <2>6. done \in Nat /\ unwritten \in 0 .. done
    BY <1>4
  <2> QED
    BY <1>1, <1>2, <1>4, <2>1, <2>2, <2>3, <2>4, <2>5, <2>6 DEF TypeOK
<1> QED
  BY <1>4, <1>5 DEF LayoutInv, HeaderInv, PositionInv, PayloadIsWhereHeaderSays, Aligned

-----------------------------------------------------------------------------
(* The tensor under way is one of the plan's, and its payload has room. *)
LEMMA CurrentFacts ==
  ASSUME LayoutInv, begins # <<>>
  PROVE  /\ Len(begins) \in Nat /\ Len(begins) >= 1 /\ Len(begins) <= Len(plans)
         /\ Len(begins) \in DOMAIN offsets
         /\ Current \in Tensors
         /\ Nbytes(Current) \in Nat
         /\ Pad(Nbytes(Current)) \in Nat
         /\ begins[Len(begins)] \in Nat
         /\ begins[Len(begins)] = Pad(header) + offsets[Len(begins)]
<1>1. /\ Len(begins) \in Nat /\ Len(begins) >= 1 /\ Len(begins) <= Len(plans)
      /\ Composed
      /\ Len(plans) \in Nat
  BY DEF LayoutInv, TypeOK, PositionInv
<1>2. Len(begins) \in DOMAIN offsets
  BY <1>1 DEF LayoutInv, TypeOK, Composed
<1>3. Current \in Tensors
  BY <1>1 DEF LayoutInv, TypeOK, Current
<1>4. Nbytes(Current) \in Nat /\ Pad(Nbytes(Current)) \in Nat
  BY <1>3, NbytesType, PadFacts
<1>5. Len(begins) \in DOMAIN begins /\ begins[Len(begins)] \in Nat
  BY <1>1 DEF LayoutInv, TypeOK
<1>6. begins[Len(begins)] = Pad(header) + offsets[Len(begins)]
  BY <1>5 DEF LayoutInv, PayloadIsWhereHeaderSays
<1> QED
  BY <1>1, <1>2, <1>3, <1>4, <1>5, <1>6

(* Between tensors, the next aligned position is the one the header names. *)
LEMMA BetweenTensors ==
  ASSUME LayoutInv, at = "tensor"
  PROVE  Pad(pos) = Pad(header) + OffsetAfter(Len(begins))
<1>0. header \in Nat /\ offset \in Nat /\ Len(offsets) \in Nat /\ Composed
  BY DEF LayoutInv, TypeOK, PositionInv
<1>1. CASE begins = <<>>
  <2>1. pos = header /\ Len(begins) = 0
    BY <1>1 DEF LayoutInv, PositionInv
  <2>2. OffsetAfter(0) = 0
    BY <1>0 DEF LayoutInv, TypeOK, HeaderInv, OffsetAfter
  <2> QED
    <3>1. Pad(header) \in Nat
      BY <1>0, PadFacts
    <3> QED
      BY <3>1, <2>1, <2>2
<1>2. CASE begins # <<>>
  <2> DEFINE i == Len(begins)
  <2>0. i \in DOMAIN offsets /\ begins[i] = Pad(header) + offsets[i]
    BY <1>2, CurrentFacts
  <2>1. pos = Pad(header) + offsets[i] + Pad(Nbytes(Current))
    BY <1>2, <2>0 DEF LayoutInv, PositionInv
  <2>2. i \in DOMAIN offsets /\ offsets[i] \in Nat /\ Aligned(offsets[i])
    BY <2>0 DEF LayoutInv, TypeOK, HeaderInv
  <2>3. OffsetAfter(i) = offsets[i] + Pad(Nbytes(Current))
    BY <2>2 DEF LayoutInv, HeaderInv, Current
  <2>4. pos \in Nat /\ Aligned(pos)
    <3>1. /\ Pad(header) \in Nat /\ Aligned(Pad(header))
          /\ Pad(Nbytes(Current)) \in Nat /\ Aligned(Pad(Nbytes(Current)))
      BY <1>0, <1>2, CurrentFacts, PadFacts
    <3>2. Pad(header) + offsets[i] \in Nat /\ Aligned(Pad(header) + offsets[i])
      BY <3>1, <2>2 DEF Aligned
    <3> QED
      BY <3>1, <3>2, <2>1 DEF Aligned
  <2>5. Pad(pos) = pos
    BY <2>4, PadFacts
  <2>6. Pad(header) \in Nat /\ Pad(Nbytes(Current)) \in Nat
    BY <1>0, <1>2, CurrentFacts, PadFacts
  <2> QED
    BY <2>1, <2>2, <2>3, <2>5, <2>6
<1> QED
  BY <1>1, <1>2

-----------------------------------------------------------------------------
(* Before the output is opened, and when a conversion fails, nothing of    *)
(* the layout changes.                                                     *)
LEMMA LayoutUntouched ==
  ASSUME LayoutInv, UNCHANGED <<request, layout, progress, pos, remaining>>,
         gpu' \in BOOLEAN, selected' \subseteq DOMAIN plans,
         disk' \in {"absent", "old", "partial", "complete"},
         \/ at' = at
         \/ at' = "failed"
         \/ /\ begins = <<>> /\ at # "failed"
            /\ at' \in {"gpu", "select", "open", "header"}
  PROVE  LayoutInv'
<1>1. TypeOK'
  BY DEF LayoutInv, TypeOK, request, layout, progress, Current, Nbytes
<1>2. HeaderInv'
  BY DEF LayoutInv, HeaderInv, OffsetAfter, request, layout, Nbytes
<1>3. PositionInv'
  BY DEF LayoutInv, PositionInv, Composed, Current, Nbytes, request, layout, progress
<1>4. PayloadIsWhereHeaderSays'
  BY DEF LayoutInv, PayloadIsWhereHeaderSays, request, layout
<1> QED
  BY <1>1, <1>2, <1>3, <1>4 DEF LayoutInv

LEMMA PreparationLayout ==
  ASSUME LayoutInv, Reject \/ Accept \/ CreateGpu \/ Select \/ Open \/ Fail
  PROVE  LayoutInv'
<1>1. CASE Reject
  BY <1>1, LayoutUntouched DEF Reject, LayoutInv, TypeOK, gpuVars
<1>2. CASE Accept
  BY <1>2, LayoutUntouched DEF Accept, LayoutInv, TypeOK, PositionInv, gpuVars
<1>3. CASE CreateGpu
  <2>1. gpu' \in BOOLEAN
    BY <1>3 DEF CreateGpu
  <2> QED
    BY <1>3, <2>1, LayoutUntouched DEF CreateGpu, LayoutInv, TypeOK, PositionInv
<1>4. CASE Select
  <2>1. selected' \subseteq DOMAIN plans
    BY <1>4 DEF Select, Candidates, Largest
  <2> QED
    BY <1>4, <2>1, LayoutUntouched DEF Select, LayoutInv, TypeOK, PositionInv
<1>5. CASE Open
  BY <1>5, LayoutUntouched DEF Open, LayoutInv, TypeOK, PositionInv, gpuVars
<1>6. CASE Fail
  BY <1>6, LayoutUntouched DEF Fail, LayoutInv, TypeOK, gpuVars
<1> QED
  BY <1>1, <1>2, <1>3, <1>4, <1>5, <1>6

-----------------------------------------------------------------------------
(* The header grows by one offset. *)
LEMMA DescribeLayout ==
  ASSUME LayoutInv, DescribeTensor
  PROVE  LayoutInv'
<1> DEFINE n == Len(offsets)
           t == plans[n + 1]
<1>0. /\ at = "header" /\ at' = at /\ begins = <<>> /\ begins' = begins
      /\ n \in Nat /\ Len(plans) \in Nat /\ n < Len(plans)
      /\ offsets \in Seq(Nat) /\ offset \in Nat /\ Aligned(offset)
      /\ offsets' = Append(offsets, offset)
      /\ offset' = offset + SpaceOf(t)
      /\ unwritten = 0
      /\ UNCHANGED <<request, gpuVars, progress, pos, disk>>
  BY DEF LayoutInv, TypeOK, HeaderInv, PositionInv, DescribeTensor
<1>1. t \in Tensors
  BY <1>0 DEF LayoutInv, TypeOK
<1>2. SpaceOf(t) = Pad(Nbytes(t)) /\ SpaceOf(t) \in Nat /\ Aligned(SpaceOf(t))
  BY <1>1, NbytesType, PadFacts DEF SpaceOf
<1>3. offset' \in Nat /\ Aligned(offset')
  <2>1. ASSUME NEW space \in Nat, Aligned(space)
        PROVE  offset + space \in Nat /\ Aligned(offset + space)
    <3>1. offset \in Nat /\ Aligned(offset)
      BY <1>0
    <3> QED
      BY ONLY <2>1, <3>1, AlignedSum
  <2> HIDE DEF t
  <2>2. offset + SpaceOf(t) \in Nat /\ Aligned(offset + SpaceOf(t))
    BY ONLY <1>2, <2>1
  <2>3. offset' = offset + SpaceOf(t)
    BY <1>0
  <2> QED
    BY ONLY <2>2, <2>3
<1>4. /\ offsets' \in Seq(Nat) /\ Len(offsets') = n + 1
      /\ \A i \in 1 .. n : offsets'[i] = offsets[i]
      /\ offsets'[n + 1] = offset
  BY <1>0
<1>5. TypeOK'
  <2>1. Len(offsets') <= Len(plans)
    BY <1>0, <1>4
  <2> QED
    BY <1>0, <1>3, <1>4, <2>1 DEF LayoutInv, TypeOK, request, gpuVars, progress
<1>6. HeaderInv'
  <2>1. offsets' # <<>>
    BY <1>0, <1>4
  <2> SUFFICES ASSUME NEW i \in 1 .. n + 1
               PROVE  /\ Aligned(offsets'[i])
                      /\ i = 1 => offsets'[i] = 0
                      /\ OffsetAfter(i)' = offsets'[i] + Pad(Nbytes(plans[i]))
    BY <1>0, <1>3, <1>4, <2>1 DEF HeaderInv, request, Nbytes
  <2>2. CASE i = n + 1
    <3>1. i = 1 => offset = 0
      BY <1>0, <2>2 DEF LayoutInv, HeaderInv
    <3>2. OffsetAfter(i)' = offset'
      BY <1>0, <1>4, <2>2 DEF OffsetAfter
    <3> QED
      BY <1>0, <1>2, <1>4, <2>2, <3>1, <3>2
  <2>3. CASE i \in 1 .. n
    <3>1. /\ Aligned(offsets[i]) /\ (i = 1 => offsets[i] = 0)
          /\ OffsetAfter(i) = offsets[i] + Pad(Nbytes(plans[i]))
      BY <1>0, <2>3 DEF LayoutInv, HeaderInv
    <3>2. OffsetAfter(i)' = OffsetAfter(i)
      BY <1>0, <1>4, <2>3 DEF OffsetAfter
    <3> QED
      BY <1>4, <2>3, <3>1, <3>2
  <2> QED
    BY <1>0, <2>2, <2>3
<1>7. PositionInv'
  BY <1>0 DEF PositionInv, progress
<1>8. PayloadIsWhereHeaderSays'
  BY <1>0 DEF PayloadIsWhereHeaderSays
<1> QED
  BY <1>5, <1>6, <1>7, <1>8 DEF LayoutInv

LEMMA WriteHeaderLayout ==
  ASSUME LayoutInv, WriteHeader
  PROVE  LayoutInv'
<1>0. /\ at = "header" /\ at' = "tensor" /\ begins = <<>> /\ pos' = header
      /\ Composed /\ unwritten = 0
      /\ UNCHANGED <<request, gpuVars, layout, progress, disk>>
  BY DEF LayoutInv, PositionInv, WriteHeader, Composed
<1>1. TypeOK'
  BY <1>0 DEF LayoutInv, TypeOK, request, gpuVars, layout, progress
<1>2. HeaderInv'
  BY <1>0 DEF LayoutInv, HeaderInv, OffsetAfter, request, layout, Nbytes
<1>3. PositionInv'
  BY <1>0 DEF PositionInv, Composed, request, layout, progress
<1>4. PayloadIsWhereHeaderSays'
  BY <1>0 DEF LayoutInv, PayloadIsWhereHeaderSays, request, layout
<1> QED
  BY <1>1, <1>2, <1>3, <1>4 DEF LayoutInv

(* A tensor begins at the next aligned position. *)
LEMMA BeginTensorLayout ==
  ASSUME LayoutInv, BeginTensor
  PROVE  LayoutInv'
<1> DEFINE n == Len(begins)
           t == plans[n + 1]
<1>0. /\ at = "tensor" /\ n \in Nat /\ Len(plans) \in Nat /\ n + 1 <= Len(plans)
      /\ pos \in Nat /\ pos' = Pad(pos)
      /\ begins \in Seq(Nat) /\ Composed
      /\ unwritten = 0 /\ unwritten' = 0
      /\ UNCHANGED <<request, gpuVars, offsets, offset, disk>>
  BY DEF LayoutInv, TypeOK, PositionInv, BeginTensor, TensorPosition
<1>1. Pad(pos) \in Nat
  BY <1>0, PadFacts
<1>2. HeaderInv'
  BY <1>0 DEF LayoutInv, HeaderInv, OffsetAfter, request, Nbytes
<1>3. CASE Refused(t)
  <2>1. at' = "failed" /\ UNCHANGED <<begins, done, unwritten, encoders, verified>>
    BY <1>3 DEF BeginTensor
  <2>2. TypeOK'
    BY <1>0, <1>1, <2>1 DEF LayoutInv, TypeOK, request, gpuVars
  <2>3. PositionInv'
    BY <1>0, <2>1 DEF LayoutInv, PositionInv, Composed, request
  <2>4. PayloadIsWhereHeaderSays'
    BY <1>0, <2>1 DEF LayoutInv, PayloadIsWhereHeaderSays, request
  <2> QED
    BY <1>2, <2>2, <2>3, <2>4 DEF LayoutInv
<1>4. CASE ~ Refused(t)
  <2>1. /\ at' = "payload" /\ begins' = Append(begins, Pad(pos)) /\ done' = 0
        /\ encoders' = Append(encoders, Encoder(t))
        /\ verified' \subseteq verified \union {n + 1}
    BY <1>4 DEF BeginTensor, TensorPosition
  <2>2. /\ begins' \in Seq(Nat) /\ Len(begins') = n + 1
        /\ \A i \in 1 .. n : begins'[i] = begins[i]
        /\ begins'[n + 1] = Pad(pos)
    BY <1>0, <1>1, <2>1
  <2>3. t \in Tensors
    BY <1>0 DEF LayoutInv, TypeOK
  <2>4. encoders' \in Seq({"copy", "gpu", "native", "generic"})
    BY <2>1, <2>3, EncoderType DEF LayoutInv, TypeOK
  <2>5. Current' \in Tensors /\ Nbytes(Current') \in Nat
    BY <1>0, <2>2, <2>3, NbytesType DEF Current, request
  <2>6. done' <= Nbytes(Current)'
    BY <2>1, <2>5 DEF Nbytes
  <2>7. verified' \subseteq DOMAIN plans
    BY <1>0, <2>1 DEF LayoutInv, TypeOK
  <2>8. TypeOK'
    BY <1>0, <1>1, <2>1, <2>2, <2>4, <2>6, <2>7
       DEF LayoutInv, TypeOK, request, gpuVars
  <2>9. PositionInv'
    BY <1>0, <1>1, <2>1, <2>2 DEF PositionInv, Composed, request
  <2>10. PayloadIsWhereHeaderSays'
    <3>1. Pad(pos) = Pad(header) + offsets[n + 1]
      BY <1>0, BetweenTensors DEF OffsetAfter, Composed
    <3> SUFFICES ASSUME NEW i \in 1 .. n + 1
                 PROVE  begins'[i] = Pad(header) + offsets[i]
      BY <1>0, <2>2 DEF PayloadIsWhereHeaderSays, request
    <3>2. CASE i = n + 1
      BY <2>2, <3>1, <3>2
    <3>3. CASE i \in 1 .. n
      BY <1>0, <2>2, <3>3, SMTT(30) DEF LayoutInv, PayloadIsWhereHeaderSays
    <3> QED
      BY <1>0, <3>2, <3>3
  <2> QED
    BY <1>2, <2>8, <2>9, <2>10 DEF LayoutInv
<1> QED
  BY <1>3, <1>4

-----------------------------------------------------------------------------
(* A chunk lengthens the payload; the last padding completes its space.    *)
LEMMA EncodeChunkLayout ==
  ASSUME LayoutInv, EncodeChunk
  PROVE  LayoutInv'
<1> DEFINE k == NextBytes(Current)
<1>0. /\ at = "payload" /\ at' = at /\ done' = done + k
      /\ unwritten = 0 /\ unwritten' = k
      /\ UNCHANGED <<request, gpuVars, layout, encoders, verified, pos, disk>>
      /\ begins # <<>> /\ pos = begins[Len(begins)] + done - unwritten
      /\ options \in Options /\ done \in Nat /\ done <= Nbytes(Current) /\ pos \in Nat
  BY DEF LayoutInv, TypeOK, PositionInv, EncodeChunk
<1>1. Current \in Tensors /\ begins[Len(begins)] \in Nat
  BY <1>0, CurrentFacts
<1>2. k \in Nat /\ done + k <= Nbytes(Current)
  BY <1>0, <1>1, NextBytesFacts
<1>3. Current' = Current /\ Nbytes(Current)' = Nbytes(Current)
  BY <1>0 DEF Current, Nbytes, request, layout
<1>4. TypeOK'
  <2>1. done' \in Nat /\ unwritten' \in 0 .. done'
    BY <1>0, <1>2
  <2>2. done' <= Nbytes(Current)'
    BY <1>0, <1>2, <1>3
  <2> QED
    BY <1>0, <2>1, <2>2 DEF LayoutInv, TypeOK, request, gpuVars, layout
<1>5. HeaderInv'
  BY <1>0 DEF LayoutInv, HeaderInv, OffsetAfter, request, layout, Nbytes
<1>6. pos' = begins'[Len(begins')] + done' - unwritten'
  BY <1>0, <1>1, <1>2 DEF layout
<1>7. PositionInv'
  BY <1>0, <1>6 DEF LayoutInv, PositionInv, Composed, request, layout
<1>8. PayloadIsWhereHeaderSays'
  BY <1>0 DEF LayoutInv, PayloadIsWhereHeaderSays, request, layout
<1> QED
  BY <1>4, <1>5, <1>7, <1>8 DEF LayoutInv

LEMMA WriteSomeLayout ==
  ASSUME LayoutInv, WriteSome
  PROVE  LayoutInv'
<1>0. /\ at = "payload" /\ at' = at /\ unwritten > 0
      /\ UNCHANGED <<request, gpuVars, layout, done, encoders, verified, disk>>
      /\ begins # <<>> /\ pos = begins[Len(begins)] + done - unwritten
      /\ done \in Nat /\ unwritten \in 0 .. done /\ pos \in Nat
  BY DEF LayoutInv, TypeOK, PositionInv, WriteSome
<1>1. PICK n \in {unwritten} \union {k \in ShortWrites : k < unwritten} :
        pos' = pos + n /\ unwritten' = unwritten - n
  BY DEF WriteSome, StillUnwritten
<1>2. n \in Nat /\ n <= unwritten
  BY <1>0, ConverterAssumption
<1>3. begins[Len(begins)] \in Nat
  BY <1>0, CurrentFacts
<1>4. TypeOK'
  <2>1. pos' \in Nat /\ unwritten' \in 0 .. done'
    BY <1>0, <1>1, <1>2
  <2> QED
    BY <1>0, <2>1 DEF LayoutInv, TypeOK, request, gpuVars, layout, Current, Nbytes
<1>5. HeaderInv'
  BY <1>0 DEF LayoutInv, HeaderInv, OffsetAfter, request, layout, Nbytes
<1>6. pos' = begins'[Len(begins')] + done' - unwritten'
  BY <1>0, <1>1, <1>2, <1>3 DEF layout
<1>7. PositionInv'
  BY <1>0, <1>6 DEF LayoutInv, PositionInv, Composed, request, layout
<1>8. PayloadIsWhereHeaderSays'
  BY <1>0 DEF LayoutInv, PayloadIsWhereHeaderSays, request, layout
<1> QED
  BY <1>4, <1>5, <1>7, <1>8 DEF LayoutInv

LEMMA EndTensorLayout ==
  ASSUME LayoutInv, EndTensor
  PROVE  LayoutInv'
<1> DEFINE size == Nbytes(Current)
<1>0. /\ at = "payload" /\ at' = "tensor" /\ done >= size
      /\ unwritten = 0 /\ unwritten' = 0
      /\ pos' = pos + (Pad(size) - size)
      /\ remaining' = RemainingAfter(Current)
      /\ UNCHANGED <<request, gpu, selected, layout, progress, disk>>
      /\ begins # <<>> /\ Composed /\ pos = begins[Len(begins)] + done - unwritten
      /\ done \in Nat /\ done <= size /\ pos \in Nat
  BY DEF LayoutInv, TypeOK, PositionInv, EndTensor, progress
<1>1. size \in Nat /\ begins[Len(begins)] \in Nat
  BY <1>0, CurrentFacts
<1>2. Pad(size) \in Nat /\ Pad(size) >= size
  BY <1>1, PadFacts
<1>3. done = size
  BY <1>0, <1>1
<1>4. pos' = begins[Len(begins)] + Pad(size) /\ pos' \in Nat
  BY <1>0, <1>1, <1>2, <1>3
<1>5. Current' = Current /\ Nbytes(Current)' = size
  BY <1>0 DEF Current, Nbytes, request, layout
<1>6. remaining' \in Nat \union {All}
  <2>1. remaining \in Nat \union {All}
    BY DEF LayoutInv, TypeOK
  <2> QED
    BY <1>0, <2>1 DEF RemainingAfter, VerifyFirst
<1>7. TypeOK'
  BY <1>0, <1>4, <1>6 DEF LayoutInv, TypeOK, request, layout, progress
<1>8. HeaderInv'
  BY <1>0 DEF LayoutInv, HeaderInv, OffsetAfter, request, layout, Nbytes
<1>9. PositionInv'
  BY <1>0, <1>4, <1>5 DEF PositionInv, Composed, request, layout
<1>10. PayloadIsWhereHeaderSays'
  BY <1>0 DEF LayoutInv, PayloadIsWhereHeaderSays, request, layout
<1> QED
  BY <1>7, <1>8, <1>9, <1>10 DEF LayoutInv

LEMMA CloseLayout ==
  ASSUME LayoutInv, Close
  PROVE  LayoutInv'
<1>0. /\ at = "tensor" /\ at' = "closed" /\ Len(begins) = Len(plans)
      /\ disk' = "complete"
      /\ UNCHANGED <<request, gpuVars, layout, progress, pos>>
  BY DEF Close
<1>1. TypeOK'
  BY <1>0 DEF LayoutInv, TypeOK, request, gpuVars, layout, progress
<1>2. HeaderInv'
  BY <1>0 DEF LayoutInv, HeaderInv, OffsetAfter, request, layout, Nbytes
<1>3. PositionInv'
  BY <1>0 DEF LayoutInv, PositionInv, Composed, Current, Nbytes, request, layout, progress
<1>4. PayloadIsWhereHeaderSays'
  BY <1>0 DEF LayoutInv, PayloadIsWhereHeaderSays, request, layout
<1> QED
  BY <1>1, <1>2, <1>3, <1>4 DEF LayoutInv

LEMMA StutterLayout ==
  ASSUME LayoutInv, UNCHANGED vars
  PROVE  LayoutInv'
  BY LayoutUntouched DEF vars, gpuVars, LayoutInv, TypeOK

-----------------------------------------------------------------------------
(* The invariant is inductive. *)
THEOREM LayoutInductive == Spec => []LayoutInv
<1>1. LayoutInv /\ [Next]_vars => LayoutInv'
  BY PreparationLayout, DescribeLayout, WriteHeaderLayout, BeginTensorLayout,
     EncodeChunkLayout, WriteSomeLayout, EndTensorLayout, CloseLayout, StutterLayout
     DEF Next
<1> QED
  BY InitLayout, <1>1, PTL DEF Spec

(* The fields of a conversion keep their types, and a payload never grows  *)
(* beyond the size that was planned for it.                                *)
THEOREM ConverterTypeCorrect == Spec => []TypeOK
<1>1. LayoutInv => TypeOK
  BY DEF LayoutInv
<1> QED
  BY LayoutInductive, <1>1, PTL

(* Every payload begins at the first aligned position after the header     *)
(* plus the offset the header names.                                       *)
THEOREM LayoutIsTrue == Spec => []PayloadIsWhereHeaderSays
<1>1. LayoutInv => PayloadIsWhereHeaderSays
  BY DEF LayoutInv
<1> QED
  BY LayoutInductive, <1>1, PTL

(* A conversion that ends well has written all tensors, and its file is as *)
(* long as the header says.                                                *)
THEOREM SuccessIsTrue == Spec => []SuccessIsComplete
<1>1. LayoutInv => SuccessIsComplete
  <2> SUFFICES ASSUME LayoutInv, at = "closed"
               PROVE  /\ Len(begins) = Len(plans)
                      /\ plans # <<>> => pos = Pad(header) + offset
    BY DEF SuccessIsComplete
  <2>1. Len(begins) = Len(plans) /\ Composed
    BY DEF LayoutInv, PositionInv
  <2>2. ASSUME plans # <<>>
        PROVE  pos = Pad(header) + offset
    <3> DEFINE n == Len(begins)
    <3>1. begins # <<>>
      BY <2>1, <2>2 DEF LayoutInv, TypeOK
    <3>2. n \in DOMAIN offsets /\ begins[n] = Pad(header) + offsets[n]
      BY <3>1, CurrentFacts
    <3>3. pos = begins[n] + Pad(Nbytes(Current))
      BY <3>1 DEF LayoutInv, PositionInv
    <3>4. offset = offsets[n] + Pad(Nbytes(Current))
      BY <2>1, <3>2 DEF LayoutInv, HeaderInv, OffsetAfter, Composed, Current
    <3>5. Pad(header) \in Nat /\ Pad(Nbytes(Current)) \in Nat /\ offsets[n] \in Nat
      <4>1. header \in Nat /\ offsets \in Seq(Nat)
        BY DEF LayoutInv, TypeOK
      <4>2. Nbytes(Current) \in Nat
        BY <3>1, CurrentFacts
      <4> QED
        BY <4>1, <4>2, <3>2, PadFacts, SMTT(30)
    <3> QED
      BY <3>2, <3>3, <3>4, <3>5
  <2> QED
    BY <2>1, <2>2
<1> QED
  BY LayoutInductive, <1>1, PTL

(* With the GPU demanded and no fallback allowed, no tensor is quantized   *)
(* by the CPU.                                                             *)
THEOREM GpuIsMeant == Spec => []GpuMeansGpu
<1>1. Init => GpuMeansGpu
  BY DEF Init, GpuMeansGpu
<1>2. LayoutInv /\ GpuMeansGpu /\ [Next]_vars => GpuMeansGpu'
  <2> SUFFICES ASSUME LayoutInv, GpuMeansGpu, [Next]_vars
               PROVE  GpuMeansGpu'
    OBVIOUS
  <2>1. CASE UNCHANGED encoders /\ UNCHANGED options
    BY <2>1 DEF GpuMeansGpu
  <2>2. CASE BeginTensor /\ ~ UNCHANGED encoders
    <3> DEFINE t == plans[Len(begins) + 1]
    <3>1. /\ ~ Refused(t) /\ encoders' = Append(encoders, Encoder(t))
          /\ UNCHANGED options /\ t \in Tensors
          /\ encoders \in Seq({"copy", "gpu", "native", "generic"})
      BY <2>2 DEF BeginTensor, request, LayoutInv, TypeOK
    <3>2. ASSUME options.backend = "gpu", ~ options.fallback
          PROVE  Encoder(t) # "native"
      <4>1. CASE t.copied
        BY <3>1, <4>1, ConverterAssumption
           DEF Encoder, UsesGpu, RequestsGpu
      <4>2. CASE ~ t.copied /\ UsesGpu(t)
        BY <4>2 DEF Encoder
      <4>3. CASE ~ t.copied /\ ~ UsesGpu(t)
        BY <3>1, <3>2, <4>3 DEF Encoder, Refused, RequestsGpu
      <4> QED
        BY <4>1, <4>2, <4>3
    <3>3. Encoder(t) \in {"copy", "gpu", "native", "generic"}
      BY <3>1, EncoderType
    <3>4. /\ DOMAIN encoders' = 1 .. Len(encoders) + 1
          /\ \A i \in 1 .. Len(encoders) : encoders'[i] = encoders[i]
          /\ encoders'[Len(encoders) + 1] = Encoder(t)
      BY <3>1, <3>3
    <3> QED
      BY <3>1, <3>2, <3>4 DEF GpuMeansGpu
  <2>3. (UNCHANGED encoders /\ UNCHANGED options) \/ BeginTensor
    BY DEF Next, vars, request, progress, Reject, Accept, CreateGpu, Select, Open,
           DescribeTensor, WriteHeader, EncodeChunk, WriteSome, EndTensor, Close, Fail
  <2>4. BeginTensor => UNCHANGED options
    BY DEF BeginTensor, request
  <2> QED
    BY <2>1, <2>2, <2>3, <2>4
<1> QED
  BY LayoutInductive, <1>1, <1>2, PTL DEF Spec

(* A file that was there is given up only when the command line allows it, *)
(* and only by opening the output.                                         *)
THEOREM OldOutputSurvives == Spec => OldOutputIsKept
<1> DEFINE Allowed == /\ at \notin {"start", "failed"} /\ disk = "old" => options.overwrite
                      /\ at \in {"header", "tensor", "payload"} => disk # "old"
<1>1. Init => Allowed
  BY DEF Init
<1>2. Allowed /\ [Next]_vars => Allowed'
  <2> SUFFICES ASSUME Allowed, [Next]_vars
               PROVE  Allowed'
    OBVIOUS
  <2>1. CASE Reject \/ Accept \/ CreateGpu \/ Select \/ Open \/ Fail
    BY <2>1 DEF Reject, Accept, CreateGpu, Select, Open, Fail, MayWrite, request
  <2>2. CASE DescribeTensor \/ WriteHeader \/ BeginTensor \/ EncodeChunk
    BY <2>2 DEF DescribeTensor, WriteHeader, BeginTensor, EncodeChunk, request
  <2>3. CASE WriteSome \/ EndTensor \/ Close
    BY <2>3 DEF WriteSome, EndTensor, Close, request
  <2>4. CASE UNCHANGED vars
    BY <2>4 DEF vars, request
  <2> QED
    BY <2>1, <2>2, <2>3, <2>4 DEF Next
<1>3. Allowed /\ [Next]_vars => [disk = "old" /\ disk' # "old" => options.overwrite /\ at = "open"]_vars
  <2> SUFFICES ASSUME Allowed, Next, disk = "old", disk' # "old"
               PROVE  options.overwrite /\ at = "open"
    BY DEF vars
  <2>1. Open \/ Close
    BY DEF Next, Reject, Accept, CreateGpu, Select, DescribeTensor,
           WriteHeader, BeginTensor, EncodeChunk, WriteSome, EndTensor, Fail
  <2>2. CASE Open
    BY <2>2 DEF Open
  <2>3. CASE Close
    BY <2>3 DEF Close
  <2> QED
    BY <2>1, <2>2, <2>3
<1> QED
  BY <1>1, <1>2, <1>3, PTL DEF Spec, OldOutputIsKept

-----------------------------------------------------------------------------
(* The verification of the GPU's tensors.                                  *)

(* Those of some tensors that come before tensor i. *)
Below(S, i) == {j \in S : j < i}

(* How many of the tensors before i have been verified. *)
VerifiedBefore(i) == Cardinality(Below(verified, i))

(* The candidates that are larger than tensor i. *)
LargerThan(i) == {j \in Candidates : Larger(j, i)}

(* The tensors that have been written. *)
Ended == IF at = "payload" THEN Len(begins) - 1 ELSE Len(begins)

(* The verifications asked for by number are done or still remain, and a   *)
(* tensor that takes one is among the verified before its payload is       *)
(* written.                                                                *)
CountInv ==
  /\ options.verifyFirst = All => remaining = All
  /\ options.verifyFirst # All /\ at # "failed" =>
       remaining \in Nat /\ VerifiedBefore(Ended + 1) + remaining >= options.verifyFirst
  /\ at = "payload" /\ VerifyFirst(Current) => Len(begins) \in verified

Opened == {"open", "header", "tensor", "payload"}

(* The largest are chosen before the output is opened. *)
ChosenInv == at \in Opened => Largest(options.verifyLarge) \subseteq selected

VerificationInv ==
  /\ CountInv
  /\ ChosenInv
  /\ Len(encoders) = Len(begins)
  /\ verified \subseteq DOMAIN begins
  /\ VerifiedAsAsked

LEMMA BelowFacts ==
  ASSUME LayoutInv, NEW n \in Nat
  PROVE  /\ IsFiniteSet(Below(verified, n)) /\ VerifiedBefore(n) \in Nat
         /\ VerifiedBefore(n + 1) \in Nat
         /\ VerifiedBefore(n + 1) >= VerifiedBefore(n)
         /\ n \in verified => VerifiedBefore(n + 1) = VerifiedBefore(n) + 1
<1>1. PICK l \in Nat : l = Len(plans) /\ DOMAIN plans = 1 .. l
  BY DEF LayoutInv, TypeOK
<1>2. verified \subseteq 1 .. l /\ IsFiniteSet(1 .. l)
  BY <1>1, FS_Interval, SMTT(30) DEF LayoutInv, TypeOK
<1>3. IsFiniteSet(Below(verified, n)) /\ IsFiniteSet(Below(verified, n + 1))
  <2>1. Below(verified, n) \in SUBSET (1 .. l) /\ Below(verified, n + 1) \in SUBSET (1 .. l)
    BY <1>2 DEF Below
  <2> QED
    BY <1>2, <2>1, FS_Subset
<1>4. VerifiedBefore(n) \in Nat /\ VerifiedBefore(n + 1) \in Nat
  BY <1>3, FS_CardinalityType DEF VerifiedBefore
<1>5. /\ \A j \in verified : j \in Nat
      /\ \A j \in Nat : j < n + 1 <=> j < n \/ j = n
  BY <1>2
<1>6. VerifiedBefore(n) <= VerifiedBefore(n + 1)
  <2>1. Below(verified, n) \in SUBSET Below(verified, n + 1)
    BY <1>5 DEF Below
  <2> QED
    BY <1>3, <2>1, FS_Subset DEF VerifiedBefore
<1>7. ASSUME n \in verified
      PROVE  VerifiedBefore(n + 1) = VerifiedBefore(n) + 1
  <2>1. Below(verified, n + 1) = Below(verified, n) \cup {n}
    BY <1>5, <1>7 DEF Below
  <2>2. n \notin Below(verified, n)
    BY DEF Below
  <2> QED
    BY <1>3, <2>1, <2>2, FS_AddElement DEF VerifiedBefore
<1> QED
  BY <1>3, <1>4, <1>6, <1>7

(* A tensor that the device encodes and that is not one of the largest has *)
(* as many larger ones.                                                    *)
LEMMA NotLargest ==
  ASSUME LayoutInv, NEW i \in Candidates, i \notin Largest(options.verifyLarge)
  PROVE  Cardinality(LargerThan(i)) >= options.verifyLarge
<1>1. PICK l \in Nat : l = Len(plans) /\ DOMAIN plans = 1 .. l
  BY DEF LayoutInv, TypeOK
<1>2. LargerThan(i) \in SUBSET (1 .. l) /\ IsFiniteSet(1 .. l)
  BY <1>1, FS_Interval DEF LargerThan, Candidates
<1>3. Cardinality(LargerThan(i)) \in Nat
  BY <1>2, FS_Subset, FS_CardinalityType
<1>4. options.verifyLarge \in Nat
  BY ConverterAssumption DEF LayoutInv, TypeOK, OptionsType
<1>5. ~ (Cardinality(LargerThan(i)) < options.verifyLarge)
  BY DEF Largest, LargerThan
<1> QED
  BY <1>3, <1>4, <1>5

LEMMA EncoderIsGpu ==
  ASSUME NEW t \in Tensors, Encoder(t) = "gpu"
  PROVE  UsesGpu(t)
<1>1. CASE t.copied
  BY <1>1, ConverterAssumption DEF Encoder, UsesGpu, RequestsGpu
<1>2. CASE ~ t.copied /\ ~ UsesGpu(t)
  BY <1>2 DEF Encoder
<1> QED
  BY <1>1, <1>2

(* VerifiedAsAsked, tensor by tensor. *)
AskedAt(i) ==
  i \in DOMAIN begins /\ i \notin verified /\ encoders[i] = "gpu" =>
    /\ options.verifyFirst # All
    /\ VerifiedBefore(i) >= options.verifyFirst
    /\ Cardinality(LargerThan(i)) >= options.verifyLarge

LEMMA AskedByTensor == VerifiedAsAsked <=> \A i \in DOMAIN begins : AskedAt(i)
BY DEF VerifiedAsAsked, AskedAt, VerifiedBefore, Below, LargerThan

LEMMA InitVerification == Init => VerificationInv
<1> SUFFICES ASSUME Init
             PROVE  VerificationInv
  OBVIOUS
<1>1. /\ at = "start" /\ begins = <<>> /\ encoders = <<>> /\ verified = {}
      /\ remaining = options.verifyFirst
      /\ options.verifyFirst \in Nat \union {All}
  BY ConverterAssumption DEF Init, OptionsType
<1>2. VerifiedBefore(Ended + 1) = 0
  <2>1. Below(verified, Ended + 1) = {}
    BY <1>1 DEF Below
  <2> QED
    BY <2>1, FS_EmptySet DEF VerifiedBefore
<1>3. CountInv
  BY <1>1, <1>2 DEF CountInv
<1> QED
  BY <1>1, <1>3 DEF VerificationInv, ChosenInv, Opened, VerifiedAsAsked

(* Steps that neither begin nor end a tensor. *)
LEMMA VerificationKept ==
  ASSUME VerificationInv,
         UNCHANGED <<options, plans, gpu, begins, encoders, verified, remaining, selected>>,
         at' = "payload" <=> at = "payload" /\ at' # "failed",
         at = "failed" => at' = "failed",
         at' \in Opened => at \in Opened
  PROVE  VerificationInv'
<1>1. CountInv'
  <2>1. at' # "failed" => Ended' = Ended /\ at # "failed"
    BY DEF Ended
  <2>2. at' = "payload" /\ VerifyFirst(Current)' => at = "payload" /\ VerifyFirst(Current)
    BY DEF VerifyFirst, UsesGpu, RequestsGpu, Current
  <2> QED
    BY <2>1, <2>2 DEF VerificationInv, CountInv, VerifiedBefore
<1>2. ChosenInv'
  BY DEF VerificationInv, ChosenInv, Largest, Candidates, Larger, UsesGpu, RequestsGpu, Nbytes
<1>3. VerifiedAsAsked'
  BY DEF VerificationInv, VerifiedAsAsked, Candidates, Larger, UsesGpu, RequestsGpu, Nbytes
<1> QED
  BY <1>1, <1>2, <1>3 DEF VerificationInv

LEMMA CreateVerification ==
  ASSUME LayoutInv, VerificationInv, CreateGpu
  PROVE  VerificationInv'
<1>1. /\ at = "gpu" /\ at' \in {"failed", "select"} /\ begins = <<>>
      /\ UNCHANGED <<options, plans, selected, remaining, begins, encoders, verified>>
  BY DEF CreateGpu, LayoutInv, PositionInv, request, layout, progress
<1>2. Ended' = Ended
  BY <1>1 DEF Ended
<1>3. CountInv'
  BY <1>1, <1>2 DEF VerificationInv, CountInv, VerifiedBefore
<1> QED
  BY <1>1, <1>3 DEF VerificationInv, ChosenInv, Opened, VerifiedAsAsked

LEMMA SelectVerification ==
  ASSUME LayoutInv, VerificationInv, Select
  PROVE  VerificationInv'
<1>1. /\ at = "select" /\ at' = "open" /\ begins = <<>>
      /\ UNCHANGED <<options, plans, gpu, remaining, begins, encoders, verified>>
      /\ Largest(options.verifyLarge) \subseteq selected'
  BY DEF Select, LayoutInv, PositionInv, request, layout, progress
<1>2. Ended' = Ended
  BY <1>1 DEF Ended
<1>3. CountInv'
  BY <1>1, <1>2 DEF VerificationInv, CountInv, VerifiedBefore
<1>4. Largest(options.verifyLarge)' = Largest(options.verifyLarge)
  BY <1>1 DEF Largest, Candidates, Larger, UsesGpu, RequestsGpu, Nbytes
<1> QED
  BY <1>1, <1>3, <1>4 DEF VerificationInv, ChosenInv, VerifiedAsAsked

LEMMA BeginVerification ==
  ASSUME LayoutInv, VerificationInv, BeginTensor
  PROVE  VerificationInv'
<1>0. PICK n \in Nat : n = Len(begins)
  BY DEF LayoutInv, TypeOK
<1>1. /\ at = "tensor" /\ n + 1 \in Nat /\ n + 1 <= Len(plans)
      /\ Len(plans) \in Nat /\ plans \in Seq(Tensors) /\ begins \in Seq(Nat)
      /\ UNCHANGED <<options, plans, gpu, selected, remaining>>
  BY <1>0 DEF BeginTensor, LayoutInv, TypeOK, request, gpuVars
<1>2. PICK t \in Tensors : t = plans[n + 1]
  BY <1>1
<1>3. CASE Refused(t)
  <2>1. at' = "failed" /\ UNCHANGED <<begins, encoders, verified>>
    BY <1>0, <1>2, <1>3 DEF BeginTensor
  <2> QED
    BY <1>1, <2>1, VerificationKept DEF Opened
<1>4. CASE ~ Refused(t)
  <2>1. /\ at' = "payload" /\ begins' = Append(begins, TensorPosition)
        /\ encoders' = Append(encoders, Encoder(t))
        /\ verified' = IF Verified(n + 1) THEN verified \union {n + 1} ELSE verified
    BY <1>0, <1>2, <1>4 DEF BeginTensor
  <2>2. /\ Len(begins') = n + 1 /\ DOMAIN begins' = 1 .. n + 1
        /\ DOMAIN begins = 1 .. n
    <3>1. TensorPosition \in Nat
      BY PadFacts DEF TensorPosition, LayoutInv, TypeOK
    <3> QED
      BY <1>0, <1>1, <2>1, <3>1
  <2>3. /\ encoders \in Seq({"copy", "gpu", "native", "generic"})
        /\ Encoder(t) \in {"copy", "gpu", "native", "generic"}
        /\ Len(encoders) = n
    BY <1>0, EncoderType DEF LayoutInv, TypeOK, VerificationInv
  <2>4. /\ Len(encoders') = n + 1 /\ encoders'[n + 1] = Encoder(t)
        /\ \A i \in 1 .. n : encoders'[i] = encoders[i]
    BY <2>1, <2>3
  <2>5. verified \subseteq 1 .. n
    BY <2>2 DEF VerificationInv
  <2>6. ASSUME NEW i \in 1 .. n + 1
        PROVE  Below(verified', i) = Below(verified, i)
    <3>1. ~ (n + 1 < i)
      BY <1>1
    <3> QED
      BY <2>1, <3>1 DEF Below
  <2>7. ASSUME NEW i \in 1 .. n + 1
        PROVE  VerifiedBefore(i)' = VerifiedBefore(i)
    BY <2>6 DEF VerifiedBefore
  <2>8. \A i : LargerThan(i)' = LargerThan(i)
    BY <1>1 DEF LargerThan, Candidates, Larger, UsesGpu, RequestsGpu, Nbytes
  <2>9. Current' = t /\ VerifyFirst(t)' = VerifyFirst(t)
    BY <1>1, <1>2, <2>2 DEF Current, VerifyFirst, UsesGpu, RequestsGpu
  <2>10. VerifyFirst(Current)' => n + 1 \in verified'
    <3>1. VerifyFirst(Current)' = VerifyFirst(t)
      BY <2>9 DEF VerifyFirst, UsesGpu, RequestsGpu
    <3> QED
      BY <1>2, <2>1, <3>1 DEF Verified
  <2>11. Ended = n /\ Ended' = n
    BY <1>0, <1>1, <2>1, <2>2 DEF Ended
  <2>12. CountInv'
    <3>1. VerifiedBefore(n + 1)' = VerifiedBefore(n + 1)
      BY <1>1, <2>7
    <3>2. VerifiedBefore(Ended + 1)' = VerifiedBefore(Ended + 1)
      BY <2>11, <3>1 DEF VerifiedBefore
    <3> QED
      BY <1>1, <2>1, <2>2, <2>10, <3>2 DEF VerificationInv, CountInv
  <2>13. Largest(options.verifyLarge) \subseteq selected
    BY <1>1 DEF VerificationInv, ChosenInv, Opened
  <2>14. ChosenInv'
    BY <1>1, <2>13 DEF ChosenInv, Largest, Candidates, Larger, UsesGpu, RequestsGpu, Nbytes
  <2>15. ASSUME NEW i \in 1 .. n
         PROVE  AskedAt(i)'
    <3>1. AskedAt(i)
      BY <2>2, AskedByTensor DEF VerificationInv
    <3>2. i \notin verified' => i \notin verified
      BY <2>1
    <3>3. i \in 1 .. n + 1
      BY <1>1
    <3>4. VerifiedBefore(i)' = VerifiedBefore(i)
      BY <2>7, <3>3
    <3>5. LargerThan(i)' = LargerThan(i) /\ encoders'[i] = encoders[i]
      BY <2>4, <2>8
    <3> QED
      BY <1>1, <2>2, <3>1, <3>2, <3>4, <3>5 DEF AskedAt
  <2>16. AskedAt(n + 1)'
    <3> SUFFICES ASSUME n + 1 \notin verified', encoders'[n + 1] = "gpu"
                 PROVE  /\ options.verifyFirst # All
                        /\ VerifiedBefore(n + 1) >= options.verifyFirst
                        /\ Cardinality(LargerThan(n + 1)) >= options.verifyLarge
      <4>1. VerifiedBefore(n + 1)' = VerifiedBefore(n + 1)
        BY <1>1, <2>7
      <4>2. LargerThan(n + 1)' = LargerThan(n + 1)
        BY <2>8
      <4> QED
        BY <1>1, <4>1, <4>2 DEF AskedAt
    <3>1. UsesGpu(t)
      BY <1>2, <2>4, EncoderIsGpu
    <3>2. remaining = 0 /\ n + 1 \notin selected
      BY <1>2, <2>1, <3>1 DEF Verified, VerifyFirst
    <3>3. options.verifyFirst # All
      BY <3>2 DEF VerificationInv, CountInv, All
    <3>4. VerifiedBefore(n + 1) >= options.verifyFirst
      <4>1. VerifiedBefore(n + 1) \in Nat
        BY <1>1, BelowFacts
      <4>2. VerifiedBefore(n + 1) + 0 >= options.verifyFirst
        BY <1>1, <2>11, <3>2, <3>3 DEF VerificationInv, CountInv
      <4> QED
        BY <4>1, <4>2
    <3>5. n + 1 \in Candidates
      BY <1>1, <1>2, <3>1 DEF Candidates
    <3>6. Cardinality(LargerThan(n + 1)) >= options.verifyLarge
      BY <2>13, <3>2, <3>5, NotLargest
    <3> QED
      BY <3>3, <3>4, <3>6
  <2>17. VerifiedAsAsked'
    <3>1. \A i \in 1 .. n + 1 : i \in 1 .. n \/ i = n + 1
      BY <1>1
    <3>2. \A i \in DOMAIN begins' : AskedAt(i)'
      BY <2>2, <2>15, <2>16, <3>1
    <3> QED
      BY <3>2 DEF VerifiedAsAsked, AskedAt, VerifiedBefore, Below, LargerThan
  <2>18. verified' \subseteq DOMAIN begins'
    BY <1>1, <2>1, <2>2, <2>5
  <2> QED
    BY <2>2, <2>4, <2>12, <2>14, <2>17, <2>18 DEF VerificationInv
<1> QED
  BY <1>3, <1>4

LEMMA EndVerification ==
  ASSUME LayoutInv, VerificationInv, EndTensor
  PROVE  VerificationInv'
<1> DEFINE n == Len(begins)
<1>1. /\ at = "payload" /\ at' = "tensor" /\ n \in Nat
      /\ remaining' = RemainingAfter(Current)
      /\ UNCHANGED <<options, plans, gpu, selected, begins, encoders, verified>>
  BY DEF EndTensor, LayoutInv, TypeOK, request, layout, progress
<1>2. Ended + 1 = n /\ Ended' + 1 = n + 1
  BY <1>1 DEF Ended
<1>3. ChosenInv'
  BY <1>1 DEF VerificationInv, ChosenInv, Opened, Largest, Candidates, Larger, UsesGpu,
     RequestsGpu, Nbytes
<1>4. VerifiedAsAsked'
  BY <1>1 DEF VerificationInv, VerifiedAsAsked, Candidates, Larger, UsesGpu, RequestsGpu, Nbytes
<1>5. options.verifyFirst = All => remaining' = All
  BY <1>1 DEF VerificationInv, CountInv, RemainingAfter
<1>6. ASSUME options.verifyFirst # All
      PROVE  remaining' \in Nat /\ VerifiedBefore(n + 1) + remaining' >= options.verifyFirst
  <2>1. remaining \in Nat /\ VerifiedBefore(n) + remaining >= options.verifyFirst
    BY <1>1, <1>2, <1>6 DEF VerificationInv, CountInv
  <2>2. options.verifyFirst \in Nat
    BY <1>6, ConverterAssumption DEF LayoutInv, TypeOK, OptionsType
  <2>3. /\ VerifiedBefore(n) \in Nat /\ VerifiedBefore(n + 1) \in Nat
        /\ VerifiedBefore(n + 1) >= VerifiedBefore(n)
        /\ n \in verified => VerifiedBefore(n + 1) = VerifiedBefore(n) + 1
    BY <1>1, BelowFacts
  <2>4. CASE VerifyFirst(Current)
    <3>1. n \in verified
      BY <1>1, <2>4 DEF VerificationInv, CountInv
    <3>2. remaining # 0
      BY <2>4 DEF VerifyFirst
    <3>3. remaining' = remaining - 1
      BY <1>1, <2>1, <2>4 DEF RemainingAfter, All
    <3> QED
      BY <2>1, <2>2, <2>3, <3>1, <3>2, <3>3
  <2>5. CASE ~ VerifyFirst(Current)
    <3>1. remaining' = remaining
      BY <1>1, <2>5 DEF RemainingAfter
    <3> QED
      BY <2>1, <2>2, <2>3, <3>1
  <2> QED
    BY <2>4, <2>5
<1>7. VerifiedBefore(Ended + 1)' = VerifiedBefore(n + 1)
  BY <1>1, <1>2 DEF VerifiedBefore
<1>8. CountInv'
  BY <1>1, <1>5, <1>6, <1>7 DEF CountInv
<1> QED
  BY <1>1, <1>3, <1>4, <1>8 DEF VerificationInv

LEMMA StepVerification == LayoutInv /\ VerificationInv /\ [Next]_vars => VerificationInv'
<1> SUFFICES ASSUME LayoutInv, VerificationInv, [Next]_vars
             PROVE  VerificationInv'
  OBVIOUS
<1> USE DEF request, gpuVars, layout, progress
<1>1. CASE Reject \/ Accept \/ Open \/ Fail
  BY <1>1, VerificationKept DEF Reject, Accept, Open, Fail, Opened
<1>2. CASE DescribeTensor \/ WriteHeader
  BY <1>2, VerificationKept DEF DescribeTensor, WriteHeader, Opened
<1>3. CASE EncodeChunk \/ WriteSome \/ Close
  BY <1>3, VerificationKept DEF EncodeChunk, WriteSome, Close, Opened
<1>4. CASE UNCHANGED vars
  BY <1>4, VerificationKept DEF vars, Opened
<1> QED
  BY <1>1, <1>2, <1>3, <1>4, CreateVerification, SelectVerification, BeginVerification,
     EndVerification DEF Next

(* Whatever the tensors and the options: of those the device encodes, the  *)
(* first verify_gpu_tensors and the verify_gpu_large_tensors largest are   *)
(* compared with the CPU's encoding.                                       *)
THEOREM VerificationIsDone == Spec => []VerifiedAsAsked
<1>1. VerificationInv => VerifiedAsAsked
  BY DEF VerificationInv
<1> QED
  BY LayoutInductive, InitVerification, StepVerification, <1>1, PTL DEF Spec

-----------------------------------------------------------------------------
(* What _compare_gguf says of two files, for all files. *)

(* What each stage finds. *)
DescriptorDifferences ==
  (IF Pair!Names(left) # Pair!Names(right) THEN {Pair!Difference("tensor_order", "")} ELSE {})
  \union
  {Pair!Difference("tensor_fields", left.tensors[i].name) :
     i \in {j \in Pair!Paired :
             Pair!Descriptor(left.tensors[j]) # Pair!Descriptor(right.tensors[j])}}

MetadataDifferences ==
  IF metadata
    THEN {Pair!Difference("metadata_value", key) :
            key \in {k \in Pair!Keys : ~ Pair!FoundTheSame(k)}}
         \union
         {Pair!Difference("metadata_duplicate_count", key) :
            key \in {k \in Pair!Keys : Pair!CountOf("left", k) # Pair!CountOf("right", k)}}
    ELSE {}

ByteDifferences ==
  IF tensorBytes
    THEN {Pair!Difference("tensor_bytes_skipped", name) : name \in Pair!Skipped}
         \union
         {Pair!Difference("tensor_bytes", name) :
            name \in {n \in Pair!Comparable :
              Pair!The(left, n).payload # Pair!The(right, n).payload}}
    ELSE {}

(* How much of a file's metadata has been read. *)
ItemsRead(side) ==
  CASE comparing = side -> item - 1
    [] comparing # side /\ comparing = "left" -> 0
    [] OTHER -> Len(Pair!File(side).metadata)

PlacesBefore(one, key, n) == {i \in 1 .. n : one.metadata[i].key = key}

(* What is kept of each item of a file's metadata.                         *)
ValuesOf(one) == [i \in DOMAIN one.metadata |-> Pair!Value(one.metadata[i])]

(* The dictionaries d and c hold what is to be kept of the first n items:  *)
(* of each key the last of the values v and how often it was there.        *)
HoldsItems(one, v, n, d, c) ==
  /\ DOMAIN d = {one.metadata[i].key : i \in 1 .. n}
  /\ DOMAIN c = DOMAIN d
  /\ \A key \in DOMAIN d :
       /\ c[key] = Cardinality(PlacesBefore(one, key, n))
       /\ \E i \in PlacesBefore(one, key, n) :
            /\ \A j \in PlacesBefore(one, key, n) : j <= i
            /\ d[key] = v[i]

ReadingInv ==
  /\ left \in Pair!GgufFiles /\ right \in Pair!GgufFiles
  /\ item \in Nat \ {0}
  /\ comparing \in Pair!Sides => item <= Len(Pair!File(comparing).metadata) + 1
  /\ DOMAIN kept = Pair!Sides /\ DOMAIN counts = Pair!Sides
  /\ \A side \in Pair!Sides :
       HoldsItems(Pair!File(side), ValuesOf(Pair!File(side)), ItemsRead(side),
                  kept[side], counts[side])

DifferencesInv ==
  /\ comparing \in Pair!Sides \union {"descriptors", "metadata", "bytes", "done", "failed"}
  /\ comparing \in Pair!Sides \union {"descriptors"} => differences = {}
  /\ comparing = "metadata" => differences = DescriptorDifferences
  /\ comparing = "bytes" => differences = DescriptorDifferences \union MetadataDifferences
  /\ comparing = "done" =>
       differences = DescriptorDifferences \union MetadataDifferences \union ByteDifferences

LEMMA PairCardinality == \A S : Pair!Cardinality(S) = Cardinality(S)
BY DEF Pair!Cardinality, Cardinality

(* A file's metadata is a sequence. *)
LEMMA MetadataIsInOrder ==
  ASSUME NEW one \in Pair!GgufFiles
  PROVE  Len(one.metadata) \in Nat /\ DOMAIN one.metadata = 1 .. Len(one.metadata)
<1>1. one.metadata \in Seq(FileItems)
  BY DEF Pair!GgufFiles
<1>. QED BY <1>1

LEMMA PlacesBeforeFinite ==
  ASSUME NEW one, NEW key, NEW n \in Nat
  PROVE  IsFiniteSet(PlacesBefore(one, key, n))
<1>1. IsFiniteSet(1 .. n)
  BY FS_Interval
<1>2. PlacesBefore(one, key, n) \in SUBSET (1 .. n)
  BY DEF PlacesBefore
<1>. QED BY <1>1, <1>2, FS_Subset

(* One more item is kept. *)
LEMMA ItemIsKept ==
  ASSUME NEW one, NEW v, NEW n \in Nat, NEW d, NEW c, HoldsItems(one, v, n, d, c),
         NEW key, key = one.metadata[n + 1].key, NEW value, value = v[n + 1],
         NEW count, count = IF key \in DOMAIN c THEN c[key] ELSE 0
  PROVE  HoldsItems(one, v, n + 1, Pair!Put(d, key, value), Pair!Put(c, key, count + 1))
<1>. DEFINE dd == Pair!Put(d, key, value)
            cc == Pair!Put(c, key, count + 1)
<1>1. /\ 1 .. n + 1 = (1 .. n) \union {n + 1}
      /\ n + 1 \notin 1 .. n
      /\ \A i \in 1 .. n : i <= n + 1
      /\ n + 1 <= n + 1
  OBVIOUS
<1>2. /\ DOMAIN dd = DOMAIN d \union {key} /\ dd[key] = value
      /\ \A k \in DOMAIN d : k # key => dd[k] = d[k]
      /\ DOMAIN cc = DOMAIN c \union {key} /\ cc[key] = count + 1
      /\ \A k \in DOMAIN c : k # key => cc[k] = c[k]
  BY DEF Pair!Put
<1>3. /\ DOMAIN d = {one.metadata[i].key : i \in 1 .. n}
      /\ DOMAIN c = DOMAIN d
  BY DEF HoldsItems
<1>4. DOMAIN dd = {one.metadata[i].key : i \in 1 .. n + 1}
  <2>1. \A k : k \in DOMAIN dd <=> k = key \/ \E i \in 1 .. n : k = one.metadata[i].key
    BY <1>2, <1>3
  <2>2. \A k : k \in {one.metadata[i].key : i \in 1 .. n + 1} <=>
                k = key \/ \E i \in 1 .. n : k = one.metadata[i].key
    BY <1>1
  <2>. HIDE DEF dd
  <2>. QED BY <2>1, <2>2
<1>5. DOMAIN cc = DOMAIN dd
  BY <1>2, <1>3
<1>6. ASSUME NEW k \in DOMAIN dd, k # key
      PROVE  /\ cc[k] = Cardinality(PlacesBefore(one, k, n + 1))
             /\ \E i \in PlacesBefore(one, k, n + 1) :
                  /\ \A j \in PlacesBefore(one, k, n + 1) : j <= i
                  /\ dd[k] = v[i]
  <2>1. k \in DOMAIN d /\ cc[k] = c[k] /\ dd[k] = d[k]
    BY <1>2, <1>3, <1>6
  <2>2. PlacesBefore(one, k, n + 1) = PlacesBefore(one, k, n)
    BY <1>1, <1>6 DEF PlacesBefore
  <2>3. /\ c[k] = Cardinality(PlacesBefore(one, k, n))
        /\ \E i \in PlacesBefore(one, k, n) :
             /\ \A j \in PlacesBefore(one, k, n) : j <= i
             /\ d[k] = v[i]
    BY <2>1 DEF HoldsItems
  <2>. QED BY <2>1, <2>2, <2>3
<1>7. PlacesBefore(one, key, n + 1) = PlacesBefore(one, key, n) \union {n + 1}
  BY <1>1 DEF PlacesBefore
<1>8. cc[key] = Cardinality(PlacesBefore(one, key, n + 1))
  <2>1. count = Cardinality(PlacesBefore(one, key, n))
    <3>1. CASE key \in DOMAIN c
      BY <1>3, <3>1 DEF HoldsItems
    <3>2. CASE key \notin DOMAIN c
      <4>1. PlacesBefore(one, key, n) = {}
        BY <1>3, <3>2 DEF PlacesBefore
      <4>. QED BY <3>2, <4>1, FS_EmptySet
    <3>. QED BY <3>1, <3>2
  <2>2. n + 1 \notin PlacesBefore(one, key, n)
    BY <1>1 DEF PlacesBefore
  <2>3. Cardinality(PlacesBefore(one, key, n) \union {n + 1})
          = Cardinality(PlacesBefore(one, key, n)) + 1
    BY <2>2, PlacesBeforeFinite, FS_AddElement
  <2>. QED BY <1>2, <1>7, <2>1, <2>3
<1>9. \E i \in PlacesBefore(one, key, n + 1) :
        /\ \A j \in PlacesBefore(one, key, n + 1) : j <= i
        /\ dd[key] = v[i]
  <2>1. n + 1 \in PlacesBefore(one, key, n + 1)
    BY <1>7
  <2>2. \A j \in PlacesBefore(one, key, n + 1) : j <= n + 1
    BY <1>1 DEF PlacesBefore
  <2>. QED BY <1>2, <2>1, <2>2
<1>. HIDE DEF dd, cc
<1>10. ASSUME NEW k \in DOMAIN dd
       PROVE  /\ cc[k] = Cardinality(PlacesBefore(one, k, n + 1))
              /\ \E i \in PlacesBefore(one, k, n + 1) :
                   /\ \A j \in PlacesBefore(one, k, n + 1) : j <= i
                   /\ dd[k] = v[i]
  <2>1. CASE k = key
    BY <1>8, <1>9, <2>1
  <2>2. CASE k # key
    BY <1>6, <2>2
  <2>. QED BY <2>1, <2>2
<1>11. HoldsItems(one, v, n + 1, dd, cc)
  BY <1>4, <1>5, <1>10 DEF HoldsItems
<1>. QED BY <1>11 DEF dd, cc

LEMMA NothingHeld == ASSUME NEW one, NEW v PROVE HoldsItems(one, v, 0, <<>>, <<>>)
<1>1. 1 .. 0 = {} /\ DOMAIN <<>> = {}
  OBVIOUS
<1>. QED BY <1>1 DEF HoldsItems

LEMMA ReadingInit == Pair!Init => ReadingInv
<1>. SUFFICES ASSUME Pair!Init PROVE ReadingInv
  OBVIOUS
<1>1. left \in Pair!GgufFiles /\ right \in Pair!GgufFiles
  BY ReadersAssumption DEF Pair!ComparisonConstants, Pair!Init
<1>2. /\ comparing = "left" /\ item = 1
      /\ kept = [side \in Pair!Sides |-> <<>>]
      /\ counts = [side \in Pair!Sides |-> <<>>]
  BY DEF Pair!Init
<1>3. \A side \in Pair!Sides : ItemsRead(side) = 0
  BY <1>2 DEF ItemsRead, Pair!Sides
<1>4. comparing \in Pair!Sides => item <= Len(Pair!File(comparing).metadata) + 1
  <2>1. Pair!File("left") = left
    BY DEF Pair!File
  <2>. QED BY <1>1, <1>2, <2>1, MetadataIsInOrder
<1>5. \A side \in Pair!Sides :
        HoldsItems(Pair!File(side), ValuesOf(Pair!File(side)), ItemsRead(side),
                  kept[side], counts[side])
  BY <1>2, <1>3, NothingHeld
<1>. QED BY <1>1, <1>2, <1>4, <1>5 DEF ReadingInv

LEMMA ReadItemKeeps == ReadingInv /\ Pair!ReadItem => ReadingInv'
<1>. SUFFICES ASSUME ReadingInv, Pair!ReadItem PROVE ReadingInv'
  OBVIOUS
<1>. DEFINE one == Pair!File(comparing)
            x == one.metadata[item]
<1>1. /\ comparing \in Pair!Sides /\ item <= Len(one.metadata)
      /\ kept' = [kept EXCEPT ![comparing] = Pair!Put(kept[comparing], x.key, Pair!Value(x))]
      /\ counts' = [counts EXCEPT ![comparing] =
                      Pair!Put(counts[comparing], x.key, Pair!CountOf(comparing, x.key) + 1)]
      /\ item' = item + 1
      /\ UNCHANGED <<left, right, limit, comparing>>
  BY DEF Pair!ReadItem, Pair!Keep, Pair!call
<1>2. \A side : Pair!File(side)' = Pair!File(side)
  BY <1>1 DEF Pair!File
<1>3. \A side : ValuesOf(Pair!File(side))' = ValuesOf(Pair!File(side))
  BY <1>1, <1>2 DEF ValuesOf, Pair!Value, Pair!Kept, Pair!File
<1>4. /\ left \in Pair!GgufFiles /\ right \in Pair!GgufFiles
      /\ item \in Nat \ {0}
      /\ DOMAIN kept = Pair!Sides /\ DOMAIN counts = Pair!Sides
  BY DEF ReadingInv
<1>5. one \in Pair!GgufFiles
  BY <1>4 DEF Pair!File
<1>6. Len(one.metadata) \in Nat /\ DOMAIN one.metadata = 1 .. Len(one.metadata)
  BY <1>5, MetadataIsInOrder
<1>7. ASSUME NEW side \in Pair!Sides
      PROVE  HoldsItems(Pair!File(side), ValuesOf(Pair!File(side)), ItemsRead(side),
                        kept[side], counts[side])'
  <2>. DEFINE f == Pair!File(side)
              v == ValuesOf(f)
              n == ItemsRead(side)
  <2>1. HoldsItems(f, v, n, kept[side], counts[side])
    BY <1>7 DEF ReadingInv
  <2>2. CASE side = comparing
    <3>1. n = item - 1 /\ ItemsRead(side)' = n + 1 /\ n \in Nat /\ n + 1 = item
      BY <1>1, <1>4, <2>2 DEF ItemsRead
    <3>2. f = one /\ f.metadata[n + 1] = x
      BY <2>2, <3>1
    <3>3. v[n + 1] = Pair!Value(x)
      BY <1>1, <1>4, <1>6, <3>1, <3>2 DEF ValuesOf
    <3>4. kept'[side] = Pair!Put(kept[side], x.key, Pair!Value(x))
      BY <1>1, <1>4, <2>2
    <3>5. counts'[side] = Pair!Put(counts[side], x.key, Pair!CountOf(side, x.key) + 1)
      BY <1>1, <1>4, <2>2
    <3>6. Pair!CountOf(side, x.key) =
            IF x.key \in DOMAIN counts[side] THEN counts[side][x.key] ELSE 0
      BY DEF Pair!CountOf
    <3>. HIDE DEF f, v, n, x, one
    <3>7. HoldsItems(f, v, n + 1, kept'[side], counts'[side])
      BY <2>1, <3>1, <3>2, <3>3, <3>4, <3>5, <3>6, ItemIsKept
    <3>8. Pair!File(side)' = f /\ ValuesOf(Pair!File(side))' = v
      BY <1>2, <1>3 DEF f, v
    <3>9. HoldsItems(Pair!File(side)', ValuesOf(Pair!File(side))', ItemsRead(side)',
                     kept'[side], counts'[side])
      BY <3>1, <3>7, <3>8
    <3>. QED BY <3>9 DEF HoldsItems, PlacesBefore
  <2>3. CASE side # comparing
    <3>1. kept'[side] = kept[side] /\ counts'[side] = counts[side]
      BY <1>1, <1>4, <1>7, <2>3
    <3>2. ItemsRead(side)' = n
      BY <1>1, <1>2, <2>3 DEF ItemsRead
    <3>. HIDE DEF f, v, n
    <3>3. Pair!File(side)' = f /\ ValuesOf(Pair!File(side))' = v
      BY <1>2, <1>3 DEF f, v
    <3>4. HoldsItems(Pair!File(side)', ValuesOf(Pair!File(side))', ItemsRead(side)',
                     kept'[side], counts'[side])
      BY <2>1, <3>1, <3>2, <3>3
    <3>. QED BY <3>4 DEF HoldsItems, PlacesBefore
  <2>. QED BY <2>2, <2>3
<1>8. item' \in Nat \ {0} /\ item' <= Len(one.metadata) + 1
  BY <1>1, <1>4, <1>6
<1>9. Pair!File(comparing)' = one
  BY <1>1, <1>2
<1>10. DOMAIN kept' = Pair!Sides /\ DOMAIN counts' = Pair!Sides
  BY <1>1, <1>4
<1>. QED BY <1>1, <1>4, <1>7, <1>8, <1>9, <1>10 DEF ReadingInv, Pair!GgufFiles

(* The end of the metadata, and what is done after it, reads no item.      *)
LEMMA ReadingStays ==
  ASSUME ReadingInv,
         UNCHANGED <<left, right, limit, kept, counts>>,
         item' \in Nat \ {0},
         comparing' \in Pair!Sides => item' = 1 \/ (item' = item /\ comparing' = comparing),
         \A side \in Pair!Sides : ItemsRead(side)' = ItemsRead(side)
  PROVE  ReadingInv'
<1>1. \A side : Pair!File(side)' = Pair!File(side)
  BY DEF Pair!File
<1>2. \A side : ValuesOf(Pair!File(side))' = ValuesOf(Pair!File(side))
  BY <1>1 DEF ValuesOf, Pair!Value, Pair!Kept, Pair!File
<1>3. ASSUME NEW side \in Pair!Sides
      PROVE  HoldsItems(Pair!File(side), ValuesOf(Pair!File(side)), ItemsRead(side),
                        kept[side], counts[side])'
  <2>. DEFINE f == Pair!File(side)
              v == ValuesOf(f)
              n == ItemsRead(side)
  <2>1. HoldsItems(f, v, n, kept[side], counts[side])
    BY <1>3 DEF ReadingInv
  <2>. HIDE DEF f, v, n
  <2>2. Pair!File(side)' = f /\ ValuesOf(Pair!File(side))' = v /\ ItemsRead(side)' = n
    BY <1>1, <1>2, <1>3 DEF f, v, n
  <2>3. HoldsItems(Pair!File(side)', ValuesOf(Pair!File(side))', ItemsRead(side)',
                   kept'[side], counts'[side])
    BY <2>1, <2>2
  <2>. QED BY <2>3 DEF HoldsItems, PlacesBefore
<1>4. left \in Pair!GgufFiles /\ right \in Pair!GgufFiles
      /\ DOMAIN kept = Pair!Sides /\ DOMAIN counts = Pair!Sides
  BY DEF ReadingInv
<1>5. comparing' \in Pair!Sides => item' <= Len(Pair!File(comparing)'.metadata) + 1
  <2>1. \A side : Pair!File(side) \in Pair!GgufFiles
    BY <1>4 DEF Pair!File
  <2>2. \A side : Len(Pair!File(side).metadata) \in Nat
    BY <2>1, MetadataIsInOrder
  <2>3. Pair!File(comparing)' = Pair!File(comparing')
    BY DEF Pair!File
  <2>4. CASE comparing' \in Pair!Sides /\ item' = 1
    <3>1. Len(Pair!File(comparing').metadata) \in Nat
      BY <2>2
    <3>. QED BY <2>3, <2>4, <3>1
  <2>5. CASE comparing' \in Pair!Sides /\ item' = item /\ comparing' = comparing
    <3>1. item <= Len(Pair!File(comparing).metadata) + 1
      BY <2>5 DEF ReadingInv
    <3>. QED BY <2>3, <2>5, <3>1
  <2>. QED BY <2>4, <2>5
<1>. QED BY <1>3, <1>4, <1>5 DEF ReadingInv, Pair!GgufFiles

LEMMA ReadingStep == ReadingInv /\ [Pair!Next]_Pair!vars => ReadingInv'
<1>. SUFFICES ASSUME ReadingInv, [Pair!Next]_Pair!vars PROVE ReadingInv'
  OBVIOUS
<1>0. /\ left \in Pair!GgufFiles /\ right \in Pair!GgufFiles /\ item \in Nat \ {0}
      /\ comparing \in Pair!Sides => item <= Len(Pair!File(comparing).metadata) + 1
  BY DEF ReadingInv
<1>1. CASE Pair!ReadItem
  BY <1>1, ReadItemKeeps
<1>2. CASE Pair!EndOfMetadata
  <2>1. /\ comparing \in {"left", "right"} /\ item > Len(Pair!File(comparing).metadata)
        /\ comparing' = (IF comparing = "left" THEN "right" ELSE "descriptors")
        /\ item' = 1
        /\ UNCHANGED <<left, right, limit, kept, counts>>
    BY <1>2 DEF Pair!EndOfMetadata, Pair!call, Pair!Sides
  <2>2. Len(left.metadata) \in Nat /\ Len(right.metadata) \in Nat
    BY <1>0, MetadataIsInOrder
  <2>3. item - 1 = Len(Pair!File(comparing).metadata)
    BY <1>0, <2>1, <2>2 DEF Pair!File, Pair!Sides
  <2>4. ASSUME NEW side \in Pair!Sides PROVE ItemsRead(side)' = ItemsRead(side)
    <3>1. CASE comparing = "left" /\ side = "left"
      BY <2>1, <2>3, <3>1 DEF ItemsRead, Pair!File
    <3>2. CASE comparing = "left" /\ side = "right"
      BY <2>1, <3>2 DEF ItemsRead, Pair!File
    <3>3. CASE comparing = "right" /\ side = "left"
      BY <2>1, <3>3 DEF ItemsRead, Pair!File
    <3>4. CASE comparing = "right" /\ side = "right"
      BY <2>1, <2>3, <3>4 DEF ItemsRead, Pair!File
    <3>. QED BY <2>1, <2>4, <3>1, <3>2, <3>3, <3>4 DEF Pair!Sides
  <2>. QED BY <2>1, <2>4, ReadingStays
<1>3. CASE Pair!CompareDescriptors \/ Pair!CompareMetadata \/ Pair!CompareBytes \/ Pair!ReadFails
  <2>1. /\ comparing \in {"descriptors", "metadata", "bytes"}
        /\ comparing' \in {"metadata", "bytes", "done", "failed"}
        /\ UNCHANGED <<left, right, limit, kept, counts, item>>
    BY <1>3 DEF Pair!CompareDescriptors, Pair!CompareMetadata, Pair!CompareBytes,
       Pair!ReadFails, Pair!call
  <2>2. \A side \in Pair!Sides : ItemsRead(side)' = ItemsRead(side)
    BY <2>1 DEF ItemsRead, Pair!File, Pair!Sides
  <2>. QED BY <1>0, <2>1, <2>2, ReadingStays DEF Pair!Sides
<1>4. CASE UNCHANGED Pair!vars
  <2>1. UNCHANGED <<left, right, limit, kept, counts, item, comparing>>
    BY <1>4 DEF Pair!vars, Pair!call
  <2>2. \A side \in Pair!Sides : ItemsRead(side)' = ItemsRead(side)
    BY <2>1 DEF ItemsRead, Pair!File
  <2>. QED BY <1>0, <2>1, <2>2, ReadingStays
<1>. QED BY <1>1, <1>2, <1>3, <1>4 DEF Pair!Next

LEMMA DifferencesInit == Pair!Init => DifferencesInv
BY DEF Pair!Init, DifferencesInv, Pair!Sides

(* The files and the options stay, and so does what each stage finds.      *)
LEMMA FilesStay ==
  ASSUME UNCHANGED <<left, right, metadata, tensorBytes, kept, counts>>
  PROVE  /\ DescriptorDifferences' = DescriptorDifferences
         /\ MetadataDifferences' = MetadataDifferences
         /\ ByteDifferences' = ByteDifferences
<1>1. DescriptorDifferences' = DescriptorDifferences
  BY DEF DescriptorDifferences, Pair!Names, Pair!Difference, Pair!Paired, Pair!Descriptor
<1>2. MetadataDifferences' = MetadataDifferences
  BY DEF MetadataDifferences, Pair!Difference, Pair!Keys, Pair!FoundTheSame, Pair!SameAsKept,
     Pair!CountOf
<1>3. /\ \A n : Pair!The(left, n)' = Pair!The(left, n)
           /\ Pair!The(right, n)' = Pair!The(right, n)
      /\ Pair!Unique(left)' = Pair!Unique(left) /\ Pair!Unique(right)' = Pair!Unique(right)
      /\ Pair!AllNames(left)' = Pair!AllNames(left)
      /\ Pair!AllNames(right)' = Pair!AllNames(right)
  BY DEF Pair!The, Pair!Named, Pair!Unique, Pair!AllNames
<1>4. Pair!Candidates' = Pair!Candidates /\ Pair!Duplicates' = Pair!Duplicates
  BY <1>3 DEF Pair!Candidates, Pair!Duplicates
<1>5. Pair!Comparable' = Pair!Comparable
  BY <1>3, <1>4 DEF Pair!Comparable
<1>6. Pair!Skipped' = Pair!Skipped
  BY <1>4, <1>5 DEF Pair!Skipped
<1>7. ByteDifferences' = ByteDifferences
  BY <1>3, <1>5, <1>6 DEF ByteDifferences, Pair!Difference
<1>. QED BY <1>1, <1>2, <1>7

LEMMA DifferencesStep == DifferencesInv /\ [Pair!Next]_Pair!vars => DifferencesInv'
<1>. SUFFICES ASSUME DifferencesInv, [Pair!Next]_Pair!vars PROVE DifferencesInv'
  OBVIOUS
<1>1. CASE Pair!ReadItem \/ Pair!EndOfMetadata
  <2>1. /\ comparing \in Pair!Sides
        /\ comparing' \in Pair!Sides \union {"descriptors"}
        /\ differences' = differences
    BY <1>1 DEF Pair!ReadItem, Pair!EndOfMetadata, Pair!Sides
  <2>2. differences = {}
    BY <2>1 DEF DifferencesInv
  <2>. QED BY <2>1, <2>2 DEF DifferencesInv, Pair!Sides
<1>2. CASE Pair!CompareDescriptors
  <2>1. differences' = DescriptorDifferences
    BY <1>2 DEF Pair!CompareDescriptors, DescriptorDifferences
  <2>2. comparing' = "metadata" /\ UNCHANGED <<left, right, metadata, tensorBytes, kept, counts>>
    BY <1>2 DEF Pair!CompareDescriptors, Pair!call
  <2>. QED BY <2>1, <2>2, FilesStay DEF DifferencesInv, Pair!Sides
<1>3. CASE Pair!CompareMetadata
  <2>1. differences' = differences \union MetadataDifferences
    BY <1>3 DEF Pair!CompareMetadata, MetadataDifferences
  <2>2. /\ comparing = "metadata" /\ comparing' = "bytes"
        /\ UNCHANGED <<left, right, metadata, tensorBytes, kept, counts>>
    BY <1>3 DEF Pair!CompareMetadata, Pair!call
  <2>. QED BY <2>1, <2>2, FilesStay DEF DifferencesInv, Pair!Sides
<1>4. CASE Pair!CompareBytes
  <2>1. differences' = differences \union ByteDifferences
    BY <1>4 DEF Pair!CompareBytes, ByteDifferences
  <2>2. /\ comparing = "bytes" /\ comparing' = "done"
        /\ UNCHANGED <<left, right, metadata, tensorBytes, kept, counts>>
    BY <1>4 DEF Pair!CompareBytes, Pair!call
  <2>. QED BY <2>1, <2>2, FilesStay DEF DifferencesInv, Pair!Sides
<1>5. CASE Pair!ReadFails
  BY <1>5 DEF Pair!ReadFails, DifferencesInv, Pair!Sides
<1>6. CASE UNCHANGED Pair!vars
  <2>1. UNCHANGED <<left, right, metadata, tensorBytes, kept, counts, comparing, differences>>
    BY <1>6 DEF Pair!vars, Pair!call
  <2>. QED BY <2>1, FilesStay DEF DifferencesInv
<1>. QED BY <1>1, <1>2, <1>3, <1>4, <1>5, <1>6 DEF Pair!Next

-----------------------------------------------------------------------------
LEMMA DescriptorsAreCompared == DescriptorDifferences = {} <=> Pair!SameTensors
<1>1. Pair!Names(left) = Pair!Names(right) <=>
        /\ DOMAIN left.tensors = DOMAIN right.tensors
        /\ \A i \in DOMAIN left.tensors : left.tensors[i].name = right.tensors[i].name
  BY DEF Pair!Names
<1>2. DescriptorDifferences = {} <=>
        /\ Pair!Names(left) = Pair!Names(right)
        /\ \A j \in Pair!Paired :
             Pair!Descriptor(left.tensors[j]) = Pair!Descriptor(right.tensors[j])
  BY DEF DescriptorDifferences
<1>3. Pair!Names(left) = Pair!Names(right) => Pair!Paired = DOMAIN left.tensors
  BY <1>1 DEF Pair!Paired
<1>. QED BY <1>1, <1>2, <1>3 DEF Pair!SameTensors

(* A file's tensors are a sequence.                                        *)
LEMMA TensorsAreInOrder ==
  ASSUME NEW one \in Pair!GgufFiles
  PROVE  one.tensors \in Seq(FileTensors) /\ DOMAIN one.tensors = 1 .. Len(one.tensors)
<1>1. one.tensors \in Seq(FileTensors)
  BY DEF Pair!GgufFiles
<1>. QED BY <1>1

LEMMA NamedIsFinite ==
  ASSUME NEW one \in Pair!GgufFiles, NEW name
  PROVE  IsFiniteSet(Pair!Named(one, name))
<1>1. PICK n \in Nat : DOMAIN one.tensors = 1 .. n
  BY TensorsAreInOrder
<1>2. IsFiniteSet(1 .. n)
  BY FS_Interval
<1>3. Pair!Named(one, name) \in SUBSET (1 .. n)
  BY <1>1 DEF Pair!Named
<1>. QED BY <1>2, <1>3, FS_Subset

(* A tensor of a unique name is the one that the name finds.               *)
LEMMA UniqueIsFound ==
  ASSUME NEW one \in Pair!GgufFiles, NEW i \in DOMAIN one.tensors
  PROVE  /\ one.tensors[i].name \in Pair!Unique(one) <=>
              \A j \in DOMAIN one.tensors : one.tensors[i].name = one.tensors[j].name => i = j
         /\ one.tensors[i].name \in Pair!Unique(one) =>
              Pair!The(one, one.tensors[i].name) = one.tensors[i]
<1>. DEFINE name == one.tensors[i].name
<1>1. i \in Pair!Named(one, name) /\ name \in Pair!AllNames(one)
  BY DEF Pair!Named, Pair!AllNames
<1>2. name \in Pair!Unique(one) <=> Cardinality(Pair!Named(one, name)) = 1
  BY <1>1, PairCardinality DEF Pair!Unique
<1>3. Cardinality(Pair!Named(one, name)) = 1 <=> Pair!Named(one, name) = {i}
  <2>1. IsFiniteSet(Pair!Named(one, name))
    BY NamedIsFinite
  <2>2. Cardinality(Pair!Named(one, name)) = 1 => Pair!Named(one, name) = {i}
    BY <1>1, <2>1, FS_Singleton
  <2>3. Pair!Named(one, name) = {i} => Cardinality(Pair!Named(one, name)) = 1
    BY FS_Singleton
  <2>. QED BY <2>2, <2>3
<1>4. Pair!Named(one, name) = {i} <=>
        \A j \in DOMAIN one.tensors : name = one.tensors[j].name => i = j
  BY <1>1 DEF Pair!Named
<1>5. Pair!Named(one, name) = {i} => Pair!The(one, name) = one.tensors[i]
  BY DEF Pair!The
<1>. QED BY <1>2, <1>3, <1>4, <1>5

(* Names that are not told twice are unique.                               *)
LEMMA NoDuplicates ==
  Pair!Duplicates = {} <=>
    /\ \A name \in Pair!AllNames(left) : name \in Pair!Unique(left)
    /\ \A name \in Pair!AllNames(right) : name \in Pair!Unique(right)
BY DEF Pair!Duplicates

LEMMA BytesAreCompared ==
  ASSUME left \in Pair!GgufFiles, right \in Pair!GgufFiles, Pair!SameTensors
  PROVE  ByteDifferences = {} <=> (tensorBytes => Pair!SamePayloads)
<1>1. /\ DOMAIN left.tensors = DOMAIN right.tensors
      /\ \A i \in DOMAIN left.tensors :
           /\ left.tensors[i].name = right.tensors[i].name
           /\ Pair!Descriptor(left.tensors[i]) = Pair!Descriptor(right.tensors[i])
  BY DEF Pair!SameTensors
<1>2. ASSUME tensorBytes
      PROVE  ByteDifferences = {} <=>
               /\ Pair!Duplicates = {}
               /\ \A name \in Pair!Candidates :
                    /\ name \in Pair!Comparable
                    /\ Pair!The(left, name).payload = Pair!The(right, name).payload
  <2>1. ByteDifferences = {} <=>
          /\ Pair!Skipped = {}
          /\ \A name \in Pair!Comparable :
               Pair!The(left, name).payload = Pair!The(right, name).payload
    BY <1>2 DEF ByteDifferences
  <2>2. Pair!Comparable \subseteq Pair!Candidates
    BY DEF Pair!Comparable
  <2>. QED BY <2>1, <2>2 DEF Pair!Skipped
<1>3. ASSUME NEW i \in DOMAIN left.tensors
      PROVE  /\ left.tensors[i].name \in Pair!Unique(left) <=>
                  left.tensors[i].name \in Pair!Unique(right)
             /\ left.tensors[i].name \in Pair!Unique(left) <=>
                  \A j \in DOMAIN left.tensors :
                    left.tensors[i].name = left.tensors[j].name => i = j
             /\ left.tensors[i].name \in Pair!Unique(left) =>
                  /\ Pair!The(left, left.tensors[i].name) = left.tensors[i]
                  /\ Pair!The(right, left.tensors[i].name) = right.tensors[i]
  <2>1. i \in DOMAIN right.tensors
    BY <1>1
  <2>2. /\ left.tensors[i].name \in Pair!Unique(left) <=>
             \A j \in DOMAIN left.tensors : left.tensors[i].name = left.tensors[j].name => i = j
        /\ left.tensors[i].name \in Pair!Unique(left) =>
             Pair!The(left, left.tensors[i].name) = left.tensors[i]
    BY UniqueIsFound
  <2>3. /\ right.tensors[i].name \in Pair!Unique(right) <=>
             \A j \in DOMAIN right.tensors :
               right.tensors[i].name = right.tensors[j].name => i = j
        /\ right.tensors[i].name \in Pair!Unique(right) =>
             Pair!The(right, right.tensors[i].name) = right.tensors[i]
    BY <2>1, UniqueIsFound
  <2>. QED BY <1>1, <2>2, <2>3
<1>4. Pair!AllNames(left) = {left.tensors[i].name : i \in DOMAIN left.tensors}
      /\ Pair!AllNames(right) = Pair!AllNames(left)
  BY <1>1 DEF Pair!AllNames
<1>5. ASSUME tensorBytes, ByteDifferences = {} PROVE Pair!SamePayloads
  <2>. SUFFICES ASSUME NEW i \in DOMAIN left.tensors
                PROVE  /\ \A j \in DOMAIN left.tensors :
                            left.tensors[i].name = left.tensors[j].name => i = j
                       /\ left.tensors[i].known
                       /\ left.tensors[i].payload = right.tensors[i].payload
    BY DEF Pair!SamePayloads
  <2>. DEFINE name == left.tensors[i].name
  <2>1. name \in Pair!Unique(left) /\ name \in Pair!Unique(right)
    BY <1>2, <1>4, <1>5, NoDuplicates
  <2>2. name \in Pair!Candidates
    BY <1>2, <1>5, <2>1 DEF Pair!Candidates
  <2>3. name \in Pair!Comparable
        /\ Pair!The(left, name).payload = Pair!The(right, name).payload
    BY <1>2, <1>5, <2>2
  <2>4. Pair!The(left, name) = left.tensors[i] /\ Pair!The(right, name) = right.tensors[i]
    BY <1>3, <2>1
  <2>5. Pair!The(left, name).known
    BY <2>3 DEF Pair!Comparable
  <2>. QED BY <1>3, <2>1, <2>3, <2>4, <2>5
<1>6. ASSUME tensorBytes, Pair!SamePayloads PROVE ByteDifferences = {}
  <2>1. \A i \in DOMAIN left.tensors :
          /\ left.tensors[i].name \in Pair!Unique(left)
          /\ left.tensors[i].name \in Pair!Unique(right)
    BY <1>3, <1>6 DEF Pair!SamePayloads
  <2>2. Pair!Duplicates = {}
    BY <1>4, <2>1, NoDuplicates
  <2>3. ASSUME NEW name \in Pair!Candidates
        PROVE  /\ name \in Pair!Comparable
               /\ Pair!The(left, name).payload = Pair!The(right, name).payload
    <3>1. name \in Pair!AllNames(left)
      BY DEF Pair!Candidates, Pair!Unique
    <3>2. PICK i \in DOMAIN left.tensors : name = left.tensors[i].name
      BY <1>4, <3>1
    <3>3. Pair!The(left, name) = left.tensors[i] /\ Pair!The(right, name) = right.tensors[i]
      BY <1>3, <2>1, <3>2
    <3>4. left.tensors[i].known /\ left.tensors[i].payload = right.tensors[i].payload
      BY <1>6 DEF Pair!SamePayloads
    <3>. QED BY <1>1, <3>3, <3>4 DEF Pair!Comparable
  <2>. QED BY <1>2, <1>6, <2>2, <2>3
<1>7. ~ tensorBytes => ByteDifferences = {}
  BY DEF ByteDifferences
<1>. QED BY <1>5, <1>6, <1>7

(* One reader keeps the same of two items exactly if they are alike.       *)
LEMMA AlikeIsKeptTheSame ==
  ASSUME NEW l, NEW r
  PROVE  Pair!SameAsKept(Pair!Value(l), Pair!Value(r)) <=> Pair!Alike(l, r)
<1>. DEFINE same == l.array = r.array /\ l.type = r.type /\ l.length = r.length
<1>1. same => Pair!Kept(l) = Pair!Kept(r)
  BY DEF Pair!Kept
<1>2. /\ Pair!Value(l).array = l.array /\ Pair!Value(l).type = l.type
      /\ Pair!Value(l).length = l.length
      /\ Pair!Value(l).truncated = (Pair!Kept(l) < l.length)
      /\ DOMAIN Pair!Value(l).values = 1 .. Pair!Kept(l)
      /\ \A n \in 1 .. Pair!Kept(l) : Pair!Value(l).values[n] = l.values[n]
  BY DEF Pair!Value
<1>3. /\ Pair!Value(r).array = r.array /\ Pair!Value(r).type = r.type
      /\ Pair!Value(r).length = r.length
      /\ Pair!Value(r).truncated = (Pair!Kept(r) < r.length)
      /\ DOMAIN Pair!Value(r).values = 1 .. Pair!Kept(r)
      /\ \A n \in 1 .. Pair!Kept(r) : Pair!Value(r).values[n] = r.values[n]
  BY DEF Pair!Value
<1>4. ASSUME same
      PROVE  Pair!SameAsKept(Pair!Value(l), Pair!Value(r)) <=> Pair!Alike(l, r)
  <2>1. /\ (Pair!Kept(l) < l.length) = (Pair!Kept(r) < r.length)
        /\ 1 .. Pair!Kept(l) = 1 .. Pair!Kept(r)
    BY <1>1, <1>4
  <2>2. \A n \in 1 .. Pair!Kept(l) :
          SameValue(Pair!Value(l).values[n], Pair!Value(r).values[n]) <=>
            SameValue(l.values[n], r.values[n])
    BY <1>2, <1>3, <2>1
  <2>. QED BY <1>2, <1>3, <1>4, <2>1, <2>2 DEF Pair!SameAsKept, Pair!Alike
<1>5. ASSUME ~ same
      PROVE  ~ Pair!SameAsKept(Pair!Value(l), Pair!Value(r)) /\ ~ Pair!Alike(l, r)
  BY <1>2, <1>3, <1>5 DEF Pair!SameAsKept, Pair!Alike
<1>. QED BY <1>4, <1>5

(* When all is read, of each key the last value is kept and how often it   *)
(* was there.                                                              *)
LEMMA AllIsKept ==
  ASSUME ReadingInv, comparing = "done", NEW side \in Pair!Sides
  PROVE  /\ Pair!File(side) \in Pair!GgufFiles
         /\ DOMAIN kept[side] =
              {Pair!File(side).metadata[i].key : i \in DOMAIN Pair!File(side).metadata}
         /\ \A key : Pair!CountOf(side, key) = Pair!Cardinality(Pair!Places(Pair!File(side), key))
         /\ \A key : key \notin DOMAIN kept[side] => Pair!Places(Pair!File(side), key) = {}
         /\ \A key : IsFiniteSet(Pair!Places(Pair!File(side), key))
         /\ \A key \in DOMAIN kept[side] : \E i \in DOMAIN Pair!File(side).metadata :
              /\ Pair!File(side).metadata[i].key = key
              /\ Pair!LastOfKey(Pair!File(side), i)
              /\ kept[side][key] = Pair!Value(Pair!File(side).metadata[i])
<1>. DEFINE one == Pair!File(side)
            n == Len(one.metadata)
            v == ValuesOf(one)
<1>1. one \in Pair!GgufFiles
  BY DEF ReadingInv, Pair!File
<1>2. n \in Nat /\ DOMAIN one.metadata = 1 .. n
  BY <1>1, MetadataIsInOrder
<1>3. ItemsRead(side) = n
  BY DEF ItemsRead, Pair!Sides
<1>4. HoldsItems(one, v, n, kept[side], counts[side])
  <2>1. HoldsItems(one, v, ItemsRead(side), kept[side], counts[side])
    BY DEF ReadingInv
  <2>. QED BY <1>3, <2>1
<1>5. \A i \in 1 .. n : v[i] = Pair!Value(one.metadata[i])
  BY <1>2 DEF ValuesOf
<1>. HIDE DEF one, n, v
<1>6. \A key : Pair!Places(one, key) = PlacesBefore(one, key, n)
  BY <1>2 DEF Pair!Places, PlacesBefore
<1>7. DOMAIN kept[side] = {one.metadata[i].key : i \in DOMAIN one.metadata}
      /\ DOMAIN counts[side] = DOMAIN kept[side]
  BY <1>2, <1>4 DEF HoldsItems
<1>8. \A key : key \notin DOMAIN kept[side] => Pair!Places(one, key) = {}
  BY <1>7 DEF Pair!Places
<1>9. ASSUME NEW key
      PROVE  Pair!CountOf(side, key) = Pair!Cardinality(Pair!Places(one, key))
  <2>1. CASE key \in DOMAIN kept[side]
    <3>1. counts[side][key] = Cardinality(PlacesBefore(one, key, n))
      BY <1>4, <2>1 DEF HoldsItems
    <3>2. Pair!CountOf(side, key) = counts[side][key]
      BY <1>7, <2>1 DEF Pair!CountOf
    <3>. QED BY <1>6, <3>1, <3>2, PairCardinality
  <2>2. CASE key \notin DOMAIN kept[side]
    <3>1. Pair!CountOf(side, key) = 0
      BY <1>7, <2>2 DEF Pair!CountOf
    <3>2. Pair!Cardinality(Pair!Places(one, key)) = Cardinality({})
      BY <1>8, <2>2, PairCardinality
    <3>. QED BY <3>1, <3>2, FS_EmptySet
  <2>. QED BY <2>1, <2>2
<1>10. \A key : IsFiniteSet(Pair!Places(one, key))
  BY <1>2, <1>6, PlacesBeforeFinite
<1>11. ASSUME NEW key \in DOMAIN kept[side]
       PROVE  \E i \in DOMAIN one.metadata :
                /\ one.metadata[i].key = key
                /\ Pair!LastOfKey(one, i)
                /\ kept[side][key] = Pair!Value(one.metadata[i])
  <2>1. PICK i \in PlacesBefore(one, key, n) :
          /\ \A j \in PlacesBefore(one, key, n) : j <= i
          /\ kept[side][key] = v[i]
    BY <1>4 DEF HoldsItems
  <2>2. i \in 1 .. n /\ one.metadata[i].key = key
    BY DEF PlacesBefore
  <2>3. Pair!LastOfKey(one, i)
    BY <1>6, <2>1, <2>2 DEF Pair!LastOfKey
  <2>. QED BY <1>2, <1>5, <2>1, <2>2, <2>3
<1>. QED BY <1>1, <1>7, <1>8, <1>9, <1>10, <1>11 DEF one

(* There is one last item of a key.                                        *)
LEMMA OneIsLast ==
  ASSUME NEW one \in Pair!GgufFiles,
         NEW i \in DOMAIN one.metadata, NEW j \in DOMAIN one.metadata,
         one.metadata[i].key = one.metadata[j].key,
         Pair!LastOfKey(one, i), Pair!LastOfKey(one, j)
  PROVE  i = j
<1>1. i \in Int /\ j \in Int
  BY MetadataIsInOrder
<1>2. i \in Pair!Places(one, one.metadata[j].key) /\ j \in Pair!Places(one, one.metadata[i].key)
  BY DEF Pair!Places
<1>3. i <= j /\ j <= i
  BY <1>2 DEF Pair!LastOfKey
<1>. QED BY <1>1, <1>3

LEMMA MetadataIsCompared ==
  ASSUME ReadingInv, comparing = "done"
  PROVE  MetadataDifferences = {} <=> (metadata => Pair!SameMetadata)
<1>1. Pair!File("left") = left /\ Pair!File("right") = right
      /\ "left" \in Pair!Sides /\ "right" \in Pair!Sides
  BY DEF Pair!File, Pair!Sides
<1>2. /\ left \in Pair!GgufFiles
      /\ DOMAIN kept["left"] = {left.metadata[i].key : i \in DOMAIN left.metadata}
      /\ \A key : Pair!CountOf("left", key) = Pair!Cardinality(Pair!Places(left, key))
      /\ \A key : key \notin DOMAIN kept["left"] => Pair!Places(left, key) = {}
      /\ \A key : IsFiniteSet(Pair!Places(left, key))
      /\ \A key \in DOMAIN kept["left"] : \E i \in DOMAIN left.metadata :
           /\ left.metadata[i].key = key
           /\ Pair!LastOfKey(left, i)
           /\ kept["left"][key] = Pair!Value(left.metadata[i])
  BY <1>1, AllIsKept
<1>3. /\ right \in Pair!GgufFiles
      /\ DOMAIN kept["right"] = {right.metadata[i].key : i \in DOMAIN right.metadata}
      /\ \A key : Pair!CountOf("right", key) = Pair!Cardinality(Pair!Places(right, key))
      /\ \A key : key \notin DOMAIN kept["right"] => Pair!Places(right, key) = {}
      /\ \A key : IsFiniteSet(Pair!Places(right, key))
      /\ \A key \in DOMAIN kept["right"] : \E i \in DOMAIN right.metadata :
           /\ right.metadata[i].key = key
           /\ Pair!LastOfKey(right, i)
           /\ kept["right"][key] = Pair!Value(right.metadata[i])
  BY <1>1, AllIsKept
<1>4. ASSUME metadata
      PROVE  MetadataDifferences = {} <=>
               \A k \in Pair!Keys :
                 /\ Pair!FoundTheSame(k)
                 /\ Pair!CountOf("left", k) = Pair!CountOf("right", k)
  BY <1>4 DEF MetadataDifferences
<1>5. Pair!Keys = DOMAIN kept["left"] \union DOMAIN kept["right"]
  BY DEF Pair!Keys
<1>6. ASSUME \A k \in Pair!Keys :
               /\ Pair!FoundTheSame(k)
               /\ Pair!CountOf("left", k) = Pair!CountOf("right", k)
      PROVE  Pair!SameMetadata
  <2>1. ASSUME NEW one \in {left, right}, NEW i \in DOMAIN one.metadata
        PROVE  Pair!Cardinality(Pair!Places(left, one.metadata[i].key))
                 = Pair!Cardinality(Pair!Places(right, one.metadata[i].key))
    <3>1. one.metadata[i].key \in Pair!Keys
      BY <1>2, <1>3, <1>5, <2>1
    <3>. QED BY <1>2, <1>3, <1>6, <3>1
  <2>2. ASSUME NEW i \in DOMAIN left.metadata, NEW j \in DOMAIN right.metadata,
               left.metadata[i].key = right.metadata[j].key,
               Pair!LastOfKey(left, i), Pair!LastOfKey(right, j)
        PROVE  Pair!Alike(left.metadata[i], right.metadata[j])
    <3>. DEFINE key == left.metadata[i].key
    <3>1. key \in DOMAIN kept["left"] /\ key \in DOMAIN kept["right"] /\ key \in Pair!Keys
      BY <1>2, <1>3, <1>5, <2>2
    <3>2. kept["left"][key] = Pair!Value(left.metadata[i])
      BY <1>2, <2>2, <3>1, OneIsLast
    <3>3. kept["right"][key] = Pair!Value(right.metadata[j])
      BY <1>3, <2>2, <3>1, OneIsLast
    <3>4. Pair!SameAsKept(kept["left"][key], kept["right"][key])
      BY <1>6, <3>1 DEF Pair!FoundTheSame
    <3>. QED BY <3>2, <3>3, <3>4, AlikeIsKeptTheSame
  <2>. QED BY <2>1, <2>2 DEF Pair!SameMetadata
<1>7. ASSUME Pair!SameMetadata, NEW k \in Pair!Keys
      PROVE  Pair!FoundTheSame(k) /\ Pair!CountOf("left", k) = Pair!CountOf("right", k)
  <2>1. Pair!Cardinality(Pair!Places(left, k)) = Pair!Cardinality(Pair!Places(right, k))
    <3>1. PICK one \in {left, right} : \E i \in DOMAIN one.metadata : one.metadata[i].key = k
      BY <1>2, <1>3, <1>5, <1>7
    <3>. QED BY <1>7, <3>1 DEF Pair!SameMetadata
  <2>2. Pair!Places(left, k) = {} <=> Pair!Places(right, k) = {}
    BY <1>2, <1>3, <2>1, PairCardinality, FS_EmptySet
  <2>3. /\ k \in DOMAIN kept["left"] <=> Pair!Places(left, k) # {}
        /\ k \in DOMAIN kept["right"] <=> Pair!Places(right, k) # {}
    BY <1>2, <1>3 DEF Pair!Places
  <2>4. ASSUME k \in DOMAIN kept["left"], k \in DOMAIN kept["right"]
        PROVE  Pair!SameAsKept(kept["left"][k], kept["right"][k])
    <3>1. PICK i \in DOMAIN left.metadata :
            /\ left.metadata[i].key = k
            /\ Pair!LastOfKey(left, i)
            /\ kept["left"][k] = Pair!Value(left.metadata[i])
      BY <1>2, <2>4
    <3>2. PICK j \in DOMAIN right.metadata :
            /\ right.metadata[j].key = k
            /\ Pair!LastOfKey(right, j)
            /\ kept["right"][k] = Pair!Value(right.metadata[j])
      BY <1>3, <2>4
    <3>3. Pair!Alike(left.metadata[i], right.metadata[j])
      BY <1>7, <3>1, <3>2 DEF Pair!SameMetadata
    <3>. QED BY <3>1, <3>2, <3>3, AlikeIsKeptTheSame
  <2>5. Pair!FoundTheSame(k)
    BY <2>2, <2>3, <2>4 DEF Pair!FoundTheSame
  <2>. QED BY <1>2, <1>3, <2>1, <2>5
<1>8. ~ metadata => MetadataDifferences = {}
  BY DEF MetadataDifferences
<1>. QED BY <1>4, <1>6, <1>7, <1>8

(* No difference is reported of two files exactly if they are the same in  *)
(* all that was asked for, as far as a reader keeps it, and what could not *)
(* be compared is never taken to be the same.                              *)
THEOREM NoDifferenceIsOverlooked == Pair!Spec => []ComparisonIsExact
<1>1. ASSUME ReadingInv, DifferencesInv, comparing = "done"
      PROVE  differences = {} <=>
               /\ Pair!SameTensors
               /\ tensorBytes => Pair!SamePayloads
               /\ metadata => Pair!SameMetadata
  <2>1. differences = {} <=>
          DescriptorDifferences = {} /\ MetadataDifferences = {} /\ ByteDifferences = {}
    BY <1>1 DEF DifferencesInv
  <2>2. left \in Pair!GgufFiles /\ right \in Pair!GgufFiles
    BY <1>1 DEF ReadingInv
  <2>3. MetadataDifferences = {} <=> (metadata => Pair!SameMetadata)
    BY <1>1, MetadataIsCompared
  <2>4. Pair!SameTensors => (ByteDifferences = {} <=> (tensorBytes => Pair!SamePayloads))
    BY <2>2, BytesAreCompared
  <2>. QED BY <2>1, <2>3, <2>4, DescriptorsAreCompared
<1>2. ReadingInv /\ DifferencesInv => ComparisonIsExact
  BY <1>1 DEF Pair!ComparisonIsExact, ComparisonIsExact
<1>3. Pair!Init => ReadingInv /\ DifferencesInv
  BY ReadingInit, DifferencesInit
<1>4. ReadingInv /\ DifferencesInv /\ [Pair!Next]_Pair!vars => (ReadingInv /\ DifferencesInv)'
  BY ReadingStep, DifferencesStep
<1>. QED BY <1>2, <1>3, <1>4, PTL DEF Pair!Spec

-----------------------------------------------------------------------------
(* What validate_gguf says of a file, for all files. *)

Numbers == INSTANCE RowPartition_proofs

(* Products of natural numbers, and where offsets are.                     *)

LEMMA ProductFacts ==
  ASSUME NEW s \in Seq(Nat)
  PROVE  /\ File!Product(s) \in Nat
         /\ File!Product(s) # 0 => \A d \in DOMAIN s : s[d] # 0
<1>. DEFINE Upto(h) == h = [i \in 0 .. Len(s) |-> IF i = 0 THEN 1 ELSE h[i - 1] * s[i]]
            h == CHOOSE h : Upto(h)
<1>1. PICK n \in Nat : n = Len(s) /\ DOMAIN s = 1 .. n
  OBVIOUS
<1>2. \A i \in 1 .. n : s[i] \in Nat
  BY <1>1
<1>3. PICK g : g \in [0 .. n -> Nat] /\ g[0] = 1 /\ \A i \in 1 .. n : g[i] = g[i - 1] * s[i]
  <2>. DEFINE step == [x \in Nat \X (1 .. n) |-> x[1] * s[x[2]]]
  <2>1. step \in [Nat \X (1 .. n) -> Nat]
    BY <1>2
  <2>2. \A x \in Nat, i \in 1 .. n : step[<<x, i>>] = x * s[i]
    OBVIOUS
  <2>. HIDE DEF step
  <2>3. PICK g : Numbers!Steps(g, n, Nat, 1, step)
    BY <2>1, Numbers!RecursionUpTo
  <2>4. g \in [0 .. n -> Nat] /\ g[0] = 1 /\ \A i \in 1 .. n : g[i] = step[<<g[i - 1], i>>]
    BY <2>3 DEF Numbers!Steps
  <2>5. \A i \in 1 .. n : g[i - 1] \in Nat
    BY <2>4
  <2>. QED BY <2>2, <2>4, <2>5, ZenonT(60)
<1>4. Upto(g)
  <2>1. g = [i \in 0 .. n |-> g[i]]
    BY <1>3
  <2>2. \A i \in 0 .. n : i = 0 \/ i \in 1 .. n
    OBVIOUS
  <2>. QED BY <1>1, <1>3, <2>1, <2>2
<1>5. Upto(h)
  BY <1>4
<1>6. File!Product(s) = h[n]
  BY <1>1 DEF File!Product
<1>. HIDE DEF h
<1>7. h[n] = g[n]
  <2>0. \A i \in 1 .. n : i \in 0 .. n /\ i # 0
    OBVIOUS
  <2>1. h[0] = g[0] /\ \A i \in 1 .. n : h[i] = h[i - 1] * s[i]
    BY <1>1, <1>3, <1>5, <2>0, SMTT(30)
  <2>. HIDE DEF Upto
  <2>2. Numbers!StepAlike(h, g, n)
    BY <1>3, <2>1 DEF Numbers!StepAlike
  <2>3. \A i \in 0 .. n : h[i] = g[i]
    BY <2>2, Numbers!SameUpTo
  <2>. QED BY <2>3
<1>8. ASSUME NEW d \in 1 .. n, s[d] = 0 PROVE g[n] = 0
  <2>. DEFINE T == {k \in 0 .. n : k >= d => g[k] = 0}
  <2>1. 0 \in T
    OBVIOUS
  <2>2. ASSUME NEW k \in 0 .. n - 1, k \in T PROVE k + 1 \in T
    <3>1. k + 1 \in 1 .. n /\ (k + 1) - 1 = k /\ g[k] \in Nat /\ s[k + 1] \in Nat
      BY <1>2, <1>3
    <3>2. g[k + 1] = g[k] * s[k + 1]
      BY <1>3, <3>1
    <3>3. CASE k + 1 = d
      <4>1. s[k + 1] = 0
        BY <1>8, <3>3
      <4>2. g[k] * 0 = 0
        BY <3>1
      <4>. QED BY <3>1, <3>2, <4>1, <4>2
    <3>4. CASE k + 1 # d
      BY <2>2, <3>1, <3>2, <3>4
    <3>. QED BY <3>3, <3>4
  <2>3. n \in T
    <3>. HIDE DEF T
    <3>. QED BY <2>1, <2>2, Numbers!InductionUpTo
  <2>. QED BY <2>3
<1>9. g[n] \in Nat
  BY <1>3
<1>. QED BY <1>1, <1>6, <1>7, <1>8, <1>9

LEMMA AlignFacts ==
  ASSUME File!ValidationConstants, NEW x \in Nat
  PROVE  File!AlignOffset(x) \in Nat /\ x <= File!AlignOffset(x)
           /\ File!AlignOffset(x) % Alignment = 0
<1>1. PICK a \in Nat \ {0} : a = Alignment
  BY DEF File!ValidationConstants
<1>2. PICK q \in Nat, r \in 0 .. a - 1 : x = a * q + r /\ r = x % a
  <2>1. x % a \in 0 .. a - 1 /\ x \div a \in Nat /\ x = a * (x \div a) + (x % a)
    BY Z3
  <2>. QED BY <2>1
<1>3. CASE r = 0
  <2>1. x % Alignment = 0
    BY <1>1, <1>2, <1>3
  <2>2. File!AlignOffset(x) = x
    BY <2>1 DEF File!AlignOffset
  <2>. QED BY <2>1, <2>2
<1>4. CASE r # 0
  <2>1. File!AlignOffset(x) = x + a - r
    BY <1>1, <1>2, <1>4 DEF File!AlignOffset
  <2>2. a * q \in Nat /\ x + a - r = a * q + a /\ a * q + a = a * (q + 1)
    BY <1>2
  <2>3. (a * (q + 1)) % a = 0
    BY Z3
  <2>. QED BY <1>1, <1>2, <2>1, <2>2, <2>3
<1>. QED BY <1>3, <1>4
-----------------------------------------------------------------------------
(* Tensors and their places. *)

FileIsThere ==
  /\ File!ValidationConstants
  /\ described \in Seq(Descriptors)
  /\ fileSize \in Nat
  /\ skipped \in 0 .. HeaderEnd
  /\ described # <<>> => skipped = 0

LEMMA ReadEndFacts ==
  ASSUME FileIsThere
  PROVE  /\ File!ReadEnd \in Nat /\ HeaderEnd \in Nat
         /\ described # <<>> => File!ReadEnd = HeaderEnd
         /\ skipped = 0 => File!ReadEnd = HeaderEnd
<1>1. PICK h \in Nat, k \in Nat : h = HeaderEnd /\ k = skipped /\ k <= h
  BY DEF FileIsThere, File!ValidationConstants
<1>2. described # <<>> => k = 0
  BY <1>1 DEF FileIsThere
<1>3. File!ReadEnd = h - k
  BY <1>1 DEF File!ReadEnd
<1>. QED BY <1>1, <1>2, <1>3

LEMMA DescriptorFacts ==
  ASSUME FileIsThere, NEW i \in DOMAIN described
  PROVE  /\ described[i].name \in Nat /\ described[i].shape \in Seq(Nat)
         /\ described[i].offset \in Nat
         /\ i \in Nat \ {0}
<1>1. described[i] \in Descriptors /\ i \in Nat \ {0}
  BY DEF FileIsThere
<1>. QED BY <1>1 DEF FileIsThere, File!ValidationConstants

LEMMA StartFacts ==
  ASSUME FileIsThere, NEW i \in DOMAIN described
  PROVE  /\ File!Start(i) \in Nat /\ HeaderEnd <= File!Start(i)
         /\ HeaderEnd \in Nat
         /\ File!Start(i) = File!AlignOffset(HeaderEnd) + described[i].offset
         /\ File!AlignOffset(HeaderEnd) \in Nat
<1>1. HeaderEnd \in Nat
  BY DEF FileIsThere, File!ValidationConstants
<1>2. PICK a \in Nat : a = File!AlignOffset(HeaderEnd) /\ HeaderEnd <= a
  BY <1>1, AlignFacts DEF FileIsThere
<1>3. PICK o \in Nat : o = described[i].offset
  BY DescriptorFacts
<1>. QED BY <1>1, <1>2, <1>3 DEF File!Start

(* The length of a tensor is unknown, or it is the bytes of its blocks.    *)
LEMMA LengthFacts ==
  ASSUME FileIsThere, NEW i \in DOMAIN described
  PROVE  /\ File!Length(i) \in Nat \union {File!Unknown}
         /\ File!Length(i) \in Nat <=> File!Length(i) # File!Unknown
         /\ File!Length(i) > 0 =>
              \A d \in DOMAIN described[i].shape : described[i].shape[d] # 0
<1>. DEFINE shape == described[i].shape
            type == described[i].type
            rest == SubSeq(shape, 2, Len(shape))
<1>1. PICK n \in Nat : shape \in Seq(Nat) /\ n = Len(shape) /\ DOMAIN shape = 1 .. n
  BY DescriptorFacts
<1>2. File!Unknown = -1 /\ File!Unknown \notin Nat
  BY DEF File!Unknown
<1>3. PICK w \in Nat : w = File!RowWidth(shape) /\ (n > 0 => w = shape[1])
  BY <1>1 DEF File!RowWidth
<1>4. rest \in Seq(Nat) /\ \A d \in 2 .. n : d - 1 \in DOMAIN rest /\ rest[d - 1] = shape[d]
  <2>1. CASE n < 2
    <3>1. \A d : d \notin 2 .. n
      BY <2>1
    <3>2. rest \in Seq(Nat)
      BY <1>1, <2>1
    <3>. QED BY <3>1, <3>2
  <2>2. CASE n >= 2
    BY <1>1, <2>2
  <2>. QED BY <2>1, <2>2
<1>5. PICK p \in Nat : p = File!Product(rest)
        /\ (p # 0 => \A d \in DOMAIN rest : rest[d] # 0)
  BY <1>4, ProductFacts
<1>6. CASE ~ (type \in DOMAIN Specs /\ w % Specs[type].block = 0)
  <2>1. File!Length(i) = File!Unknown
    BY <1>3, <1>6 DEF File!Length, File!Nbytes
  <2>. QED BY <1>2, <2>1
<1>7. CASE type \in DOMAIN Specs /\ w % Specs[type].block = 0
  <2>1. PICK b \in Nat \ {0} : b = Specs[type].block
    BY <1>7 DEF FileIsThere, File!ValidationConstants
  <2>2. PICK k \in Nat \ {0} : k = Specs[type].bytes
    BY <1>7 DEF FileIsThere, File!ValidationConstants
  <2>3. PICK q \in Nat : q = w \div b /\ (w = 0 => q = 0)
    <3>1. w \div b \in Nat /\ (w = 0 => w \div b = 0)
      BY <2>1
    <3>. QED BY <3>1
  <2>4. File!Length(i) = p * q * k
    BY <1>3, <1>5, <1>7, <2>1, <2>2, <2>3 DEF File!Length, File!Nbytes
  <2>5. p * q \in Nat /\ (p = 0 \/ q = 0 => p * q = 0)
    BY Z3
  <2>6. p * q * k \in Nat /\ (p * q = 0 => p * q * k = 0)
    <3>1. \A x \in Nat : x * k \in Nat /\ (x = 0 => x * k = 0)
      BY <2>2
    <3>. QED BY <2>5, <3>1
  <2>7. ASSUME File!Length(i) > 0, NEW d \in 1 .. n PROVE shape[d] # 0
    <3>1. p # 0 /\ q # 0
      BY <2>4, <2>5, <2>6, <2>7
    <3>2. CASE d = 1
      BY <1>3, <2>3, <3>1, <3>2
    <3>3. CASE d # 1
      <4>1. d \in 2 .. n
        BY <3>3
      <4>. QED BY <1>4, <1>5, <3>1, <4>1
    <3>. QED BY <3>2, <3>3
  <2>. QED BY <1>1, <1>2, <2>4, <2>6, <2>7
<1>. QED BY <1>6, <1>7

Known == {i \in DOMAIN described : File!Length(i) # File!Unknown}

LEMMA EndFacts ==
  ASSUME FileIsThere, NEW i \in Known
  PROVE  /\ i \in DOMAIN described /\ File!End(i) \in Nat /\ File!Start(i) <= File!End(i)
         /\ File!Length(i) \in Nat /\ File!End(i) = File!Start(i) + File!Length(i)
<1>1. i \in DOMAIN described /\ File!Length(i) # File!Unknown
  BY DEF Known
<1>2. PICK l \in Nat : l = File!Length(i)
  BY <1>1, LengthFacts
<1>3. PICK s \in Nat : s = File!Start(i)
  BY <1>1, StartFacts
<1>. QED BY <1>1, <1>2, <1>3 DEF File!End

(* The order of places is strict and total. *)
LEMMA BeforeIsOrder ==
  ASSUME FileIsThere, NEW i \in Known, NEW j \in Known
  PROVE  /\ File!Before(i, j) =>
              File!Start(i) <= File!Start(j) /\ i # j /\ ~ File!Before(j, i)
         /\ i # j => File!Before(i, j) \/ File!Before(j, i)
<1>1. /\ i \in Nat /\ File!Start(i) \in Nat /\ File!End(i) \in Nat
      /\ described[i].name \in Nat
      /\ j \in Nat /\ File!Start(j) \in Nat /\ File!End(j) \in Nat
      /\ described[j].name \in Nat
  BY EndFacts, StartFacts, DescriptorFacts
<1>. QED BY <1>1 DEF File!Before

(* Of two ranges in order the second one begins within the first exactly   *)
(* if they share a byte.                                                   *)
LEMMA MeetInOrder ==
  ASSUME FileIsThere, NEW i \in Known, NEW j \in Known, File!Before(j, i)
  PROVE  File!Meet(j, i) <=> File!Start(i) < File!End(j)
<1>1. /\ File!Start(i) \in Nat /\ File!End(i) \in Nat /\ File!Start(i) <= File!End(i)
      /\ File!Start(j) \in Nat /\ File!End(j) \in Nat /\ File!Start(j) <= File!End(j)
  BY EndFacts, StartFacts
<1>. QED BY <1>1 DEF File!Before, File!Meet

-----------------------------------------------------------------------------
(* What is reported, and the invariant. *)

Reported(code, i) == File!Issue(code, i) \in issues

Codes == {"duplicate_name", "shape_invalid", "offset_alignment", "payload_range", "overlap"}
           \union File!Warnings

HasNoElement(i) == \E d \in DOMAIN described[i].shape : described[i].shape[d] = 0

IsMisplaced(i) == described[i].offset % Alignment # 0

(* One before it reaches into it. *)
IsReached(i) == \E j \in Known : File!Before(j, i) /\ File!Start(i) < File!End(j)

IsChecked(i) == stage \in {"sweeping", "done"} \/ (stage = "checking" /\ i < turn)

IsSwept(i) ==
  \E m \in DOMAIN known : known[m] = i
    /\ (stage = "done" \/ (stage = "sweeping" /\ m < turn))

IsRefused == stage = "done" /\ fileSize < File!ReadEnd

Ranges ==
  /\ known \in Seq(Known)
  /\ turn \in Nat \ {0}
  /\ \A m, n \in DOMAIN known : known[m] = known[n] => m = n

(* The tensors whose bytes are known, and the furthest of those swept.     *)
PlaceInv ==
  /\ stage \in {"reading", "naming", "checking", "sweeping", "done"}
  /\ stage \in {"naming", "checking", "sweeping"} => File!ReadEnd <= fileSize
  /\ stage \in {"reading", "naming"} => known = <<>> /\ turn = 1
  /\ stage \in {"reading", "naming", "checking"} => previous = 0
  /\ stage = "checking" => \A i : i \in File!ToSet(known) <=> i \in Known /\ i < turn
  /\ stage = "sweeping" \/ (stage = "done" /\ File!ReadEnd <= fileSize) =>
       File!ToSet(known) = Known /\ File!InOrderOfPlaces(known)
  /\ stage = "sweeping" =>
       /\ turn = 1 => previous = 0
       /\ turn > 1 => /\ \E m \in DOMAIN known : m < turn /\ previous = known[m]
                      /\ \A m \in DOMAIN known : m < turn =>
                           File!End(known[m]) <= File!End(previous)

ReportsOf(i) ==
  /\ Reported("duplicate_name", i) <=>
       stage \notin {"reading", "naming"} /\ File!SameName(i)
  /\ Reported("shape_invalid", i) <=> IsChecked(i) /\ HasNoElement(i)
  /\ Reported("offset_alignment", i) <=> IsChecked(i) /\ IsMisplaced(i)
  /\ Reported("payload_range", i) <=> IsChecked(i) /\ i \in Known /\ File!End(i) > fileSize
  /\ Reported("overlap", i) <=> IsSwept(i) /\ IsReached(i)

ReportInv ==
  /\ ~ IsRefused =>
       /\ \A x \in issues : \E c \in Codes, i \in DOMAIN described : x = File!Issue(c, i)
       /\ \A i \in DOMAIN described : ReportsOf(i)
  /\ IsRefused => issues = {File!Issue("truncated", 0)}

ValidationInv == FileIsThere /\ Ranges /\ PlaceInv /\ ReportInv

LEMMA IssueFacts ==
  \A c, e, i, j : File!Issue(c, i) = File!Issue(e, j) <=> c = e /\ i = j
<1>. SUFFICES ASSUME NEW c, NEW e, NEW i, NEW j, File!Issue(c, i) = File!Issue(e, j)
              PROVE  c = e /\ i = j
  OBVIOUS
<1>1. File!Issue(c, i).code = c /\ File!Issue(c, i).tensor = i /\ File!Issue(e, j).code = e
        /\ File!Issue(e, j).tensor = j
  BY DEF File!Issue
<1>. QED BY <1>1

LEMMA ShapeIssuesAre ==
  ASSUME NEW i, NEW c, NEW k
  PROVE  /\ File!Issue(c, k) \in File!ShapeIssues(i) <=>
              /\ k = i
              /\ \/ c = "shape_invalid" /\ HasNoElement(i)
                 \/ c = "offset_alignment" /\ IsMisplaced(i)
         /\ \A x \in File!ShapeIssues(i) : \E e \in Codes : x = File!Issue(e, i)
<1>. DEFINE conditions == [shape_invalid    |-> HasNoElement(i),
                           offset_alignment |-> IsMisplaced(i)]
<1>1. File!ShapeIssues(i) = {File!Issue(e, i) :
        e \in {f \in DOMAIN conditions : conditions[f]}}
  BY DEF File!ShapeIssues, File!Found, HasNoElement, IsMisplaced
<1>2. DOMAIN conditions = {"shape_invalid", "offset_alignment"}
  OBVIOUS
<1>3. (conditions["shape_invalid"] <=> HasNoElement(i))
        /\ (conditions["offset_alignment"] <=> IsMisplaced(i))
  OBVIOUS
<1>. HIDE DEF conditions
<1>4. File!Issue(c, k) \in File!ShapeIssues(i) <=>
        k = i /\ c \in DOMAIN conditions /\ conditions[c]
  BY <1>1, IssueFacts
<1>5. \A x \in File!ShapeIssues(i) : \E e \in Codes : x = File!Issue(e, i)
  BY <1>1, <1>2 DEF Codes
<1>. QED BY <1>2, <1>3, <1>4, <1>5

LEMMA RangeIssuesAre ==
  ASSUME NEW i, NEW c, NEW k
  PROVE  /\ File!Issue(c, k) \in File!RangeIssues(i) =>
              k = i /\ c \in {"payload_range", "offset_order"}
         /\ File!Issue("payload_range", k) \in File!RangeIssues(i) <=>
              k = i /\ File!End(i) > fileSize
         /\ \A x \in File!RangeIssues(i) : \E e \in Codes : x = File!Issue(e, i)
<1>. DEFINE late == known # <<>> /\ File!Start(i) < File!Start(File!Last(known))
            conditions == [payload_range |-> File!End(i) > fileSize, offset_order |-> late]
<1>1. File!RangeIssues(i) = {File!Issue(e, i) :
        e \in {f \in DOMAIN conditions : conditions[f]}}
  BY DEF File!RangeIssues, File!Found
<1>2. DOMAIN conditions = {"payload_range", "offset_order"}
  OBVIOUS
<1>3. conditions["payload_range"] <=> File!End(i) > fileSize
  OBVIOUS
<1>. HIDE DEF conditions
<1>4. \A e, l : File!Issue(e, l) \in File!RangeIssues(i) <=>
        l = i /\ e \in DOMAIN conditions /\ conditions[e]
  BY <1>1, IssueFacts
<1>5. \A x \in File!RangeIssues(i) : \E e \in Codes : x = File!Issue(e, i)
  BY <1>1, <1>2 DEF Codes, File!Warnings
<1>. QED BY <1>2, <1>3, <1>4, <1>5

(* The file stays, and so does all that is said of it alone. *)
LEMMA FileStays ==
  ASSUME FileIsThere, UNCHANGED <<described, fileSize, skipped>>
  PROVE  /\ FileIsThere' /\ File!ReadEnd' = File!ReadEnd
         /\ Known' = Known
         /\ \A i : /\ File!Start(i)' = File!Start(i) /\ File!End(i)' = File!End(i)
                   /\ File!Length(i)' = File!Length(i)
                   /\ File!SameName(i)' <=> File!SameName(i)
                   /\ HasNoElement(i)' <=> HasNoElement(i)
                   /\ IsMisplaced(i)' <=> IsMisplaced(i)
                   /\ IsReached(i)' <=> IsReached(i)
         /\ \A i, j : File!Before(i, j)' <=> File!Before(i, j)
<1>1. FileIsThere' /\ File!ReadEnd' = File!ReadEnd
  BY DEF FileIsThere, File!ValidationConstants, File!ReadEnd
<1>2. \A i : File!Start(i)' = File!Start(i) /\ File!Length(i)' = File!Length(i)
  BY DEF File!Start, File!Length
<1>3. \A i : File!End(i)' = File!End(i)
  BY <1>2 DEF File!End
<1>4. Known' = Known
  BY <1>2 DEF Known
<1>5. \A i, j : File!Before(i, j)' <=> File!Before(i, j)
  BY <1>2, <1>3 DEF File!Before
<1>6. \A i : IsReached(i)' <=> IsReached(i)
  BY <1>2, <1>3, <1>4, <1>5 DEF IsReached
<1>7. \A i : /\ File!SameName(i)' <=> File!SameName(i)
             /\ HasNoElement(i)' <=> HasNoElement(i)
             /\ IsMisplaced(i)' <=> IsMisplaced(i)
  BY DEF File!SameName, HasNoElement, IsMisplaced
<1>. QED BY <1>1, <1>2, <1>3, <1>4, <1>5, <1>6, <1>7

LEMMA ValidationInit == File!ValidationConstants /\ File!Init => ValidationInv
<1>. SUFFICES ASSUME File!ValidationConstants, File!Init PROVE ValidationInv
  OBVIOUS
<1>1. stage = "reading" /\ turn = 1 /\ known = <<>> /\ previous = 0 /\ issues = {}
  BY DEF File!Init
<1>2. FileIsThere
  <2>1. PICK n \in 0 .. MostTensors : described \in [1 .. n -> Descriptors]
    BY DEF File!Init
  <2>2. n \in Nat
    OBVIOUS
  <2>3. described \in Seq(Descriptors)
    BY <2>1, <2>2
  <2>4. fileSize \in Nat
    BY DEF File!Init, File!ValidationConstants
  <2>5. skipped \in 0 .. HeaderEnd /\ (described # <<>> => skipped = 0)
    BY DEF File!Init, File!ValidationConstants
  <2>. QED BY <2>3, <2>4, <2>5 DEF FileIsThere
<1>3. known \in Seq(Known) /\ DOMAIN known = {}
  BY <1>1
<1>4. Ranges /\ PlaceInv
  BY <1>1, <1>3 DEF Ranges, PlaceInv
<1>5. \A i : ReportsOf(i)
  BY <1>1, <1>3 DEF ReportsOf, Reported, IsChecked, IsSwept
<1>6. ReportInv
  BY <1>1, <1>5 DEF ReportInv, IsRefused
<1>. QED BY <1>2, <1>4, <1>6 DEF ValidationInv

(* Nothing of a tensor changes, and nothing is said of it that was not.    *)
LEMMA ReportsStay ==
  ASSUME FileIsThere, UNCHANGED <<described, fileSize, skipped>>, NEW i, ReportsOf(i),
         \A c \in Codes : Reported(c, i)' <=> Reported(c, i),
         IsChecked(i)' <=> IsChecked(i),
         IsSwept(i)' <=> IsSwept(i),
         stage' \in {"reading", "naming"} <=> stage \in {"reading", "naming"}
  PROVE  ReportsOf(i)'
<1>1. /\ Known' = Known /\ File!End(i)' = File!End(i) /\ fileSize' = fileSize
      /\ File!SameName(i)' <=> File!SameName(i)
      /\ HasNoElement(i)' <=> HasNoElement(i)
      /\ IsMisplaced(i)' <=> IsMisplaced(i)
      /\ IsReached(i)' <=> IsReached(i)
  BY FileStays
<1>2. {"duplicate_name", "shape_invalid", "offset_alignment", "payload_range", "overlap"} \subseteq Codes
  BY DEF Codes
<1>. QED BY <1>1, <1>2 DEF ReportsOf

LEMMA RefuseHeaderStep == ASSUME ValidationInv, File!RefuseHeader PROVE ValidationInv'
<1>1. /\ stage = "reading" /\ stage' = "done" /\ fileSize < File!ReadEnd
      /\ issues' = {File!Issue("truncated", 0)}
      /\ UNCHANGED <<described, fileSize, skipped, turn, known, previous>>
  BY DEF File!RefuseHeader
<1>2. FileIsThere' /\ File!ReadEnd' = File!ReadEnd /\ Known' = Known
  BY <1>1, FileStays DEF ValidationInv
<1>3. Ranges'
  BY <1>1, <1>2 DEF ValidationInv, Ranges
<1>4. ~ (File!ReadEnd <= fileSize)
  BY <1>1, ReadEndFacts DEF ValidationInv, FileIsThere
<1>5. PlaceInv'
  BY <1>1, <1>2, <1>4 DEF PlaceInv
<1>6. IsRefused'
  BY <1>1, <1>2 DEF IsRefused
<1>7. ReportInv'
  BY <1>1, <1>6 DEF ReportInv, File!Issue
<1>. QED BY <1>2, <1>3, <1>5, <1>7 DEF ValidationInv

(* A step that leaves what is reported to the lemma about its tensor.      *)
LEMMA ReportsHold ==
  ASSUME ValidationInv, UNCHANGED <<described, fileSize, skipped>>, ~ IsRefused, ~ IsRefused',
         \A x \in issues' : x \in issues
           \/ \E c \in Codes, i \in DOMAIN described : x = File!Issue(c, i),
         \A i \in DOMAIN described : ReportsOf(i)'
  PROVE  ReportInv'
<1>1. \A x \in issues : \E c \in Codes, i \in DOMAIN described : x = File!Issue(c, i)
  BY DEF ValidationInv, ReportInv
<1>2. \A x \in issues' : \E c \in Codes, i \in DOMAIN described : x = File!Issue(c, i)
  BY <1>1
<1>3. \A x \in issues' : \E c \in Codes, i \in DOMAIN described : x = File!Issue(c, i)'
  BY <1>2 DEF File!Issue
<1>4. described' = described
  OBVIOUS
<1>. QED BY <1>3, <1>4 DEF ReportInv

LEMMA ReadHeaderStep == ASSUME ValidationInv, File!ReadHeader PROVE ValidationInv'
<1>1. /\ stage = "reading" /\ stage' = "naming" /\ fileSize >= File!ReadEnd
      /\ UNCHANGED <<described, fileSize, skipped, turn, known, previous, issues>>
  BY DEF File!ReadHeader
<1>2. FileIsThere' /\ File!ReadEnd' = File!ReadEnd /\ Known' = Known
  BY <1>1, FileStays DEF ValidationInv
<1>3. Ranges'
  BY <1>1, <1>2 DEF ValidationInv, Ranges
<1>4. File!ReadEnd <= fileSize
  BY <1>1, ReadEndFacts DEF ValidationInv, FileIsThere
<1>5. PlaceInv'
  BY <1>1, <1>2, <1>4 DEF ValidationInv, PlaceInv
<1>6. ~ IsRefused /\ ~ IsRefused'
  BY <1>1 DEF IsRefused
<1>7. ASSUME NEW i \in DOMAIN described PROVE ReportsOf(i)'
  <2>1. ReportsOf(i)
    BY <1>6 DEF ValidationInv, ReportInv
  <2>2. \A c \in Codes : Reported(c, i)' <=> Reported(c, i)
    BY <1>1 DEF Reported, File!Issue
  <2>3. (IsChecked(i)' <=> IsChecked(i)) /\ (IsSwept(i)' <=> IsSwept(i))
    BY <1>1 DEF IsChecked, IsSwept
  <2>. QED BY <1>1, <2>1, <2>2, <2>3, ReportsStay DEF ValidationInv
<1>8. ReportInv'
  BY <1>1, <1>6, <1>7, ReportsHold
<1>. QED BY <1>2, <1>3, <1>5, <1>8 DEF ValidationInv

LEMMA CheckNamesStep == ASSUME ValidationInv, File!CheckNames PROVE ValidationInv'
<1>. DEFINE named == {File!Issue("duplicate_name", i) :
                       i \in {j \in DOMAIN described : File!SameName(j)}}
<1>1. /\ stage = "naming" /\ stage' = "checking" /\ issues' = issues \union named
      /\ UNCHANGED <<described, fileSize, skipped, turn, known, previous>>
  BY DEF File!CheckNames
<1>2. FileIsThere' /\ File!ReadEnd' = File!ReadEnd /\ Known' = Known
  BY <1>1, FileStays DEF ValidationInv
<1>3. Ranges' /\ turn = 1 /\ known = <<>> /\ DOMAIN described = 1 .. Len(described)
  BY <1>1, <1>2 DEF ValidationInv, Ranges, PlaceInv, FileIsThere
<1>4. \A i : i \in File!ToSet(known) <=> i \in Known /\ i < turn
  <2>1. File!ToSet(known) = {}
    BY <1>3 DEF File!ToSet
  <2>2. \A i \in Known : i \in Nat \ {0}
    BY DEF Known, ValidationInv, FileIsThere
  <2>3. \A i \in Known : ~ (i < 1)
    BY <2>2
  <2>. QED BY <1>3, <2>1, <2>3
<1>5. (\A i : i \in File!ToSet(known) <=> i \in Known /\ i < turn)'
  BY <1>1, <1>2, <1>4
<1>6. PlaceInv'
  BY <1>1, <1>2, <1>5 DEF ValidationInv, PlaceInv
<1>7. ~ IsRefused /\ ~ IsRefused'
  BY <1>1 DEF IsRefused
<1>8. ASSUME NEW i \in DOMAIN described PROVE ReportsOf(i)'
  <2>1. ReportsOf(i)
    BY <1>7 DEF ValidationInv, ReportInv
  <2>2. \A c \in Codes : File!Issue(c, i) \in named <=>
          c = "duplicate_name" /\ File!SameName(i)
    BY IssueFacts
  <2>3. \A c \in Codes : Reported(c, i)' <=>
          Reported(c, i) \/ (c = "duplicate_name" /\ File!SameName(i))
    <3>1. \A c \in Codes : File!Issue(c, i)' = File!Issue(c, i)
      BY DEF File!Issue
    <3>. HIDE DEF named
    <3>. QED BY <1>1, <2>2, <3>1 DEF Reported
  <2>4. File!SameName(i)' <=> File!SameName(i)
    BY <1>1, FileStays DEF ValidationInv
  <2>5. ~ IsChecked(i)' /\ ~ IsChecked(i) /\ ~ IsSwept(i)' /\ ~ IsSwept(i)
    <3>1. ~ (i < 1)
      BY <1>3
    <3>. QED BY <1>1, <1>3, <3>1 DEF IsChecked, IsSwept
  <2>6. {"duplicate_name", "shape_invalid", "offset_alignment", "payload_range", "overlap"} \subseteq Codes
    BY DEF Codes
  <2>. QED BY <1>1, <2>1, <2>3, <2>4, <2>5, <2>6 DEF ReportsOf
<1>9. \A x \in issues' : x \in issues
        \/ \E c \in Codes, i \in DOMAIN described : x = File!Issue(c, i)
  BY <1>1 DEF Codes
<1>10. ReportInv'
  BY <1>1, <1>7, <1>8, <1>9, ReportsHold
<1>. QED BY <1>2, <1>3, <1>6, <1>10 DEF ValidationInv

(* The checks of one tensor report what is to be said of it, and only that. *)
LEMMA CheckReports ==
  ASSUME ValidationInv, File!HasTensor, UNCHANGED <<described, fileSize, skipped, stage>>,
         stage' = "checking", turn' = turn + 1,
         NEW R, issues' = issues \union File!ShapeIssues(turn) \union R,
         \A x \in R : \E c \in Codes : x = File!Issue(c, turn),
         \A c, i : File!Issue(c, i) \in R =>
           c \notin {"duplicate_name", "shape_invalid", "offset_alignment", "overlap"},
         File!Issue("payload_range", turn) \in R <=>
           turn \in Known /\ File!End(turn) > fileSize
  PROVE  ReportInv'
<1>1. turn \in DOMAIN described /\ stage = "checking" /\ turn \in Nat
  BY DEF ValidationInv, FileIsThere, Ranges, File!HasTensor
<1>2. ~ IsRefused /\ ~ IsRefused'
  BY <1>1 DEF IsRefused
<1>3. ASSUME NEW i \in DOMAIN described PROVE ReportsOf(i)'
  <2>1. ReportsOf(i)
    BY <1>2 DEF ValidationInv, ReportInv
  <2>2. /\ Known' = Known /\ File!End(i)' = File!End(i)
        /\ File!SameName(i)' <=> File!SameName(i)
        /\ HasNoElement(i)' <=> HasNoElement(i)
        /\ IsMisplaced(i)' <=> IsMisplaced(i)
        /\ IsReached(i)' <=> IsReached(i)
    BY FileStays DEF ValidationInv
  <2>3. \A c \in Codes : Reported(c, i)' <=>
          Reported(c, i) \/ File!Issue(c, i) \in File!ShapeIssues(turn)
                                             \/ File!Issue(c, i) \in R
    <3>1. \A c \in Codes : File!Issue(c, i)' = File!Issue(c, i)
      BY DEF File!Issue
    <3>. QED BY <3>1 DEF Reported
  <2>4. \A c \in Codes : File!Issue(c, i) \in File!ShapeIssues(turn) <=>
          /\ i = turn
          /\ \/ c = "shape_invalid" /\ HasNoElement(i)
             \/ c = "offset_alignment" /\ IsMisplaced(i)
    BY ShapeIssuesAre
  <2>5. File!Issue("payload_range", i) \in R <=>
          i = turn /\ i \in Known /\ File!End(i) > fileSize
    BY IssueFacts
  <2>6. {"duplicate_name", "shape_invalid", "offset_alignment", "payload_range", "overlap"} \subseteq Codes
    BY DEF Codes
  <2>7. IsChecked(i)' <=> IsChecked(i) \/ i = turn
    <3>1. i \in Nat
      BY DEF ValidationInv, FileIsThere
    <3>2. i < turn + 1 <=> i < turn \/ i = turn
      BY <1>1, <3>1
    <3>. QED BY <1>1, <3>2 DEF IsChecked
  <2>8. ~ IsSwept(i)' /\ ~ IsSwept(i)
    BY <1>1 DEF IsSwept
  <2>9. ~ (IsChecked(i) /\ i = turn)
    BY <1>1 DEF IsChecked
  <2>10. Reported("duplicate_name", i)' <=> Reported("duplicate_name", i)
    BY <2>3, <2>4, <2>6
  <2>11. Reported("shape_invalid", i)' <=>
           Reported("shape_invalid", i) \/ (i = turn /\ HasNoElement(i))
    BY <2>3, <2>4, <2>6
  <2>12. Reported("offset_alignment", i)' <=>
           Reported("offset_alignment", i) \/ (i = turn /\ IsMisplaced(i))
    BY <2>3, <2>4, <2>6
  <2>13. Reported("payload_range", i)' <=>
           Reported("payload_range", i)
             \/ (i = turn /\ i \in Known /\ File!End(i) > fileSize)
    BY <2>3, <2>4, <2>5, <2>6
  <2>14. Reported("overlap", i)' <=> Reported("overlap", i)
    BY <2>3, <2>4, <2>6
  <2>. QED BY <1>1, <2>1, <2>2, <2>7, <2>8, <2>10, <2>11, <2>12, <2>13, <2>14 DEF ReportsOf
<1>4. \A x \in issues' : x \in issues
        \/ \E c \in Codes, i \in DOMAIN described : x = File!Issue(c, i)
  BY <1>1, ShapeIssuesAre
<1>. QED BY <1>2, <1>3, <1>4, ReportsHold

LEMMA CheckUnknownStep == ASSUME ValidationInv, File!CheckUnknown PROVE ValidationInv'
<1>. DEFINE R == {File!Issue(IF described[turn].type \in DOMAIN Specs
                               THEN "row_width" ELSE "type_unknown", turn)}
<1>1. /\ File!HasTensor /\ stage = "checking" /\ turn \in Nat \ {0}
      /\ File!Length(turn) = File!Unknown
      /\ issues' = issues \union File!ShapeIssues(turn) \union R
      /\ turn' = turn + 1
      /\ UNCHANGED <<described, fileSize, skipped, stage, known, previous>>
  BY DEF File!CheckUnknown, File!HasTensor, ValidationInv, Ranges
<1>2. FileIsThere' /\ File!ReadEnd' = File!ReadEnd /\ Known' = Known
  BY <1>1, FileStays DEF ValidationInv
<1>3. Ranges'
  BY <1>1, <1>2 DEF ValidationInv, Ranges
<1>4. turn \notin Known
  BY <1>1 DEF Known
<1>5. \A i : i \in File!ToSet(known) <=> i \in Known /\ i < turn + 1
  <2>1. \A i \in Known : i \in Nat
    BY DEF Known, ValidationInv, FileIsThere
  <2>2. \A i \in Known : i < turn + 1 <=> i < turn
    BY <1>1, <1>4, <2>1
  <2>3. \A i : i \in File!ToSet(known) <=> i \in Known /\ i < turn
    BY <1>1 DEF ValidationInv, PlaceInv
  <2>. QED BY <2>2, <2>3
<1>6. (\A i : i \in File!ToSet(known) <=> i \in Known /\ i < turn)'
  BY <1>1, <1>2, <1>5
<1>7. PlaceInv'
  BY <1>1, <1>2, <1>6 DEF ValidationInv, PlaceInv
<1>8. PICK code : /\ code \in {"row_width", "type_unknown"} /\ code \in Codes
                  /\ R = {File!Issue(code, turn)}
  BY DEF Codes, File!Warnings
<1>. HIDE DEF R
<1>9. \A c, i : File!Issue(c, i) \in R => c \in {"row_width", "type_unknown"}
  BY <1>8, IssueFacts
<1>10. \A c, i : File!Issue(c, i) \in R =>
         c \notin {"duplicate_name", "shape_invalid", "offset_alignment", "overlap"}
  BY <1>9
<1>11. File!Issue("payload_range", turn) \in R <=>
         turn \in Known /\ File!End(turn) > fileSize
  BY <1>4, <1>9
<1>12. ReportInv'
  BY <1>1, <1>8, <1>10, <1>11, CheckReports
<1>. QED BY <1>2, <1>3, <1>7, <1>12 DEF ValidationInv

LEMMA CheckKnownStep == ASSUME ValidationInv, File!CheckKnown PROVE ValidationInv'
<1>1. /\ File!HasTensor /\ stage = "checking" /\ turn \in Nat \ {0}
      /\ File!Length(turn) # File!Unknown
      /\ issues' = issues \union File!ShapeIssues(turn) \union File!RangeIssues(turn)
      /\ known' = Append(known, turn)
      /\ turn' = turn + 1
      /\ UNCHANGED <<described, fileSize, skipped, stage, previous>>
  BY DEF File!CheckKnown, File!HasTensor, ValidationInv, Ranges
<1>2. FileIsThere' /\ File!ReadEnd' = File!ReadEnd /\ Known' = Known
  BY <1>1, FileStays DEF ValidationInv
<1>3. turn \in Known
  <2>1. turn \in DOMAIN described
    BY <1>1 DEF ValidationInv, FileIsThere, File!HasTensor
  <2>. QED BY <1>1, <2>1 DEF Known
<1>4. PICK n \in Nat : n = Len(known) /\ known \in Seq(Known) /\ DOMAIN known = 1 .. n
  BY DEF ValidationInv, Ranges
<1>5. /\ known' \in Seq(Known) /\ DOMAIN known' = 1 .. n + 1
      /\ known'[n + 1] = turn /\ \A m \in 1 .. n : known'[m] = known[m]
  BY <1>1, <1>3, <1>4
<1>6. \A i : i \in File!ToSet(known) <=> i \in Known /\ i < turn
  BY <1>1 DEF ValidationInv, PlaceInv
<1>7. \A m \in 1 .. n : known[m] # turn
  <2>1. \A m \in 1 .. n : known[m] \in File!ToSet(known)
    BY <1>4 DEF File!ToSet
  <2>. QED BY <1>1, <1>6, <2>1
<1>8. \A l, m \in 1 .. n + 1 : known'[l] = known'[m] => l = m
  <2>1. \A l, m \in 1 .. n : known[l] = known[m] => l = m
    BY <1>4 DEF ValidationInv, Ranges
  <2>2. \A m \in 1 .. n + 1 : m \in 1 .. n \/ m = n + 1
    OBVIOUS
  <2>. QED BY <1>5, <1>7, <2>1, <2>2
<1>9. Ranges'
  BY <1>1, <1>2, <1>5, <1>8 DEF Ranges
<1>10. \A i : i \in File!ToSet(known') <=> i \in Known /\ i < turn + 1
  <2>1. \A i : i \in File!ToSet(known') <=> i \in File!ToSet(known) \/ i = turn
    <3>1. \A m \in 1 .. n + 1 : m \in 1 .. n \/ m = n + 1
      OBVIOUS
    <3>2. n + 1 \in 1 .. n + 1 /\ \A m \in 1 .. n : m \in 1 .. n + 1
      OBVIOUS
    <3>. QED BY <1>4, <1>5, <3>1, <3>2 DEF File!ToSet
  <2>2. \A i \in Known : i \in Nat
    BY DEF Known, ValidationInv, FileIsThere
  <2>3. \A i \in Known : i < turn + 1 <=> i < turn \/ i = turn
    BY <1>1, <2>2
  <2>. QED BY <1>3, <1>6, <2>1, <2>3
<1>11. (\A i : i \in File!ToSet(known) <=> i \in Known /\ i < turn)'
  BY <1>1, <1>2, <1>10
<1>12. PlaceInv'
  BY <1>1, <1>2, <1>11 DEF ValidationInv, PlaceInv
<1>13. /\ \A x \in File!RangeIssues(turn) : \E c \in Codes : x = File!Issue(c, turn)
       /\ \A c, i : File!Issue(c, i) \in File!RangeIssues(turn) =>
            c \in {"payload_range", "offset_order"}
       /\ File!Issue("payload_range", turn) \in File!RangeIssues(turn) <=>
            File!End(turn) > fileSize
  BY RangeIssuesAre
<1>14. \A c, i : File!Issue(c, i) \in File!RangeIssues(turn) =>
         c \notin {"duplicate_name", "shape_invalid", "offset_alignment", "overlap"}
  BY <1>13
<1>15. ReportInv'
  BY <1>1, <1>3, <1>13, <1>14, CheckReports
<1>. QED BY <1>2, <1>9, <1>12, <1>15 DEF ValidationInv

(* What is sorted holds the same tensors, and each of them once. *)
LEMMA SortedIsSame ==
  ASSUME FileIsThere, Ranges,
         NEW order \in [DOMAIN known -> File!ToSet(known)], File!InOrderOfPlaces(order)
  PROVE  /\ order \in Seq(Known) /\ File!ToSet(order) = File!ToSet(known)
         /\ DOMAIN order = DOMAIN known
         /\ \A l, m \in DOMAIN order : order[l] = order[m] => l = m
<1>1. PICK n \in Nat : n = Len(known) /\ DOMAIN known = 1 .. n
  BY DEF Ranges
<1>2. File!ToSet(known) \subseteq Known
  BY DEF File!ToSet, Ranges
<1>3. order \in Seq(Known) /\ DOMAIN order = 1 .. n /\ \A m \in 1 .. n : order[m] \in Known
  <2>1. DOMAIN order = 1 .. n /\ \A m \in 1 .. n : order[m] \in Known
    BY <1>1, <1>2
  <2>2. order \in [1 .. n -> Known]
    BY <1>1, <1>2
  <2>. QED BY <1>1, <2>1, <2>2
<1>4. \A l, m \in 1 .. n : order[l] = order[m] => l = m
  <2>1. \A l, m \in 1 .. n : l < m => order[l] # order[m]
    BY <1>3, BeforeIsOrder DEF File!InOrderOfPlaces
  <2>2. \A l, m \in 1 .. n : l < m \/ m < l \/ l = m
    OBVIOUS
  <2>. QED BY <2>1, <2>2
<1>5. IsFiniteSet(1 .. n) /\ Cardinality(1 .. n) = n
  BY FS_Interval
<1>6. known \in Bijection(1 .. n, File!ToSet(known))
  <2>1. known \in [1 .. n -> File!ToSet(known)]
    BY <1>1 DEF Ranges, File!ToSet
  <2>. QED BY <1>1, <2>1 DEF Ranges, File!ToSet, Bijection, Injection, Surjection, IsInjective
<1>7. IsFiniteSet(File!ToSet(known)) /\ Cardinality(File!ToSet(known)) = n
  BY <1>5, <1>6, FS_Bijection DEF ExistsBijection
<1>8. order \in Injection(1 .. n, File!ToSet(known))
  BY <1>1, <1>4 DEF Injection, IsInjective
<1>9. order \in Surjection(1 .. n, File!ToSet(known))
  BY <1>5, <1>7, <1>8, FS_Injection
<1>10. File!ToSet(order) = File!ToSet(known)
  BY <1>3, <1>9 DEF Surjection, File!ToSet
<1>. QED BY <1>1, <1>3, <1>4, <1>10

LEMMA SortRangesStep == ASSUME ValidationInv, File!SortRanges PROVE ValidationInv'
<1>1. /\ stage = "checking" /\ stage' = "sweeping" /\ turn > Len(described) /\ turn' = 1
      /\ UNCHANGED <<described, fileSize, skipped, previous, issues>>
      /\ known' \in [DOMAIN known -> File!ToSet(known)] /\ File!InOrderOfPlaces(known')
  BY DEF File!SortRanges
<1>2. FileIsThere' /\ File!ReadEnd' = File!ReadEnd /\ Known' = Known /\ \A i, j : File!Before(i, j)' <=> File!Before(i, j)
  BY <1>1, FileStays DEF ValidationInv
<1>3. PICK order : order = known'
  OBVIOUS
<1>4. /\ order \in Seq(Known) /\ File!ToSet(order) = File!ToSet(known)
      /\ \A l, m \in DOMAIN order : order[l] = order[m] => l = m
  BY <1>1, <1>3, SortedIsSame DEF ValidationInv
<1>5. Ranges'
  BY <1>1, <1>2, <1>3, <1>4 DEF Ranges
<1>6. \A i \in DOMAIN described : i < turn
  BY <1>1 DEF ValidationInv, FileIsThere, Ranges
<1>7. File!ToSet(known) = Known
  <2>1. \A i : i \in File!ToSet(known) <=> i \in Known /\ i < turn
    BY <1>1 DEF ValidationInv, PlaceInv
  <2>. QED BY <1>6, <2>1 DEF Known
<1>8. File!ToSet(known)' = Known' /\ File!InOrderOfPlaces(known)'
  <2>1. File!ToSet(known)' = File!ToSet(order)
    BY <1>3 DEF File!ToSet
  <2>2. File!InOrderOfPlaces(known)'
    BY <1>1, <1>2 DEF File!InOrderOfPlaces
  <2>. QED BY <1>2, <1>4, <1>7, <2>1, <2>2
<1>9. PlaceInv'
  BY <1>1, <1>2, <1>8 DEF ValidationInv, PlaceInv
<1>10. ~ IsRefused /\ ~ IsRefused'
  BY <1>1 DEF IsRefused
<1>11. ASSUME NEW i \in DOMAIN described PROVE ReportsOf(i)'
  <2>1. ReportsOf(i)
    BY <1>10 DEF ValidationInv, ReportInv
  <2>2. \A c \in Codes : Reported(c, i)' <=> Reported(c, i)
    BY <1>1 DEF Reported, File!Issue
  <2>3. IsChecked(i)' /\ IsChecked(i)
    BY <1>1, <1>6 DEF IsChecked
  <2>4. ~ IsSwept(i)' /\ ~ IsSwept(i)
    <3>1. \A m \in DOMAIN order : ~ (m < 1)
      BY <1>4
    <3>. QED BY <1>1, <1>3, <3>1 DEF IsSwept
  <2>. QED BY <1>1, <2>1, <2>2, <2>3, <2>4, ReportsStay DEF ValidationInv
<1>12. ReportInv'
  BY <1>1, <1>10, <1>11, ReportsHold
<1>. QED BY <1>2, <1>5, <1>9, <1>12 DEF ValidationInv

(* The furthest of those swept reaches into a range exactly if one of them *)
(* does, and those before it are those swept.                              *)
LEMMA FurthestReaches ==
  ASSUME ValidationInv, File!HasRange
  PROVE  /\ turn \in DOMAIN known /\ known[turn] \in Known
         /\ previous # 0 /\ File!Start(known[turn]) < File!End(previous) <=>
              IsReached(known[turn])
<1>1. PICK n \in Nat : n = Len(known) /\ known \in Seq(Known) /\ DOMAIN known = 1 .. n
  BY DEF ValidationInv, Ranges
<1>2. /\ stage = "sweeping" /\ turn \in 1 .. n /\ File!ToSet(known) = Known
      /\ File!InOrderOfPlaces(known)
      /\ FileIsThere
  BY <1>1 DEF ValidationInv, Ranges, PlaceInv, File!HasRange
<1>3. PICK i \in Known : i = known[turn]
  BY <1>1, <1>2
<1>4. \A m \in 1 .. n : known[m] \in Known /\ (m < turn => File!Before(known[m], i))
                         /\ (File!Before(known[m], i) => m < turn)
  <2>1. \A m \in 1 .. n : m < turn => File!Before(known[m], i)
    BY <1>1, <1>2, <1>3 DEF File!InOrderOfPlaces
  <2>2. \A m \in 1 .. n : turn < m => File!Before(i, known[m])
    BY <1>1, <1>2, <1>3 DEF File!InOrderOfPlaces
  <2>3. \A m \in 1 .. n : known[m] \in Known
    BY <1>1
  <2>4. ASSUME NEW m \in 1 .. n, File!Before(known[m], i) PROVE m < turn
    <3>1. CASE m = turn
      BY <1>2, <1>3, <2>3, <2>4, <3>1, BeforeIsOrder
    <3>2. CASE turn < m
      BY <1>2, <2>2, <2>3, <2>4, <3>2, BeforeIsOrder
    <3>. QED BY <1>2, <3>1, <3>2
  <2>. QED BY <2>1, <2>3, <2>4
<1>5. CASE turn = 1
  <2>1. previous = 0
    BY <1>2, <1>5 DEF ValidationInv, PlaceInv
  <2>2. ~ IsReached(i)
    <3>1. ASSUME NEW j \in Known, File!Before(j, i) PROVE FALSE
      <4>1. PICK m \in 1 .. n : known[m] = j
        BY <1>1, <1>2 DEF File!ToSet
      <4>. QED BY <1>4, <1>5, <3>1, <4>1
    <3>. QED BY <3>1 DEF IsReached
  <2>. QED BY <1>1, <1>2, <1>3, <2>1, <2>2
<1>6. CASE turn > 1
  <2>1. PICK l \in 1 .. n : l < turn /\ previous = known[l]
    BY <1>1, <1>2, <1>6 DEF ValidationInv, PlaceInv
  <2>2. \A m \in 1 .. n : m < turn => File!End(known[m]) <= File!End(previous)
    BY <1>1, <1>2, <1>6 DEF ValidationInv, PlaceInv
  <2>3. previous \in Known /\ previous # 0
    <3>1. \A j \in Known : j # 0
      BY <1>2 DEF Known, FileIsThere
    <3>. QED BY <1>4, <2>1, <3>1
  <2>4. ASSUME File!Start(i) < File!End(previous) PROVE IsReached(i)
    BY <1>4, <2>1, <2>3, <2>4 DEF IsReached
  <2>5. ASSUME IsReached(i) PROVE File!Start(i) < File!End(previous)
    <3>1. PICK j \in Known : File!Before(j, i) /\ File!Start(i) < File!End(j)
      BY <2>5 DEF IsReached
    <3>2. PICK m \in 1 .. n : known[m] = j
      BY <1>1, <1>2 DEF File!ToSet
    <3>3. File!End(j) <= File!End(previous)
      BY <1>4, <2>2, <3>1, <3>2
    <3>4. File!Start(i) \in Nat /\ File!End(j) \in Nat /\ File!End(previous) \in Nat
      BY <1>2, <2>3, EndFacts, StartFacts
    <3>. QED BY <3>1, <3>3, <3>4
  <2>. QED BY <1>1, <1>2, <1>3, <2>3, <2>4, <2>5
<1>. QED BY <1>2, <1>5, <1>6

LEMMA SweepRangeStep == ASSUME ValidationInv, File!SweepRange PROVE ValidationInv'
<1>. DEFINE i == known[turn]
            R == File!Found([overlap |-> previous # 0
                   /\ File!Start(i) < File!End(previous)], i)
<1>1. /\ File!HasRange /\ stage = "sweeping" /\ turn \in Nat \ {0}
      /\ issues' = issues \union R /\ previous' = File!Furthest(i)
      /\ turn' = turn + 1
      /\ UNCHANGED <<described, fileSize, skipped, stage, known>>
  BY DEF File!SweepRange, File!HasRange, ValidationInv, Ranges
<1>2. /\ FileIsThere' /\ FileIsThere /\ Known' = Known /\ File!ReadEnd' = File!ReadEnd
      /\ \A j, k : File!Before(j, k)' <=> File!Before(j, k)
      /\ \A j : File!End(j)' = File!End(j)
  BY <1>1, FileStays DEF ValidationInv
<1>3. Ranges'
  BY <1>1, <1>2 DEF ValidationInv, Ranges
<1>4. PICK n \in Nat : n = Len(known) /\ known \in Seq(Known) /\ DOMAIN known = 1 .. n
  BY DEF ValidationInv, Ranges
<1>5. /\ turn \in 1 .. n /\ i \in Known
      /\ previous # 0 /\ File!Start(i) < File!End(previous) <=> IsReached(i)
  BY <1>1, <1>4, FurthestReaches
<1>6. \A c, k : File!Issue(c, k) \in R <=> c = "overlap" /\ k = i /\ IsReached(i)
  <2>. DEFINE conditions == [overlap |-> previous # 0 /\ File!Start(i) < File!End(previous)]
  <2>1. R = {File!Issue(e, i) : e \in {f \in DOMAIN conditions : conditions[f]}}
    BY DEF File!Found
  <2>2. DOMAIN conditions = {"overlap"} /\ (conditions["overlap"] <=> IsReached(i))
    BY <1>5
  <2>. HIDE DEF R, conditions
  <2>. QED BY <2>1, <2>2, IssueFacts
<1>7. \A x \in R : \E c \in Codes : x = File!Issue(c, i)
  BY DEF File!Found, Codes
<1>. HIDE DEF R, i
<1>8. File!ToSet(known) = Known /\ File!InOrderOfPlaces(known)
  BY <1>1 DEF ValidationInv, PlaceInv
<1>9. File!ToSet(known)' = Known' /\ File!InOrderOfPlaces(known)'
  <2>1. File!ToSet(known)' = File!ToSet(known)
    BY <1>1 DEF File!ToSet
  <2>. QED BY <1>1, <1>2, <1>8, <2>1 DEF File!InOrderOfPlaces
<1>10. /\ \E m \in DOMAIN known : m < turn + 1 /\ File!Furthest(i) = known[m]
       /\ \A m \in DOMAIN known : m < turn + 1 =>
            File!End(known[m]) <= File!End(File!Furthest(i))
  <2>1. \A m \in 1 .. n : m < turn + 1 <=> m < turn \/ m = turn
    BY <1>1
  <2>2. \A m \in 1 .. n : known[m] \in Known /\ File!End(known[m]) \in Nat
    BY <1>2, <1>4, EndFacts
  <2>3. i = known[turn]
    BY DEF i
  <2>4. CASE turn = 1
    <3>1. previous = 0
      BY <1>1, <2>4 DEF ValidationInv, PlaceInv
    <3>2. File!Furthest(i) = i
      BY <3>1 DEF File!Furthest
    <3>3. \A m \in 1 .. n : ~ (m < 1)
      OBVIOUS
    <3>. QED BY <1>4, <1>5, <2>1, <2>2, <2>3, <2>4, <3>2, <3>3
  <2>5. CASE turn > 1
    <3>1. PICK l \in 1 .. n : l < turn /\ previous = known[l]
      BY <1>1, <1>4, <2>5 DEF ValidationInv, PlaceInv
    <3>2. \A m \in 1 .. n : m < turn => File!End(known[m]) <= File!End(previous)
      BY <1>1, <1>4, <2>5 DEF ValidationInv, PlaceInv
    <3>3. previous # 0
      <4>1. \A j \in Known : j # 0
        BY <1>2 DEF Known, FileIsThere
      <4>. QED BY <2>2, <3>1, <4>1
    <3>4. PICK p \in Nat, e \in Nat : p = File!End(previous) /\ e = File!End(i)
      BY <1>5, <2>2, <2>3, <3>1
    <3>5. CASE e > p
      <4>1. File!Furthest(i) = i
        BY <3>4, <3>5 DEF File!Furthest
      <4>2. \A m \in 1 .. n : m < turn => File!End(known[m]) <= e
        BY <2>2, <3>2, <3>4, <3>5
      <4>. QED BY <1>4, <1>5, <2>1, <2>2, <2>3, <3>4, <4>1, <4>2
    <3>6. CASE ~ (e > p)
      <4>1. File!Furthest(i) = previous
        BY <3>3, <3>4, <3>6 DEF File!Furthest
      <4>2. e <= p
        BY <3>4, <3>6
      <4>. QED BY <1>4, <1>5, <2>1, <2>2, <2>3, <3>1, <3>2, <3>4, <4>1, <4>2
    <3>. QED BY <3>5, <3>6
  <2>. QED BY <1>1, <2>4, <2>5
<1>11. turn' > 1 /\ turn' # 1
  BY <1>1
<1>12. (/\ turn = 1 => previous = 0
        /\ turn > 1 => /\ \E m \in DOMAIN known : m < turn /\ previous = known[m]
                       /\ \A m \in DOMAIN known : m < turn =>
                            File!End(known[m]) <= File!End(previous))'
  <2>1. \A m \in DOMAIN known : File!End(known[m])' = File!End(known[m])
    BY <1>1 DEF File!End, File!Start, File!Length
  <2>2. File!End(previous)' = File!End(File!Furthest(i))
    BY <1>1 DEF File!End, File!Start, File!Length
  <2>. QED BY <1>1, <1>10, <1>11, <2>1, <2>2
<1>13. PlaceInv'
  BY <1>1, <1>2, <1>9, <1>12 DEF ValidationInv, PlaceInv
<1>14. ~ IsRefused /\ ~ IsRefused'
  BY <1>1 DEF IsRefused
<1>15. ASSUME NEW k \in DOMAIN described PROVE ReportsOf(k)'
  <2>1. ReportsOf(k)
    BY <1>14 DEF ValidationInv, ReportInv
  <2>2. /\ File!End(k)' = File!End(k)
        /\ File!SameName(k)' <=> File!SameName(k)
        /\ HasNoElement(k)' <=> HasNoElement(k)
        /\ IsMisplaced(k)' <=> IsMisplaced(k)
        /\ IsReached(k)' <=> IsReached(k)
    BY <1>1, FileStays DEF ValidationInv
  <2>3. \A c : Reported(c, k)' <=> Reported(c, k) \/ File!Issue(c, k) \in R
    <3>1. \A c : File!Issue(c, k)' = File!Issue(c, k)
      BY DEF File!Issue
    <3>. QED BY <1>1, <3>1 DEF Reported
  <2>4. IsChecked(k)' /\ IsChecked(k)
    BY <1>1 DEF IsChecked
  <2>5. IsSwept(k)' <=> IsSwept(k) \/ k = i
    <3>1. \A m \in 1 .. n : m < turn + 1 <=> m < turn \/ m = turn
      BY <1>1
    <3>2. i = known[turn]
      BY DEF i
    <3>. QED BY <1>1, <1>4, <1>5, <3>1, <3>2 DEF IsSwept
  <2>6. /\ Reported("duplicate_name", k)' <=> Reported("duplicate_name", k)
        /\ Reported("shape_invalid", k)' <=> Reported("shape_invalid", k)
        /\ Reported("offset_alignment", k)' <=> Reported("offset_alignment", k)
        /\ Reported("payload_range", k)' <=> Reported("payload_range", k)
        /\ Reported("overlap", k)' <=> Reported("overlap", k) \/ (k = i /\ IsReached(k))
    BY <1>6, <2>3
  <2>. QED BY <1>1, <1>2, <2>1, <2>2, <2>4, <2>5, <2>6 DEF ReportsOf
<1>16. \A x \in issues' : x \in issues
         \/ \E c \in Codes, k \in DOMAIN described : x = File!Issue(c, k)
  <2>1. i \in DOMAIN described
    BY <1>5 DEF Known
  <2>. QED BY <1>1, <1>7, <2>1
<1>17. ReportInv'
  BY <1>1, <1>14, <1>15, <1>16, ReportsHold
<1>. QED BY <1>2, <1>3, <1>13, <1>17 DEF ValidationInv

LEMMA FinishStep == ASSUME ValidationInv, File!Finish PROVE ValidationInv'
<1>1. /\ stage = "sweeping" /\ stage' = "done" /\ turn > Len(known)
      /\ UNCHANGED <<described, fileSize, skipped, turn, known, previous, issues>>
  BY DEF File!Finish
<1>2. FileIsThere' /\ File!ReadEnd' = File!ReadEnd /\ Known' = Known /\ \A i, j : File!Before(i, j)' <=> File!Before(i, j)
  BY <1>1, FileStays DEF ValidationInv
<1>3. Ranges'
  BY <1>1, <1>2 DEF ValidationInv, Ranges
<1>4. File!ToSet(known) = Known /\ File!InOrderOfPlaces(known) /\ File!ReadEnd <= fileSize
  BY <1>1 DEF ValidationInv, PlaceInv
<1>5. File!ToSet(known)' = Known' /\ File!InOrderOfPlaces(known)'
  <2>1. File!ToSet(known)' = File!ToSet(known)
    BY <1>1 DEF File!ToSet
  <2>. QED BY <1>1, <1>2, <1>4, <2>1 DEF File!InOrderOfPlaces
<1>6. PlaceInv'
  BY <1>1, <1>2, <1>5 DEF ValidationInv, PlaceInv
<1>7. ~ IsRefused /\ ~ IsRefused'
  <2>1. ~ (fileSize < File!ReadEnd)
    BY <1>4, ReadEndFacts DEF ValidationInv, FileIsThere
  <2>. QED BY <1>1, <1>2, <2>1 DEF IsRefused
<1>8. ASSUME NEW i \in DOMAIN described PROVE ReportsOf(i)'
  <2>1. ReportsOf(i)
    BY <1>7 DEF ValidationInv, ReportInv
  <2>2. \A c \in Codes : Reported(c, i)' <=> Reported(c, i)
    BY <1>1 DEF Reported, File!Issue
  <2>3. IsChecked(i)' /\ IsChecked(i)
    BY <1>1 DEF IsChecked
  <2>4. IsSwept(i)' <=> IsSwept(i)
    <3>1. \A m \in DOMAIN known : m < turn
      BY <1>1 DEF ValidationInv, Ranges
    <3>. QED BY <1>1, <3>1 DEF IsSwept
  <2>. QED BY <1>1, <2>1, <2>2, <2>3, <2>4, ReportsStay DEF ValidationInv
<1>9. ReportInv'
  BY <1>1, <1>7, <1>8, ReportsHold
<1>. QED BY <1>2, <1>3, <1>6, <1>9 DEF ValidationInv

LEMMA StutterStep == ASSUME ValidationInv, UNCHANGED File!vars PROVE ValidationInv'
<1>1. UNCHANGED <<described, fileSize, skipped, stage, turn, known, previous, issues>>
  BY DEF File!vars
<1>2. FileIsThere' /\ File!ReadEnd' = File!ReadEnd /\ Known' = Known /\ (\A i, j : File!Before(i, j)' <=> File!Before(i, j))
      /\ \A i : File!End(i)' = File!End(i)
  BY <1>1, FileStays DEF ValidationInv
<1>3. Ranges'
  BY <1>1, <1>2 DEF ValidationInv, Ranges
<1>4. File!ToSet(known)' = File!ToSet(known)
        /\ (File!InOrderOfPlaces(known)' <=> File!InOrderOfPlaces(known))
  BY <1>1, <1>2 DEF File!ToSet, File!InOrderOfPlaces
<1>5. /\ \A m \in DOMAIN known : File!End(known[m])' = File!End(known[m])
      /\ File!End(previous)' = File!End(previous)
  BY <1>1 DEF File!End, File!Start, File!Length
<1>6. PlaceInv'
  BY <1>1, <1>2, <1>4, <1>5 DEF ValidationInv, PlaceInv
<1>7. IsRefused' <=> IsRefused
  BY <1>1, <1>2 DEF IsRefused
<1>8. ASSUME IsRefused PROVE ReportInv'
  <2>1. issues = {File!Issue("truncated", 0)}
    BY <1>8 DEF ValidationInv, ReportInv
  <2>2. (issues = {File!Issue("truncated", 0)})'
    BY <1>1, <2>1 DEF File!Issue
  <2>. QED BY <1>7, <1>8, <2>2 DEF ReportInv
<1>9. ASSUME ~ IsRefused PROVE ReportInv'
  <2>1. ASSUME NEW i \in DOMAIN described PROVE ReportsOf(i)'
    <3>1. ReportsOf(i)
      BY <1>9 DEF ValidationInv, ReportInv
    <3>2. \A c \in Codes : Reported(c, i)' <=> Reported(c, i)
      BY <1>1 DEF Reported, File!Issue
    <3>3. (IsChecked(i)' <=> IsChecked(i)) /\ (IsSwept(i)' <=> IsSwept(i))
      BY <1>1 DEF IsChecked, IsSwept
    <3>. QED BY <1>1, <3>1, <3>2, <3>3, ReportsStay DEF ValidationInv
  <2>. QED BY <1>1, <1>7, <1>9, <2>1, ReportsHold
<1>10. ReportInv'
  BY <1>8, <1>9
<1>. QED BY <1>2, <1>3, <1>6, <1>10 DEF ValidationInv

LEMMA ValidationStep == ValidationInv /\ [File!Next]_File!vars => ValidationInv'
BY RefuseHeaderStep, ReadHeaderStep, CheckNamesStep, CheckUnknownStep, CheckKnownStep,
   SortRangesStep, SweepRangeStep, FinishStep, StutterStep DEF File!Next

-----------------------------------------------------------------------------
(* What the converter writes. *)

LEMMA MultiplesAdd ==
  ASSUME NEW k \in Nat \ {0}, NEW a \in Nat, NEW b \in Nat, a % k = 0, b % k = 0
  PROVE  a + b \in Nat /\ (a + b) % k = 0
<1>1. PICK p \in Nat, q \in Nat : a = k * p /\ b = k * q
  <2>1. a \div k \in Nat /\ a = k * (a \div k) /\ b \div k \in Nat /\ b = k * (b \div k)
    BY Z3
  <2>. QED BY <2>1
<1>2. PICK r \in Nat : a + b = k * r
  <2>1. a + b = k * (p + q) /\ p + q \in Nat
    BY <1>1
  <2>. QED BY <2>1
<1>3. (k * r) % k = 0
  BY Z3
<1>. QED BY <1>2, <1>3

LEMMA WrittenFacts ==
  ASSUME FileIsThere, NEW n \in Nat, n = Len(described),
         \A i \in 1 .. n : File!Length(i) \in Nat
  PROVE  /\ \A i \in 0 .. n : File!Written[i] \in Nat /\ File!Written[i] % Alignment = 0
         /\ \A i \in 1 .. n : File!Written[i]
              = File!Written[i - 1] + File!AlignOffset(File!Length(i))
<1>. DEFINE Upto(h) ==
              h = [i \in 0 .. Len(described) |->
                     IF i = 0 THEN 0 ELSE h[i - 1] + File!AlignOffset(File!Length(i))]
            h == CHOOSE h : Upto(h)
<1>1. File!ValidationConstants /\ Alignment \in Nat \ {0}
  BY DEF FileIsThere, File!ValidationConstants
<1>2. \A i \in 1 .. n : File!AlignOffset(File!Length(i)) \in Nat
        /\ File!AlignOffset(File!Length(i)) % Alignment = 0
  BY <1>1, AlignFacts
<1>3. PICK g : g \in [0 .. n -> Nat] /\ g[0] = 0
                 /\ \A i \in 1 .. n : g[i] = g[i - 1] + File!AlignOffset(File!Length(i))
  <2>. DEFINE step == [x \in Nat \X (1 .. n) |-> x[1] + File!AlignOffset(File!Length(x[2]))]
  <2>1. step \in [Nat \X (1 .. n) -> Nat]
    <3>1. \A x \in Nat \X (1 .. n) : x[1] \in Nat
            /\ File!AlignOffset(File!Length(x[2])) \in Nat
      BY <1>2
    <3>2. \A x \in Nat \X (1 .. n) : x[1] + File!AlignOffset(File!Length(x[2])) \in Nat
      BY <3>1
    <3>. QED BY <3>2
  <2>2. \A x \in Nat, i \in 1 .. n : step[<<x, i>>] = x + File!AlignOffset(File!Length(i))
    OBVIOUS
  <2>. HIDE DEF step
  <2>3. PICK g : Numbers!Steps(g, n, Nat, 0, step)
    BY <2>1, Numbers!RecursionUpTo
  <2>4. g \in [0 .. n -> Nat] /\ g[0] = 0 /\ \A i \in 1 .. n : g[i] = step[<<g[i - 1], i>>]
    BY <2>3 DEF Numbers!Steps
  <2>5. \A i \in 1 .. n : g[i - 1] \in Nat
    BY <2>4, SMTT(30)
  <2>6. \A i \in 1 .. n : step[<<g[i - 1], i>>]
          = g[i - 1] + File!AlignOffset(File!Length(i))
    BY <2>2, <2>5
  <2>7. \A i \in 1 .. n : g[i] = g[i - 1] + File!AlignOffset(File!Length(i))
    BY <2>4, <2>6
  <2>. QED BY <2>4, <2>7
<1>4. Upto(g)
  <2>1. g = [i \in 0 .. n |-> g[i]]
    BY <1>3
  <2>2. \A i \in 0 .. n : i = 0 \/ i \in 1 .. n
    OBVIOUS
  <2>3. \A i \in 0 .. n :
          g[i] = IF i = 0 THEN 0 ELSE g[i - 1] + File!AlignOffset(File!Length(i))
    BY <1>3, <2>2
  <2>. QED BY <2>1, <2>3
<1>5. Upto(h)
  BY <1>4
<1>6. File!Written = h
  BY DEF File!Written
<1>. HIDE DEF h
<1>7. \A i \in 0 .. n : h[i] = g[i]
  <2>0. \A i \in 1 .. n : i \in 0 .. n /\ i # 0
    OBVIOUS
  <2>1. h[0] = g[0] /\ \A i \in 1 .. n : h[i] = h[i - 1] + File!AlignOffset(File!Length(i))
    BY <1>3, <1>5, <2>0
  <2>. HIDE DEF Upto
  <2>2. Numbers!StepAlike(h, g, n)
    BY <1>3, <2>1 DEF Numbers!StepAlike
  <2>. QED BY <2>2, Numbers!SameUpTo
<1>8. \A i \in 0 .. n : g[i] % Alignment = 0
  <2>. DEFINE T == {i \in 0 .. n : g[i] % Alignment = 0}
  <2>1. 0 \in T
    BY <1>1, <1>3
  <2>2. ASSUME NEW i \in 0 .. n - 1, i \in T PROVE i + 1 \in T
    <3>1. i + 1 \in 1 .. n /\ (i + 1) - 1 = i /\ g[i] \in Nat /\ i + 1 \in 0 .. n
      BY <1>3
    <3>2. g[i + 1] = g[i] + File!AlignOffset(File!Length(i + 1))
      BY <1>3, <3>1
    <3>3. (g[i] + File!AlignOffset(File!Length(i + 1))) % Alignment = 0
      BY <1>1, <1>2, <2>2, <3>1, MultiplesAdd
    <3>. QED BY <3>1, <3>2, <3>3
  <2>3. n \in T /\ \A i \in 0 .. n : i \in T
    <3>. HIDE DEF T
    <3>. QED BY <2>1, <2>2, Numbers!InductionUpTo
  <2>. QED BY <2>3
<1>9. \A i \in 1 .. n : i \in 0 .. n /\ i - 1 \in 0 .. n
  OBVIOUS
<1>. QED BY <1>3, <1>6, <1>7, <1>8, <1>9

LEMMA WrittenGrows ==
  ASSUME FileIsThere, NEW n \in Nat, n = Len(described),
         \A i \in 1 .. n : File!Length(i) \in Nat,
         NEW j \in 0 .. n, NEW i \in j .. n
  PROVE  File!Written[j] <= File!Written[i]
<1>. DEFINE T == {k \in 0 .. n : k >= j => File!Written[j] <= File!Written[k]}
<1>1. /\ \A k \in 0 .. n : File!Written[k] \in Nat
      /\ \A k \in 1 .. n : File!Written[k]
           = File!Written[k - 1] + File!AlignOffset(File!Length(k))
  BY WrittenFacts
<1>2. \A k \in 1 .. n : File!AlignOffset(File!Length(k)) \in Nat
  BY AlignFacts DEF FileIsThere
<1>3. 0 \in T
  BY <1>1
<1>4. ASSUME NEW k \in 0 .. n - 1, k \in T PROVE k + 1 \in T
  <2>1. k + 1 \in 1 .. n /\ (k + 1) - 1 = k /\ k + 1 \in 0 .. n
    OBVIOUS
  <2>2. File!Written[k + 1] = File!Written[k] + File!AlignOffset(File!Length(k + 1))
    BY <1>1, <2>1
  <2>3. File!Written[k] <= File!Written[k + 1]
    BY <1>1, <1>2, <2>1, <2>2, SMTT(30)
  <2>4. k + 1 >= j => k >= j \/ k + 1 = j
    OBVIOUS
  <2>. QED BY <1>1, <1>4, <2>1, <2>3, <2>4
<1>5. i \in 0 .. n /\ i \in T
  <2>1. \A k \in 0 .. n : k \in T
    <3>. HIDE DEF T
    <3>. QED BY <1>3, <1>4, Numbers!InductionUpTo
  <2>. QED BY <2>1
<1>. QED BY <1>5

(* Nothing is wrong with a file that the converter wrote, but that some of *)
(* it may be missing.                                                      *)
LEMMA WrittenIsSound ==
  ASSUME FileIsThere, File!WrittenByConverter, NEW i \in DOMAIN described
  PROVE  /\ i \in Known /\ ~ File!SameName(i) /\ ~ HasNoElement(i) /\ ~ IsMisplaced(i)
         /\ ~ IsReached(i)
<1>1. PICK n \in Nat : n = Len(described) /\ DOMAIN described = 1 .. n
  BY DEF FileIsThere
<1>2. \A k \in 1 .. n : /\ k \in Known /\ File!Length(k) \in Nat /\ File!Length(k) > 0
                        /\ described[k].offset = File!Written[k - 1] /\ ~ HasNoElement(k)
  <2>1. \A k \in 1 .. n : File!Length(k) > 0 /\ described[k].offset = File!Written[k - 1]
    BY <1>1 DEF File!WrittenByConverter
  <2>2. \A k \in 1 .. n : /\ File!Length(k) \in Nat \union {File!Unknown}
                          /\ File!Length(k) \in Nat <=> File!Length(k) # File!Unknown
                          /\ ~ HasNoElement(k)
    BY <1>1, <2>1, LengthFacts DEF HasNoElement
  <2>3. \A k \in 1 .. n : File!Length(k) # File!Unknown
    BY <2>1 DEF File!Unknown
  <2>. QED BY <1>1, <2>1, <2>2, <2>3 DEF Known
<1>3. /\ \A k \in 0 .. n : File!Written[k] \in Nat /\ File!Written[k] % Alignment = 0
      /\ \A k \in 1 .. n : File!Written[k]
           = File!Written[k - 1] + File!AlignOffset(File!Length(k))
  BY <1>1, <1>2, WrittenFacts
<1>4. ~ File!SameName(i)
  BY <1>1 DEF File!WrittenByConverter, File!SameName
<1>5. ~ IsMisplaced(i)
  <2>1. i - 1 \in 0 .. n
    BY <1>1
  <2>. QED BY <1>1, <1>2, <1>3, <2>1 DEF IsMisplaced
<1>6. ASSUME NEW j \in Known, File!Before(j, i), File!Start(i) < File!End(j) PROVE FALSE
  <2>1. j \in 1 .. n /\ i \in 1 .. n /\ i \in Known
    BY <1>1, <1>2 DEF Known
  <2>2. PICK a \in Nat : /\ File!Start(i) = a + File!Written[i - 1]
                         /\ File!Start(j) = a + File!Written[j - 1]
                         /\ File!End(j) = File!Start(j) + File!Length(j)
    BY <1>1, <1>2, <2>1, StartFacts, EndFacts
  <2>3. PICK wi \in Nat, wj \in Nat, li \in Nat, lj \in Nat, pi \in Nat, pj \in Nat :
          /\ wi = File!Written[i - 1] /\ wj = File!Written[j - 1] /\ li = File!Length(i)
          /\ lj = File!Length(j)
          /\ pi = File!Written[i] /\ pj = File!Written[j]
    <3>1. i - 1 \in 0 .. n /\ j - 1 \in 0 .. n /\ i \in 0 .. n /\ j \in 0 .. n
      BY <2>1
    <3>. QED BY <1>2, <1>3, <2>1, <3>1
  <2>4. li > 0 /\ lj > 0 /\ wi + li <= pi /\ wj + lj <= pj
    <3>1. /\ File!AlignOffset(li) \in Nat /\ li <= File!AlignOffset(li)
          /\ File!AlignOffset(lj) \in Nat /\ lj <= File!AlignOffset(lj)
      BY <2>3, AlignFacts DEF FileIsThere
    <3>2. pi = wi + File!AlignOffset(li) /\ pj = wj + File!AlignOffset(lj)
      BY <1>3, <2>1, <2>3
    <3>. QED BY <1>2, <2>1, <2>3, <3>1, <3>2
  <2>5. File!Start(j) <= File!Start(i) /\ i # j
    BY <1>6, <2>1, BeforeIsOrder
  <2>6. CASE j < i
    <3>1. j \in 0 .. n /\ i - 1 \in j .. n
      BY <2>1, <2>6
    <3>2. pj <= wi
      BY <1>1, <1>2, <2>3, <3>1, WrittenGrows
    <3>. QED BY <1>6, <2>2, <2>3, <2>4, <3>2
  <2>7. CASE i < j
    <3>1. i \in 0 .. n /\ j - 1 \in i .. n
      BY <2>1, <2>7
    <3>2. pi <= wj
      BY <1>1, <1>2, <2>3, <3>1, WrittenGrows
    <3>. QED BY <2>2, <2>3, <2>4, <2>5, <3>2
  <2>. QED BY <2>1, <2>5, <2>6, <2>7
<1>. QED BY <1>1, <1>2, <1>4, <1>5, <1>6 DEF IsReached

-----------------------------------------------------------------------------
(* What the invariant says at the end. *)

LEMMA AtTheEnd ==
  ASSUME ValidationInv, stage = "done", File!ReadEnd <= fileSize
  PROVE  /\ File!ToSet(known) = Known
         /\ \A x \in issues : \E c \in Codes, i \in DOMAIN described : x = File!Issue(c, i)
         /\ \A i \in DOMAIN described :
              /\ Reported("duplicate_name", i) <=> File!SameName(i)
              /\ Reported("shape_invalid", i) <=> HasNoElement(i)
              /\ Reported("offset_alignment", i) <=> IsMisplaced(i)
              /\ Reported("payload_range", i) <=> i \in Known /\ File!End(i) > fileSize
              /\ Reported("overlap", i) <=> i \in Known /\ IsReached(i)
<1>1. ~ IsRefused
  BY ReadEndFacts DEF IsRefused, ValidationInv, FileIsThere
<1>2. /\ \A x \in issues : \E c \in Codes, i \in DOMAIN described : x = File!Issue(c, i)
      /\ \A i \in DOMAIN described : ReportsOf(i)
  BY <1>1 DEF ValidationInv, ReportInv
<1>3. File!ToSet(known) = Known
  BY DEF ValidationInv, PlaceInv
<1>4. \A i : IsChecked(i)
  BY DEF IsChecked
<1>5. \A i : IsSwept(i) <=> i \in Known
  BY <1>3 DEF IsSwept, File!ToSet
<1>. QED BY <1>2, <1>3, <1>4, <1>5 DEF ReportsOf

LEMMA OverlapsNamed == ValidationInv => File!OverlapsAreNamed
<1>. SUFFICES ASSUME ValidationInv, stage = "done", fileSize >= File!ReadEnd
              PROVE  {issue.tensor : issue \in {x \in issues : x.code = "overlap"}}
                       = {i \in File!ToSet(known) :
                            \E j \in File!ToSet(known) \ {i} : File!Before(j, i)
                              /\ File!Meet(j, i)}
  BY DEF File!OverlapsAreNamed
<1>1. File!ReadEnd <= fileSize /\ FileIsThere
  BY ReadEndFacts DEF ValidationInv, FileIsThere
<1>2. /\ File!ToSet(known) = Known
      /\ \A x \in issues : \E c \in Codes, i \in DOMAIN described : x = File!Issue(c, i)
      /\ \A i \in DOMAIN described : Reported("overlap", i) <=> i \in Known /\ IsReached(i)
  BY <1>1, AtTheEnd
<1>3. \A c, i : File!Issue(c, i).code = c /\ File!Issue(c, i).tensor = i
  BY DEF File!Issue
<1>4. \A i : i \in {issue.tensor : issue \in {x \in issues : x.code = "overlap"}}
               <=> i \in DOMAIN described /\ Reported("overlap", i)
  <2>1. ASSUME NEW x \in issues, x.code = "overlap"
        PROVE  x.tensor \in DOMAIN described /\ Reported("overlap", x.tensor)
    <3>1. PICK c \in Codes, i \in DOMAIN described : x = File!Issue(c, i)
      BY <1>2
    <3>2. c = "overlap" /\ x.tensor = i
      BY <1>3, <2>1, <3>1
    <3>. QED BY <3>1, <3>2 DEF Reported
  <2>2. ASSUME NEW i \in DOMAIN described, Reported("overlap", i)
        PROVE  i \in {issue.tensor : issue \in {x \in issues : x.code = "overlap"}}
    BY <1>3, <2>2 DEF Reported
  <2>. QED BY <2>1, <2>2
<1>5. ASSUME NEW i \in Known
      PROVE  IsReached(i) <=> \E j \in Known \ {i} : File!Before(j, i) /\ File!Meet(j, i)
  <2>1. \A j \in Known : File!Before(j, i) =>
          j # i /\ (File!Meet(j, i) <=> File!Start(i) < File!End(j))
    BY <1>1, BeforeIsOrder, MeetInOrder
  <2>. QED BY <2>1 DEF IsReached
<1>6. Known \subseteq DOMAIN described
  BY DEF Known
<1>. QED BY <1>2, <1>4, <1>5, <1>6

LEMMA NoErrorAtTheEnd ==
  ASSUME ValidationInv, stage = "done", File!Ok
  PROVE  File!ReadEnd <= fileSize /\ \A i \in DOMAIN described :
           /\ ~ Reported("duplicate_name", i) /\ ~ Reported("payload_range", i)
           /\ ~ Reported("overlap", i)
<1>1. \A c, i : File!Issue(c, i) \in issues => c \in File!Warnings
  BY DEF File!Ok, File!Issue
<1>2. {"duplicate_name", "payload_range", "overlap", "truncated"} \intersect File!Warnings
        = {}
  BY DEF File!Warnings
<1>3. File!ReadEnd <= fileSize
  <2>1. CASE IsRefused
    BY <1>1, <1>2, <2>1 DEF ValidationInv, ReportInv
  <2>2. CASE ~ IsRefused
    BY <2>2, ReadEndFacts DEF IsRefused, ValidationInv, FileIsThere
  <2>. QED BY <2>1, <2>2
<1>. QED BY <1>1, <1>2, <1>3 DEF Reported

(* Two tensors of a file without errors. *)
LEMMA AcceptedRanges ==
  ASSUME ValidationInv, stage = "done", File!Ok
  PROVE  /\ File!ToSet(known) = Known
         /\ \A i \in Known : File!Start(i) >= HeaderEnd /\ File!End(i) <= fileSize
         /\ \A i, j \in Known : i # j => ~ File!Meet(i, j)
         /\ \A i, j \in DOMAIN described : i # j => described[i].name # described[j].name
<1>1. FileIsThere /\ fileSize \in Nat /\ HeaderEnd \in Nat
  BY DEF ValidationInv, FileIsThere, File!ValidationConstants
<1>2. File!ReadEnd <= fileSize /\ \A i \in DOMAIN described :
        /\ ~ Reported("duplicate_name", i) /\ ~ Reported("payload_range", i)
        /\ ~ Reported("overlap", i)
  BY NoErrorAtTheEnd
<1>3. File!ToSet(known) = Known /\ \A i \in DOMAIN described :
        ~ File!SameName(i) /\ (i \in Known => ~ (File!End(i) > fileSize) /\ ~ IsReached(i))
  BY <1>2, AtTheEnd
<1>4. ASSUME NEW i \in Known PROVE File!Start(i) >= HeaderEnd /\ File!End(i) <= fileSize
  BY <1>1, <1>3, <1>4, EndFacts, StartFacts
<1>5. ASSUME NEW i \in Known, NEW j \in Known, i # j PROVE ~ File!Meet(i, j)
  <2>1. i \in DOMAIN described /\ j \in DOMAIN described /\ i \in Nat /\ j \in Nat
    BY <1>1, EndFacts, DescriptorFacts
  <2>2. ASSUME File!Before(i, j) PROVE ~ File!Meet(i, j)
    BY <1>1, <1>3, <2>1, <2>2, MeetInOrder DEF IsReached
  <2>3. ASSUME File!Before(j, i) PROVE ~ File!Meet(j, i)
    BY <1>1, <1>3, <2>1, <2>3, MeetInOrder DEF IsReached
  <2>4. File!Meet(i, j) <=> File!Meet(j, i)
    BY DEF File!Meet
  <2>. QED BY <1>1, <1>5, <2>2, <2>3, <2>4, BeforeIsOrder
<1>6. ASSUME NEW i \in DOMAIN described, NEW j \in DOMAIN described, i # j
      PROVE  described[i].name # described[j].name
  <2>1. i \in Nat /\ j \in Nat
    BY <1>1, DescriptorFacts
  <2>2. i < j \/ j < i
    BY <1>6, <2>1
  <2>. QED BY <1>3, <2>2 DEF File!SameName
<1>. QED BY <1>3, <1>4, <1>5, <1>6

LEMMA AcceptedReadable == ValidationInv => File!OkMeansReadable
<1>. SUFFICES ASSUME ValidationInv, stage = "done", File!Ok
              PROVE  /\ \A i \in File!ToSet(known) : File!Start(i) >= HeaderEnd
                          /\ File!End(i) <= fileSize
                     /\ \A i, j \in File!ToSet(known) : i # j => ~ File!Meet(i, j)
                     /\ \A i, j \in DOMAIN described :
                          i # j => described[i].name # described[j].name
  BY DEF File!OkMeansReadable
<1>. QED BY AcceptedRanges

(* A tensor of unknown size is warned of when it has been checked. *)
WarnedInv ==
  ~ IsRefused => \A i \in DOMAIN described : IsChecked(i) /\ i \notin Known =>
    Reported("type_unknown", i) \/ Reported("row_width", i)

(* What is reported stays; a tensor is checked in its turn. *)
LEMMA WarningsStay ==
  ASSUME WarnedInv, ValidationInv, UNCHANGED <<described, fileSize, skipped>>,
         IsRefused => IsRefused', issues \subseteq issues',
         \A i \in DOMAIN described : IsChecked(i)' =>
           \/ IsChecked(i)
           \/ i \in Known
           \/ Reported("type_unknown", i)' \/ Reported("row_width", i)'
  PROVE  WarnedInv'
<1>1. Known' = Known
  BY FileStays DEF ValidationInv
<1>2. ASSUME NEW i \in DOMAIN described, NEW c \in {"type_unknown", "row_width"},
             Reported(c, i)
      PROVE  Reported(c, i)'
  BY <1>2 DEF Reported, File!Issue
<1>3. ASSUME ~ IsRefused', NEW i \in DOMAIN described, IsChecked(i)', i \notin Known
      PROVE  Reported("type_unknown", i)' \/ Reported("row_width", i)'
  <2>1. CASE IsChecked(i)
    <3>1. Reported("type_unknown", i) \/ Reported("row_width", i)
      BY <1>3, <2>1 DEF WarnedInv
    <3>. QED BY <1>2, <3>1
  <2>. QED BY <1>3, <2>1
<1>. QED BY <1>1, <1>3 DEF WarnedInv

LEMMA WarnedStep ==
  ASSUME ValidationInv, WarnedInv, [File!Next]_File!vars
  PROVE  WarnedInv'
<1>1. /\ DOMAIN described = 1 .. Len(described) /\ Len(described) \in Nat
      /\ turn \in Nat \ {0}
  BY DEF ValidationInv, FileIsThere, Ranges
<1>2. CASE File!RefuseHeader
  <2>1. /\ stage' = "done" /\ fileSize < File!ReadEnd
        /\ UNCHANGED <<described, fileSize, skipped>>
    BY <1>2 DEF File!RefuseHeader
  <2>2. IsRefused'
    BY <2>1, FileStays DEF IsRefused, ValidationInv
  <2>. QED BY <2>2 DEF WarnedInv
<1>3. CASE File!ReadHeader
  <2>1. /\ stage = "reading" /\ stage' = "naming"
        /\ UNCHANGED <<described, fileSize, skipped, issues>>
    BY <1>3 DEF File!ReadHeader
  <2>. QED BY <2>1, WarningsStay DEF IsRefused, IsChecked
<1>4. CASE File!CheckNames
  <2>1. /\ stage = "naming" /\ stage' = "checking" /\ issues \subseteq issues'
        /\ UNCHANGED <<described, fileSize, skipped, turn>>
    BY <1>4 DEF File!CheckNames
  <2>2. turn = 1 /\ \A i \in DOMAIN described : ~ (i < 1)
    BY <1>1, <2>1 DEF ValidationInv, PlaceInv
  <2>. QED BY <2>1, <2>2, WarningsStay DEF IsRefused, IsChecked
<1>5. CASE File!CheckUnknown
  <2>. DEFINE code == IF described[turn].type \in DOMAIN Specs
                        THEN "row_width" ELSE "type_unknown"
  <2>1. /\ stage = "checking" /\ stage' = "checking" /\ turn' = turn + 1
        /\ issues \subseteq issues' /\ File!Issue(code, turn) \in issues'
        /\ UNCHANGED <<described, fileSize, skipped>>
    BY <1>5 DEF File!CheckUnknown, File!HasTensor
  <2>2. File!Issue("row_width", turn) \in issues' \/ File!Issue("type_unknown", turn) \in issues'
    BY <2>1
  <2>. HIDE DEF code
  <2>3. \A i \in DOMAIN described : i < turn + 1 <=> i < turn \/ i = turn
    BY <1>1
  <2>4. \A i \in DOMAIN described : IsChecked(i)' => IsChecked(i) \/ i = turn
    BY <2>1, <2>3 DEF IsChecked
  <2>5. \A i : i = turn => (Reported("type_unknown", i)' \/ Reported("row_width", i)')
    <3>1. \A i : i = turn => (File!Issue("type_unknown", i) \in issues'
                               \/ File!Issue("row_width", i) \in issues')
      BY <2>2
    <3>. QED BY <3>1 DEF Reported, File!Issue
  <2>. QED BY <2>1, <2>4, <2>5, WarningsStay DEF IsRefused
<1>6. CASE File!CheckKnown
  <2>1. /\ stage = "checking" /\ stage' = "checking" /\ turn' = turn + 1
        /\ File!Length(turn) # File!Unknown /\ turn <= Len(described)
        /\ issues \subseteq issues'
        /\ UNCHANGED <<described, fileSize, skipped>>
    BY <1>6 DEF File!CheckKnown, File!HasTensor
  <2>2. turn \in Known
    BY <1>1, <2>1 DEF Known
  <2>3. \A i \in DOMAIN described : i < turn + 1 <=> i < turn \/ i = turn
    BY <1>1
  <2>. QED BY <2>1, <2>2, <2>3, WarningsStay DEF IsRefused, IsChecked
<1>7. CASE File!SortRanges
  <2>1. /\ stage = "checking" /\ stage' = "sweeping" /\ turn > Len(described)
        /\ UNCHANGED <<described, fileSize, skipped, issues>>
    BY <1>7 DEF File!SortRanges
  <2>2. \A i \in DOMAIN described : i < turn
    BY <1>1, <2>1
  <2>. QED BY <2>1, <2>2, WarningsStay DEF IsRefused, IsChecked
<1>8. CASE File!SweepRange
  <2>1. /\ stage = "sweeping" /\ stage' = "sweeping" /\ issues \subseteq issues'
        /\ UNCHANGED <<described, fileSize, skipped>>
    BY <1>8 DEF File!SweepRange, File!HasRange
  <2>. QED BY <2>1, WarningsStay DEF IsRefused, IsChecked
<1>9. CASE File!Finish
  <2>1. /\ stage = "sweeping" /\ stage' = "done"
        /\ UNCHANGED <<described, fileSize, skipped, issues>>
    BY <1>9 DEF File!Finish
  <2>. QED BY <2>1, WarningsStay DEF IsRefused, IsChecked
<1>10. CASE UNCHANGED File!vars
  <2>1. UNCHANGED <<described, fileSize, skipped, stage, turn, issues>>
    BY <1>10 DEF File!vars
  <2>2. IsRefused' <=> IsRefused
    BY <2>1, FileStays DEF IsRefused, ValidationInv
  <2>. QED BY <2>1, <2>2, WarningsStay DEF IsChecked
<1>. QED BY <1>2, <1>3, <1>4, <1>5, <1>6, <1>7, <1>8, <1>9, <1>10 DEF File!Next

LEMMA WithoutIssueWhole == ValidationInv /\ WarnedInv => File!NoIssueMeansWhole
<1>. SUFFICES ASSUME ValidationInv, WarnedInv, stage = "done", issues = {}, described # <<>>
              PROVE  /\ \A i \in DOMAIN described :
                          /\ File!Length(i) # File!Unknown
                          /\ File!Start(i) >= HeaderEnd /\ File!End(i) <= fileSize
                     /\ \A i, j \in DOMAIN described : i # j => ~ File!Meet(i, j)
  BY DEF File!NoIssueMeansWhole
<1>1. File!Ok
  BY DEF File!Ok
<1>2. ~ IsRefused
  BY DEF ValidationInv, ReportInv
<1>3. \A i \in DOMAIN described : i \in Known
  BY <1>2 DEF WarnedInv, IsChecked, Reported
<1>. QED BY <1>1, <1>3, AcceptedRanges DEF Known

LEMMA CutNoticed == ValidationInv => File!CutIsNoticed
<1>. SUFFICES ASSUME ValidationInv, stage = "done", File!WrittenByConverter
              PROVE  File!Ok <=> fileSize >= HeaderEnd
                       /\ \A i \in DOMAIN described : File!End(i) <= fileSize
  BY DEF File!CutIsNoticed
<1>1. /\ FileIsThere /\ fileSize \in Nat /\ HeaderEnd \in Nat
      /\ File!ReadEnd = HeaderEnd
  BY ReadEndFacts DEF ValidationInv, FileIsThere, File!WrittenByConverter
<1>2. \A i \in DOMAIN described : /\ i \in Known /\ ~ File!SameName(i) /\ ~ HasNoElement(i)
                                /\ ~ IsMisplaced(i) /\ ~ IsReached(i) /\ File!End(i) \in Nat
  BY <1>1, WrittenIsSound, EndFacts
<1>3. ASSUME File!Ok
      PROVE  fileSize >= HeaderEnd /\ \A i \in DOMAIN described : File!End(i) <= fileSize
  <2>1. File!ReadEnd <= fileSize /\ \A i \in DOMAIN described : ~ Reported("payload_range", i)
    BY <1>3, NoErrorAtTheEnd
  <2>2. \A i \in DOMAIN described : ~ (File!End(i) > fileSize)
    BY <1>2, <2>1, AtTheEnd
  <2>. QED BY <1>1, <1>2, <2>1, <2>2
<1>4. ASSUME fileSize >= HeaderEnd, \A i \in DOMAIN described : File!End(i) <= fileSize
      PROVE  File!Ok
  <2>1. File!ReadEnd <= fileSize
    BY <1>1, <1>4
  <2>2. /\ \A x \in issues : \E c \in Codes, i \in DOMAIN described : x = File!Issue(c, i)
        /\ \A i \in DOMAIN described :
             /\ Reported("duplicate_name", i) <=> File!SameName(i)
             /\ Reported("shape_invalid", i) <=> HasNoElement(i)
             /\ Reported("offset_alignment", i) <=> IsMisplaced(i)
             /\ Reported("payload_range", i) <=> i \in Known /\ File!End(i) > fileSize
             /\ Reported("overlap", i) <=> i \in Known /\ IsReached(i)
    BY <2>1, AtTheEnd
  <2>3. \A i \in DOMAIN described : ~ (File!End(i) > fileSize)
    BY <1>1, <1>2, <1>4
  <2>4. ASSUME NEW x \in issues PROVE x.code \in File!Warnings
    <3>1. PICK c \in Codes, i \in DOMAIN described : x = File!Issue(c, i)
      BY <2>2
    <3>2. Reported(c, i) /\ x.code = c
      BY <3>1 DEF Reported, File!Issue
    <3>3. c \notin {"duplicate_name", "shape_invalid", "offset_alignment", "payload_range", "overlap"}
      BY <1>2, <2>2, <2>3, <3>2
    <3>. QED BY <3>2, <3>3 DEF Codes
  <2>. QED BY <2>4 DEF File!Ok
<1>. QED BY <1>3, <1>4

(* Of every file that validate_gguf reads, whatever types, alignment and   *)
(* descriptors it holds: the sweep names exactly the tensors that share a  *)
(* byte with one before them, though it keeps one range of those before.   *)
THEOREM OverlapsAreFound == File!Spec => []OverlapsAreNamed
<1>1. File!Init => ValidationInv
  BY ValidationInit, ReadersAssumption
<1>2. ValidationInv => OverlapsAreNamed
  BY OverlapsNamed DEF OverlapsAreNamed
<1>. QED BY <1>1, <1>2, ValidationStep, PTL DEF File!Spec

(* For every file: without errors, its payloads of known size can be read; *)
(* without warnings either, all of them; and if the converter laid it out, *)
(* it is without errors exactly if no byte of it is missing.               *)
THEOREM ReportsAreTrue == File!Spec => []ReportsVouch
<1>1. File!Init => ValidationInv
  BY ValidationInit, ReadersAssumption
<1>2. File!Init => WarnedInv
  BY DEF File!Init, WarnedInv, IsChecked
<1>3. ValidationInv /\ WarnedInv => ReportsVouch
  BY AcceptedReadable, WithoutIssueWhole, CutNoticed DEF File!ReportsVouch, ReportsVouch
<1>4. ValidationInv /\ WarnedInv /\ [File!Next]_File!vars => ValidationInv' /\ WarnedInv'
  BY ValidationStep, WarnedStep
<1>. QED BY <1>1, <1>2, <1>3, <1>4, PTL DEF File!Spec

=============================================================================
