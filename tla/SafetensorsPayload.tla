------------------------- MODULE SafetensorsPayload -------------------------
(***************************************************************************)
(* The payload writer that Python reaches with the GIL released:           *)
(* write_safetensors_payload of conversion/safetensors_payload.cpp, on the *)
(* plans that bindings/python/payload.cpp lets through.  It maps the       *)
(* source and appends each tensor to a descriptor: padding, the payload by *)
(* one of four ways, padding.  write() may take less than it is given.     *)
(*                                                                         *)
(* A byte of the output names the plan and the row it belongs to and its   *)
(* place in the row; what it encodes is left to the kernels.  The threads  *)
(* of a chunk are modelled in ForkJoin.                                    *)
(***************************************************************************)
EXTENDS Integers, Sequences, FiniteSets

CONSTANTS
  Plans,         (* [dtype, qtype, begin, end : the source's bytes, rows,  *)
                 (* width : n_per_row, rowSize : bytes of an encoded row,  *)
                 (* given : an imatrix was passed]                         *)
  MaxPlans,      (* most plans of a call; bounds the instance              *)
  MaxRows,       (* most rows of a plan; bounds the instance               *)
  SourceSizes,   (* bytes of the source                                    *)
  Starts,        (* where the descriptor may stand at first                *)
  Alignment,     (* alignment of the output                                *)
  ScratchBytes,  (* scratch_bytes                                          *)
  ZeroBlock,     (* bytes of padding written at once; 4096 in the code     *)
  NeedsImatrix   (* the types of libgguf_quantize_requires_imatrix         *)

(* payload_source_dtype_size *)
DtypeSize(dtype) == IF dtype = "F32" THEN 4 ELSE 2

(* qtype_matches_source *)
Matches(p) == p.qtype = p.dtype

(* What parse_native_plan checks, and parse_shape_product of the shape. *)
PlanIsAccepted(p) ==
  /\ p.rows \in 1 .. MaxRows
  /\ p.width \in Nat \ {0}
  /\ p.rowSize \in Nat \ {0}
  /\ p.begin \in Nat
  /\ p.end = p.begin + p.rows * p.width * DtypeSize(p.dtype)

ASSUME PayloadAssumption ==
  /\ \A p \in Plans :
       /\ p.dtype \in {"F32", "F16", "BF16"}
       /\ p.given \in BOOLEAN
       /\ PlanIsAccepted(p)
       /\ Matches(p) => p.rowSize = p.width * DtypeSize(p.dtype)
  /\ MaxPlans \in Nat
  /\ MaxRows \in Nat
  /\ SourceSizes \subseteq Nat
  /\ Starts \subseteq Nat
  /\ Alignment \in Nat \ {0}
  /\ ScratchBytes \in Nat \ {0}
  /\ ZeroBlock \in Nat \ {0}

-----------------------------------------------------------------------------
VARIABLES
  plans,      (* the plans of the call                                     *)
  source,     (* bytes of the mapped source                                *)
  at,         (* where the call is                                         *)
  begun,      (* the number of the current plan                            *)
  row,        (* the first row of the next chunk                           *)
  scratch,    (* rows of F32 the scratch vectors hold                      *)
  encoded,    (* rows the vector of encoded rows holds                     *)
  sums,       (* auto_imatrix: how often each row has been added           *)
  pad,        (* bytes of padding that write_zero_padding still owes       *)
  unwritten,  (* what write_all_fd has still to write                      *)
  out,        (* the output                                                *)
  reported,   (* data_bytes_written                                        *)
  wanted      (* history: the output that the plans begun so far ask for   *)

call == <<plans, source>>
rowVars == <<row, scratch, encoded, sums>>
writeVars == <<pad, unwritten, out>>
vars == <<call, at, begun, rowVars, writeVars, reported, wanted>>

MinOf(a, b) == IF a <= b THEN a ELSE b

MaxOf(a, b) == IF a >= b THEN a ELSE b

(* gguf_pad *)
PadTo(n) == ((n + Alignment - 1) \div Alignment) * Alignment

Nbytes(p) == p.rows * p.rowSize

FloatBytes(p) == p.width * 4

Zero == <<0, 0, 0>>

Zeros(n) == [i \in 1 .. n |-> Zero]

(* The bytes of the rows [first, first + count) of plan k. *)
RowBytes(k, first, count) ==
  LET size == plans[k].rowSize
  IN  [i \in 1 .. count * size |-> <<k, first + (i - 1) \div size, (i - 1) % size>>]

(* What a plan adds to an output that stands at n: zeros up to the         *)
(* alignment, every byte of every row in order, zeros to a whole number of *)
(* alignments.                                                             *)
Contribution(k, n) ==
  Zeros(PadTo(n) - n) \o RowBytes(k, 0, plans[k].rows)
    \o Zeros(PadTo(Nbytes(plans[k])) - Nbytes(plans[k]))

Init ==
  /\ plans \in UNION {[1 .. n -> Plans] : n \in 0 .. MaxPlans}
  /\ source \in SourceSizes
  /\ at = "map"
  /\ begun = 0
  /\ row = 0
  /\ scratch = 0
  /\ encoded = 0
  /\ sums = <<>>
  /\ pad = 0
  /\ unwritten = <<>>
  /\ \E n \in Starts : out = Zeros(n)
  /\ reported = 0
  /\ wanted = out

Current == plans[begun]

(* No write is under way: the functions that write have returned. *)
WritesAreDone == pad = 0 /\ unwritten = <<>>

-----------------------------------------------------------------------------
(* How a tensor is encoded. *)

(* aligned_f32_source_rows does not return null; a mapping begins at a     *)
(* page.                                                                   *)
Aligned(p, r) == p.dtype = "F32" /\ (p.begin + r * FloatBytes(p)) % 4 = 0

(* quantize_function knows every type but the plain ones. *)
Path(p) ==
  CASE Matches(p)                                       -> "copy"
    [] p.dtype = "BF16" /\ p.qtype = "Q8_0"             -> "bf16_q8_0"
    [] /\ p.dtype # "F32"
       /\ p.qtype \notin {"F32", "F16", "BF16"}
       /\ ~ (p.dtype = "BF16" /\ p.qtype = "Q8_0")      -> "fused"
    [] OTHER                                            -> "generic"

(* rows_per_chunk, for the scratch memory that a row needs. *)
ChunkOf(p, rowWork) == MinOf(MaxOf(ScratchBytes \div rowWork, 1), p.rows)

RowWork(p) ==
  CASE Path(p) = "bf16_q8_0"                    -> p.rowSize
    [] Path(p) = "generic" /\ Aligned(p, 0)     -> p.rowSize
    [] OTHER                                    -> FloatBytes(p) + p.rowSize

RowsPerChunk(p) == ChunkOf(p, RowWork(p))

(* The rows of F32 that encoding a chunk needs room for: in the fused path *)
(* the vectors of its threads together.                                    *)
DecodedRows(p) ==
  IF Path(p) = "fused" \/ (Path(p) = "generic" /\ ~ Aligned(p, 0))
    THEN RowsPerChunk(p) ELSE 0

(* Mutant: every F32 source is taken to be read in place. *)
SumsInPlaceAlways(p) == p.dtype = "F32"

SumsInPlace(p) == Aligned(p, 0)

(* Rows added to the imatrix at once. *)
RowsPerSum(p) ==
  IF SumsInPlace(p) THEN p.rows ELSE ChunkOf(p, FloatBytes(p) + p.rowSize)

-----------------------------------------------------------------------------
Map ==
  /\ at = "map"
  /\ at' = "plan"
  /\ UNCHANGED <<call, begun, rowVars, writeVars, reported, wanted>>

(* Mutant: only the beginning of a tensor is compared with the file. *)
InsideSourceAtFirst(p) == p.begin <= source

InsideSource(p) == p.end <= source

NextPlan == plans[begun + 1]

RejectPlan ==
  /\ at = "plan"
  /\ begun < Len(plans)
  /\ ~ InsideSource(NextPlan)
  /\ at' = "failed"
  /\ UNCHANGED <<call, begun, rowVars, writeVars, reported, wanted>>

(* A plan whose type needs an imatrix and has none gets one. *)
BeginPlan ==
  LET p    == NextPlan
      auto == p.qtype \in NeedsImatrix /\ ~ p.given
  IN  /\ at = "plan"
      /\ begun < Len(plans)
      /\ InsideSource(p)
      /\ begun' = begun + 1
      /\ row' = 0
      /\ encoded' = 0
      /\ scratch' = IF auto /\ ~ SumsInPlace(p) THEN RowsPerSum(p) ELSE 0
      /\ sums' = IF auto THEN [r \in 0 .. p.rows - 1 |-> 0] ELSE <<>>
      /\ at' = IF auto THEN "imatrix" ELSE "pad"
      /\ wanted' = wanted \o Contribution(begun + 1, Len(wanted))
      /\ UNCHANGED <<call, writeVars, reported>>

(* Mutant: the rows that do not fill a chunk are left out. *)
MoreToSumWhole(p) == row + RowsPerSum(p) <= p.rows

MoreToSum(p) == row < p.rows

(* A turn of the loop in compute_auto_imatrix. *)
SumRows ==
  LET last == MinOf(row + RowsPerSum(Current), Current.rows) - 1
  IN  /\ at = "imatrix"
      /\ MoreToSum(Current)
      /\ sums' = [r \in DOMAIN sums |-> IF r \in row .. last THEN sums[r] + 1 ELSE sums[r]]
      /\ row' = row + RowsPerSum(Current)
      /\ UNCHANGED <<call, at, begun, scratch, encoded, writeVars, reported, wanted>>

EndSum ==
  /\ at = "imatrix"
  /\ ~ MoreToSum(Current)
  /\ at' = "pad"
  /\ UNCHANGED <<call, begun, rowVars, writeVars, reported, wanted>>

(* write_pre_tensor_padding *)
PadBefore ==
  /\ at = "pad"
  /\ pad' = PadTo(Len(out)) - Len(out)
  /\ at' = "payload"
  /\ UNCHANGED <<call, begun, rowVars, unwritten, out, reported, wanted>>

CopyPayload ==
  /\ at = "payload"
  /\ WritesAreDone
  /\ Path(Current) = "copy"
  /\ unwritten' = RowBytes(begun, 0, Current.rows)
  /\ at' = "written"
  /\ UNCHANGED <<call, begun, rowVars, pad, out, reported, wanted>>

PrepareChunks ==
  /\ at = "payload"
  /\ WritesAreDone
  /\ Path(Current) # "copy"
  /\ row' = 0
  /\ scratch' = DecodedRows(Current)
  /\ encoded' = RowsPerChunk(Current)
  /\ at' = "chunk"
  /\ UNCHANGED <<call, begun, sums, writeVars, reported, wanted>>

(* Mutant: the last chunk is encoded like any other. *)
ChunkRowsWhole(p) == RowsPerChunk(p)

ChunkRows(p) == MinOf(RowsPerChunk(p), p.rows - row)

EncodeChunk ==
  /\ at = "chunk"
  /\ WritesAreDone
  /\ row < Current.rows
  /\ unwritten' = RowBytes(begun, row, ChunkRows(Current))
  /\ row' = row + RowsPerChunk(Current)
  /\ UNCHANGED <<call, at, begun, scratch, encoded, sums, pad, out, reported, wanted>>

EndChunks ==
  /\ at = "chunk"
  /\ WritesAreDone
  /\ row >= Current.rows
  /\ at' = "written"
  /\ UNCHANGED <<call, begun, rowVars, writeVars, reported, wanted>>

(* write_post_tensor_padding *)
PadAfter ==
  /\ at = "written"
  /\ WritesAreDone
  /\ pad' = PadTo(Nbytes(Current)) - Nbytes(Current)
  /\ at' = "padded"
  /\ UNCHANGED <<call, begun, rowVars, unwritten, out, reported, wanted>>

Counted(p) == Nbytes(p)

EndPlan ==
  /\ at = "padded"
  /\ WritesAreDone
  /\ reported' = reported + Counted(Current)
  /\ at' = "plan"
  /\ UNCHANGED <<call, begun, rowVars, writeVars, wanted>>

Return ==
  /\ at = "plan"
  /\ begun = Len(plans)
  /\ at' = "returned"
  /\ UNCHANGED <<call, begun, rowVars, writeVars, reported, wanted>>

(* A turn of the loop in write_zero_padding. *)
WriteZeros ==
  /\ at # "failed"
  /\ unwritten = <<>>
  /\ pad > 0
  /\ unwritten' = Zeros(MinOf(pad, ZeroBlock))
  /\ pad' = pad - MinOf(pad, ZeroBlock)
  /\ UNCHANGED <<call, at, begun, rowVars, out, reported, wanted>>

(* Mutant: write_all_fd is content with a short write. *)
RestAfterOnce(n) == <<>>

RestAfter(n) == SubSeq(unwritten, n + 1, Len(unwritten))

(* A turn of the loop in write_all_fd: write() takes some of what it is    *)
(* given.  An interrupted call (EINTR) is tried again and changes nothing. *)
WriteSome ==
  /\ at # "failed"
  /\ \E n \in 1 .. Len(unwritten) :
       /\ out' = out \o SubSeq(unwritten, 1, n)
       /\ unwritten' = RestAfter(n)
  /\ UNCHANGED <<call, at, begun, rowVars, pad, reported, wanted>>

(* A file that cannot be mapped or queried, a write that fails or takes    *)
(* nothing, an encoder that returns another number of bytes.               *)
Fail ==
  /\ at \notin {"returned", "failed"}
  /\ at' = "failed"
  /\ UNCHANGED <<call, begun, rowVars, writeVars, reported, wanted>>

Step ==
  \/ Map
  \/ RejectPlan
  \/ BeginPlan
  \/ SumRows
  \/ EndSum
  \/ PadBefore
  \/ CopyPayload
  \/ PrepareChunks
  \/ EncodeChunk
  \/ EndChunks
  \/ PadAfter
  \/ EndPlan
  \/ Return
  \/ WriteZeros
  \/ WriteSome

Next == Step \/ Fail

(* The caller's thread runs, and write() is not interrupted for ever. *)
Spec == Init /\ [][Next]_vars /\ WF_vars(Step)

-----------------------------------------------------------------------------
(* The types of the variables. *)
TypeOK ==
  /\ plans \in Seq(Plans)
  /\ source \in SourceSizes
  /\ at \in {"map", "plan", "imatrix", "pad", "payload", "chunk", "written",
             "padded", "returned", "failed"}
  /\ begun \in 0 .. Len(plans)
  /\ row \in Nat
  /\ scratch \in 0 .. MaxRows
  /\ encoded \in 0 .. MaxRows
  /\ begun > 0 => DOMAIN sums \subseteq 0 .. Current.rows - 1
  /\ pad \in 0 .. Alignment - 1
  /\ reported \in Nat

(* However write() cuts the bytes up and however rows are cut into chunks, *)
(* the output is at every moment, also after a failure, a beginning of     *)
(* what the plans ask for, and between plans it is complete up to there.   *)
OutputIsAsPlanned ==
  /\ Len(out) <= Len(wanted)
  /\ out = SubSeq(wanted, 1, Len(out))
  /\ at \in {"plan", "returned"} => out = wanted

(* The number of bytes of an output that are not padding. *)
PayloadBytes(bytes) == Cardinality({i \in DOMAIN bytes : bytes[i] # Zero})

(* The number returned to Python is the number of bytes of payload, the    *)
(* padding not counted.                                                    *)
ReportIsTrue == at = "returned" => reported = PayloadBytes(out)

(* What is written is what was asked for, and what is reported is written. *)
OutputIsAsReported == OutputIsAsPlanned /\ ReportIsTrue

(* A type that needs an imatrix is never encoded without one, and one that *)
(* is computed here has counted every row exactly once, whichever part of  *)
(* the source could be read in place.                                      *)
ImatrixIsWhole ==
  at \in {"payload", "chunk"} /\ Current.qtype \in NeedsImatrix /\ ~ Current.given =>
    \A r \in 0 .. Current.rows - 1 : sums[r] = 1

(* The vectors have room for the rows decoded and encoded next.  A source  *)
(* that is read in place where it begins can be so in every row.           *)
VectorsAreLargeEnough ==
  /\ at = "imatrix" /\ MoreToSum(Current) =>
       Aligned(Current, row) \/ MinOf(RowsPerSum(Current), Current.rows - row) <= scratch
  /\ at = "chunk" /\ row < Current.rows =>
       /\ ChunkRows(Current) <= encoded
       /\ Path(Current) = "fused" => ChunkRows(Current) <= scratch
       /\ Path(Current) = "generic" =>
            Aligned(Current, row) \/ ChunkRows(Current) <= scratch

(* The vectors together keep to scratch_bytes, unless one row needs more. *)
MemoryIsBounded ==
  at \in {"imatrix", "chunk"} =>
    \/ scratch * FloatBytes(Current) + encoded * Current.rowSize <= ScratchBytes
    \/ scratch <= 1 /\ encoded <= 1

(* No byte outside the mapped source is read. *)
ReadsInsideSource ==
  LET bytes == Current.width * DtypeSize(Current.dtype)
  IN  /\ at = "imatrix" /\ MoreToSum(Current) =>
           Current.begin + MinOf(row + RowsPerSum(Current), Current.rows) * bytes <= source
      /\ at = "chunk" /\ row < Current.rows =>
           Current.begin + (row + ChunkRows(Current)) * bytes <= source
      /\ at = "written" /\ Path(Current) = "copy" =>
           Current.begin + Nbytes(Current) <= source

-----------------------------------------------------------------------------
(* The byte is the last one of a row of the plans ps. *)
EndsRow(ps, byte) == byte # Zero /\ byte[3] = ps[byte[1]].rowSize - 1

(* The rows of the plans ps that are in some bytes as a whole. *)
RowsIn(ps, bytes) ==
  LET upTo[n \in 0 .. Len(bytes)] ==
        IF n = 0 THEN <<>>
        ELSE upTo[n - 1] \o IF EndsRow(ps, bytes[n]) THEN << <<bytes[n][1], bytes[n][2]>> >>
                                                     ELSE <<>>
  IN  upTo[Len(bytes)]

(* Rows that are in the output as a whole make up a stream of tensors. *)
WholeRows == RowsIn(plans, out)

Stream == INSTANCE TensorStream WITH
  MaxTensors <- MaxPlans,
  sizes <- [k \in 1 .. begun |-> plans[k].rows],
  file <- WholeRows,
  state <- CASE at = "returned" -> "closed"
             [] at = "failed"   -> "failed"
             [] OTHER           -> "open"

(* The writer puts every row of every plan into the output once and in     *)
(* order, as write_tensor_payload of the converter does.                   *)
StreamSpec == Stream!Spec

=============================================================================
