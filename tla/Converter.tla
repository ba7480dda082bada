------------------------------ MODULE Converter ------------------------------
(***************************************************************************)
(* One conversion, convert() of conversion/converter.cpp, and the layout   *)
(* its output gets from conversion/writer.cpp: a header that names the     *)
(* offset of every tensor before any tensor has been encoded, and the      *)
(* tensors, each aligned and padded.  A reader finds a tensor at the first *)
(* aligned place after the header plus the offset.                         *)
(*                                                                         *)
(* A chunk of a tensor is one step here, whichever way it is encoded: the  *)
(* threads behind a native chunk are modelled in CpuQuantizerPool, those   *)
(* behind a generic one in ForkJoin, and the device in GpuPipeline.        *)
(***************************************************************************)
EXTENDS Integers, Sequences, FiniteSets

CONSTANTS
  Tensors,      (* plans: [type : qtype, copied : the source has that type, *)
                (* rows, rowBytes, workBytes : row_work_bytes, deviceBytes  *)
                (* : device_row_bytes]                                      *)
  MaxTensors,   (* most tensors of a file; bounds the instance              *)
  HeaderSizes,  (* bytes of the header                                      *)
  Options,      (* the command line, see OptionsType                        *)
  ShortWrites   (* how many bytes fwrite may stop after; bounds the instance*)

Backends == {"cpu", "gpu", "auto"}

(* verifyFirst is verify_gpu_tensors; the constant for "all" is a number   *)
(* no conversion exhausts, and is not counted down.                        *)
All == -1

OptionsType ==
  [backend : Backends, fallback : BOOLEAN, overwrite : BOOLEAN,
   verifyFirst : Nat \union {All}, verifyLarge : Nat, verifyRandom : Nat,
   scratch : Nat \ {0}, vram : Nat]

TypeIsQuantized(t) == t.type \notin {"F32", "F16", "BF16"}

ASSUME ConverterAssumption ==
  /\ \A t \in Tensors :
       /\ t.copied \in BOOLEAN
       /\ t.copied => ~ TypeIsQuantized(t)
       /\ t.rows \in Nat \ {0}
       /\ t.rowBytes \in Nat \ {0}
       /\ t.workBytes \in Nat \ {0}
       /\ t.deviceBytes \in Nat \ {0}
  /\ MaxTensors \in Nat
  /\ HeaderSizes \subseteq Nat
  /\ Options \subseteq OptionsType
  /\ ShortWrites \subseteq Nat \ {0}

-----------------------------------------------------------------------------
(* gguf_pad with GGUF_DEFAULT_ALIGNMENT *)
Pad(n) == ((n + 31) \div 32) * 32

MinOf(a, b) == IF a <= b THEN a ELSE b

MaxOf(a, b) == IF a >= b THEN a ELSE b

Nbytes(t) == t.rows * t.rowBytes

-----------------------------------------------------------------------------
VARIABLES
  at,         (* where convert() is                                        *)
  options,    (* its options                                               *)
  plans,      (* what prepare_plans has planned                            *)
  header,     (* bytes of the header                                       *)
  gpu,        (* is there a gpu_ctx?                                       *)
  selected,   (* verify_gpu_selected_keys                                  *)
  remaining,  (* verify_gpu_remaining                                      *)
  offsets,    (* the offsets in the header, as far as it is composed       *)
  offset,     (* the next one                                              *)
  begins,     (* where the payload of each tensor begun so far begins      *)
  done,       (* bytes of the current tensor's payload handed to writes    *)
  unwritten,  (* bytes of them that write_all_file has still to write      *)
  encoders,   (* history: how each tensor begun was encoded                *)
  verified,   (* history: the tensors compared with the CPU's encoding     *)
  pos,        (* the position in the output file                           *)
  disk        (* what is at the output path                                *)

request == <<options, plans, header>>
gpuVars == <<gpu, selected, remaining>>
layout == <<offsets, offset, begins>>
progress == <<done, unwritten, encoders, verified>>
vars == <<at, request, gpuVars, layout, progress, pos, disk>>

(* converter_auto_prefers_gpu_qtype *)
AutoPrefersGpu(t) == t.type \in {"Q2_K", "Q3_K", "Q4_K", "Q5_K", "Q6_K"}

(* gpu_quantizer::supports *)
GpuSupports(t) == AutoPrefersGpu(t) \/ t.type \in {"Q4_0", "Q8_0"}

RequestsGpu(t) ==
  /\ TypeIsQuantized(t)
  /\ options.backend = "gpu" \/ (options.backend = "auto" /\ AutoPrefersGpu(t))

UsesGpu(t) == RequestsGpu(t) /\ gpu /\ GpuSupports(t)

Init ==
  /\ at = "start"
  /\ options \in Options
  /\ plans \in UNION {[1 .. n -> Tensors] : n \in 0 .. MaxTensors}
  /\ header \in HeaderSizes
  /\ gpu = FALSE
  /\ selected = {}
  /\ remaining = options.verifyFirst
  /\ offsets = <<>>
  /\ offset = 0
  /\ begins = <<>>
  /\ done = 0
  /\ unwritten = 0
  /\ encoders = <<>>
  /\ verified = {}
  /\ pos = 0
  /\ disk \in {"absent", "old"}

-----------------------------------------------------------------------------
(* Before the output is touched. *)

(* The output exists, or the input cannot be read or planned. *)
Reject ==
  /\ at = "start"
  /\ at' = "failed"
  /\ UNCHANGED <<request, gpuVars, layout, progress, pos, disk>>

(* Mutant: whether the output exists is not asked. *)
MayWriteAlways == TRUE

MayWrite == disk = "old" => options.overwrite

Accept ==
  /\ at = "start"
  /\ MayWrite
  /\ at' = "gpu"
  /\ UNCHANGED <<request, gpuVars, layout, progress, pos, disk>>

NeedsGpu ==
  \/ options.backend = "gpu"
  \/ options.backend = "auto" /\ \E i \in DOMAIN plans :
                                   TypeIsQuantized(plans[i]) /\ AutoPrefersGpu(plans[i])

(* No device: fatal only if one was demanded. *)
CreateGpu ==
  /\ at = "gpu"
  /\ gpu' \in IF NeedsGpu THEN BOOLEAN ELSE {FALSE}
  /\ at' = IF options.backend = "gpu" /\ ~ gpu' THEN "failed" ELSE "select"
  /\ UNCHANGED <<request, selected, remaining, layout, progress, pos, disk>>

Candidates == {i \in DOMAIN plans : UsesGpu(plans[i])}

(* By size; equal sizes are ordered by key, here by place. *)
Larger(i, j) ==
  \/ Nbytes(plans[i]) > Nbytes(plans[j])
  \/ Nbytes(plans[i]) = Nbytes(plans[j]) /\ i < j

Largest(n) == {i \in Candidates : Cardinality({j \in Candidates : Larger(j, i)}) < n}

(* select_gpu_verification_tensor_keys *)
Select ==
  /\ at = "select"
  /\ \E random \in SUBSET Candidates :
       /\ Cardinality(random) = MinOf(options.verifyRandom, Cardinality(Candidates))
       /\ selected' = Largest(options.verifyLarge) \union random
  /\ at' = "open"
  /\ UNCHANGED <<request, gpu, remaining, layout, progress, pos, disk>>

-----------------------------------------------------------------------------
(* The header. *)

(* fopen(dst, "wb"): what was there is gone. *)
Open ==
  /\ at = "open"
  /\ at' = "header"
  /\ disk' = "partial"
  /\ UNCHANGED <<request, gpuVars, layout, progress, pos>>

SpaceOf(t) == Pad(Nbytes(t))

(* A turn of the loop over the tensors in write_gguf_metadata. *)
DescribeTensor ==
  /\ at = "header"
  /\ Len(offsets) < Len(plans)
  /\ offsets' = Append(offsets, offset)
  /\ offset' = offset + SpaceOf(plans[Len(offsets) + 1])
  /\ UNCHANGED <<at, request, gpuVars, begins, progress, pos, disk>>

WriteHeader ==
  /\ at = "header"
  /\ Len(offsets) = Len(plans)
  /\ pos' = header
  /\ at' = "tensor"
  /\ UNCHANGED <<request, gpuVars, layout, progress, disk>>

-----------------------------------------------------------------------------
(* The tensors: write_tensor_payload *)

Current == plans[Len(begins)]

VerifyFirst(t) == UsesGpu(t) /\ remaining # 0

(* Mutant: a GPU type of a demanded GPU quietly falls back to the CPU. *)
RefusedNever(t) == FALSE

Refused(t) ==
  /\ options.backend = "gpu" /\ ~ options.fallback
  /\ RequestsGpu(t) /\ ~ UsesGpu(t)

Verified(i) == VerifyFirst(plans[i]) \/ (UsesGpu(plans[i]) /\ i \in selected)

Encoder(t) ==
  CASE t.copied                            -> "copy"
    [] UsesGpu(t)                          -> "gpu"
    [] TypeIsQuantized(t) /\ ~ UsesGpu(t)  -> "native"
    [] OTHER                               -> "generic"

(* Mutant: no padding before a tensor. *)
TensorPositionBare == pos

(* write_pre_tensor_padding *)
TensorPosition == Pad(pos)

(* The padding before the tensor comes before any check of its type. *)
BeginTensor ==
  LET next == Len(begins) + 1
      t    == plans[next]
  IN  /\ at = "tensor"
      /\ next <= Len(plans)
      /\ pos' = TensorPosition
      /\ IF Refused(t)
           THEN /\ at' = "failed"
                /\ UNCHANGED <<begins, done, encoders, verified>>
           ELSE /\ at' = "payload"
                /\ begins' = Append(begins, TensorPosition)
                /\ done' = 0
                /\ encoders' = Append(encoders, Encoder(t))
                /\ verified' = IF Verified(next)
                                 THEN verified \union {next} ELSE verified
      /\ UNCHANGED <<request, gpuVars, offsets, offset, unwritten, disk>>

(* Rows per chunk: as many as the scratch memory holds, or the device's    *)
(* memory if it is limited, but at least one.                              *)
RowsPerChunk(t) ==
  LET budget == IF Encoder(t) = "gpu" /\ options.vram > 0
                  THEN options.vram \div t.deviceBytes
                  ELSE options.scratch \div t.workBytes
  IN  MinOf(MaxOf(budget, 1), t.rows)

ChunkBytes(t) ==
  IF t.copied THEN MaxOf(1, MinOf(options.scratch, Nbytes(t)))
              ELSE RowsPerChunk(t) * t.rowBytes

NextBytes(t) == MinOf(ChunkBytes(t), Nbytes(t) - done)

(* A turn of the loop over chunks: read, encoded, handed to                *)
(* write_all_file.                                                         *)
EncodeChunk ==
  /\ at = "payload"
  /\ unwritten = 0
  /\ done < Nbytes(Current)
  /\ done' = done + NextBytes(Current)
  /\ unwritten' = NextBytes(Current)
  /\ UNCHANGED <<at, request, gpuVars, layout, encoders, verified, pos, disk>>

(* Mutant: write_all_file is content with a short write. *)
StillUnwrittenNone(n) == 0

StillUnwritten(n) == unwritten - n

(* A turn of the loop in write_all_file: fwrite takes all it is given, or  *)
(* less.                                                                   *)
WriteSome ==
  /\ at = "payload"
  /\ unwritten > 0
  /\ \E n \in {unwritten} \union {k \in ShortWrites : k < unwritten} :
       /\ pos' = pos + n
       /\ unwritten' = StillUnwritten(n)
  /\ UNCHANGED <<at, request, gpuVars, layout, done, encoders, verified, disk>>

(* Mutant: every tensor uses up one of the verifications. *)
RemainingSpent(t) == IF remaining > 0 THEN remaining - 1 ELSE remaining

RemainingAfter(t) ==
  IF VerifyFirst(t) /\ remaining # All THEN remaining - 1 ELSE remaining

EndTensor ==
  /\ at = "payload"
  /\ unwritten = 0
  /\ done >= Nbytes(Current)
  /\ remaining' = RemainingAfter(Current)
  /\ pos' = pos + (Pad(Nbytes(Current)) - Nbytes(Current))
  /\ at' = "tensor"
  /\ UNCHANGED <<request, gpu, selected, layout, progress, disk>>

Close ==
  /\ at = "tensor"
  /\ Len(begins) = Len(plans)
  /\ at' = "closed"
  /\ disk' = "complete"
  /\ UNCHANGED <<request, gpuVars, layout, progress, pos>>

(* Opening, reading, encoding, verifying, writing or closing fails.        *)
(* Nothing is deleted.                                                     *)
Fail ==
  /\ at \in {"open", "header", "tensor", "payload"}
  /\ at' = "failed"
  /\ UNCHANGED <<request, gpuVars, layout, progress, pos, disk>>

Next ==
  \/ Reject
  \/ Accept
  \/ CreateGpu
  \/ Select
  \/ Open
  \/ DescribeTensor
  \/ WriteHeader
  \/ BeginTensor
  \/ EncodeChunk
  \/ WriteSome
  \/ EndTensor
  \/ Close
  \/ Fail

Spec == Init /\ [][Next]_vars

-----------------------------------------------------------------------------
(* The types of the variables; the payload never runs over its size.       *)
TypeOK ==
  /\ at \in {"start", "gpu", "select", "open", "header", "tensor", "payload",
             "closed", "failed"}
  /\ options \in Options
  /\ plans \in Seq(Tensors)
  /\ header \in Nat
  /\ gpu \in BOOLEAN
  /\ selected \subseteq DOMAIN plans
  /\ remaining \in Nat \union {All}
  /\ offsets \in Seq(Nat) /\ Len(offsets) <= Len(plans)
  /\ offset \in Nat
  /\ begins \in Seq(Nat) /\ Len(begins) <= Len(plans)
  /\ done \in Nat
  /\ unwritten \in 0 .. done
  /\ at = "payload" => done <= Nbytes(Current)
  /\ encoders \in Seq({"copy", "gpu", "native", "generic"})
  /\ verified \subseteq DOMAIN plans
  /\ pos \in Nat
  /\ disk \in {"absent", "old", "partial", "complete"}

(* Every payload lies where the header, written before it, tells a reader  *)
(* to look for it.                                                         *)
PayloadIsWhereHeaderSays ==
  \A i \in DOMAIN begins : begins[i] = Pad(header) + offsets[i]

(* A conversion that succeeds has written every tensor: the file ends      *)
(* where the next tensor would begin.                                      *)
SuccessIsComplete ==
  at = "closed" =>
    /\ Len(begins) = Len(plans)
    /\ plans # <<>> => pos = Pad(header) + offset

(* The first verify_gpu_tensors of the tensors the GPU encodes are         *)
(* verified, whatever other tensors lie between them, and so are the       *)
(* verify_gpu_large_tensors largest.                                       *)
VerifiedAsAsked ==
  \A i \in DOMAIN begins \ verified :
    encoders[i] = "gpu" =>
      /\ options.verifyFirst # All
      /\ Cardinality({j \in verified : j < i}) >= options.verifyFirst
      /\ Cardinality({j \in Candidates : Larger(j, i)}) >= options.verifyLarge

(* Who demands the GPU without a fallback does not get a tensor that the   *)
(* CPU has quantized.                                                      *)
GpuMeansGpu ==
  options.backend = "gpu" /\ ~ options.fallback =>
    \A i \in DOMAIN encoders : encoders[i] # "native"

(* A file that was there before is only given up if the command line says  *)
(* so, and not before the input has been planned and the device it needs   *)
(* created: every earlier failure leaves it alone.                         *)
OldOutputIsKept ==
  [][disk = "old" /\ disk' # "old" => options.overwrite /\ at = "open"]_vars

-----------------------------------------------------------------------------
(* The inductive invariant behind the layout. *)

Aligned(n) == n % 32 = 0

(* Where the header puts what follows tensor i. *)
OffsetAfter(i) == IF i < Len(offsets) THEN offsets[i + 1] ELSE offset

HeaderInv ==
  /\ Aligned(offset)
  /\ offsets = <<>> => offset = 0
  /\ \A i \in DOMAIN offsets :
       /\ Aligned(offsets[i])
       /\ i = 1 => offsets[i] = 0
       /\ OffsetAfter(i) = offsets[i] + Pad(Nbytes(plans[i]))

Composed == Len(offsets) = Len(plans)

PositionInv ==
  /\ at \in {"start", "gpu", "select", "open", "header"} => begins = <<>>
  /\ at \in {"tensor", "payload", "closed"} => Composed
  /\ begins # <<>> => Composed
  /\ at = "payload" => begins # <<>> /\ pos = begins[Len(begins)] + done - unwritten
  /\ at \notin {"payload", "failed"} => unwritten = 0
  /\ at \in {"tensor", "closed"} =>
       pos = IF begins = <<>> THEN header
             ELSE begins[Len(begins)] + Pad(Nbytes(Current))
  /\ at = "closed" => Len(begins) = Len(plans)

LayoutInv ==
  /\ TypeOK
  /\ HeaderInv
  /\ PositionInv
  /\ PayloadIsWhereHeaderSays

=============================================================================
