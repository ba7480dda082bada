------------------------- MODULE SafetensorsSource -------------------------
(***************************************************************************)
(* What a conversion takes from its input: parse_safetensors_header and    *)
(* strip_prefix of conversion/safetensors.cpp, and detect_arch of          *)
(* cli/quantize/policy.cpp.  Sums and products have the width of the       *)
(* program's words.  The grammar of JSON is left out: a header is a        *)
(* sequence of entries, or it is refused.                                  *)
(*                                                                         *)
(* A name is the sequence of its parts between dots.                       *)
(***************************************************************************)
EXTENDS Integers, Sequences, FiniteSets

CONSTANTS
  HalfWord,      (* 2^63: as many numbers as int64_t has from 0 on         *)
  LengthBytes,   (* bytes of the header's length, at the file's beginning  *)
  Files,         (* [size; headerLength : what it states; entries]; an     *)
                 (* entry is [name; wellformed : are all members there, of *)
                 (* their kinds?; dtype, shape, begin, end]                *)
  DecoderGate,   (* the name that tells a decoder, whose names are whole   *)
  Templates      (* [arch; detect : sets of names; banned : names]         *)

(* The largest number of uint64_t. *)
MaxWord == 2 * HalfWord - 1

Word == 0 .. MaxWord

EntryType == [name : Seq(STRING), wellformed : BOOLEAN, dtype : STRING,
              shape : Seq(Word), begin : Word, end : Word]

SourceConstants ==
  /\ HalfWord \in Nat \ {0}
  /\ LengthBytes \in Nat \ {0}
  /\ DecoderGate \in Seq(STRING) \ {<<"__metadata__">>}
  /\ \A f \in Files :
       /\ {f.size, f.headerLength} \subseteq Word
       /\ f.entries \in Seq(EntryType)

-----------------------------------------------------------------------------
(* Arithmetic of words. *)

Add(a, b) == (a + b) % (MaxWord + 1)

(* No product. *)
Refused == -1

(* checked_mul_u64 *)
CheckedMul(a, b) == IF a # 0 /\ b > MaxWord \div a THEN Refused ELSE a * b

(* product_shape *)
Count(shape) ==
  LET upTo[i \in 0 .. Len(shape)] ==
        IF i = 0 THEN 1
        ELSE IF upTo[i - 1] = Refused \/ shape[i] = 0 THEN Refused
        ELSE CheckedMul(upTo[i - 1], shape[i])
  IN  upTo[Len(shape)]

(* source_dtype_size of the types that parse_source_dtype knows. *)
DtypeSize == [F32 |-> 4, F16 |-> 2, BF16 |-> 2]

-----------------------------------------------------------------------------
VARIABLES
  file,     (* [size, headerLength, entries]                               *)
  at,       (* "length", "entries", "naming", "detecting", "done" or       *)
            (* "failed"                                                    *)
  next,     (* the entry to look at next                                   *)
  tensors,  (* [key, source : its name in the file, shape, dtype, begin,   *)
            (* end : its bytes' place in the file]                         *)
  arch      (* the architecture found, or ""                               *)

vars == <<file, at, next, tensors, arch>>

Init ==
  /\ file \in Files
  /\ at = "length"
  /\ next = 1
  /\ tensors = <<>>
  /\ arch = ""

Fail ==
  /\ at' = "failed"
  /\ UNCHANGED <<file, next, tensors, arch>>

LengthIsPossible ==
  /\ file.size >= LengthBytes
  /\ file.headerLength <= file.size - LengthBytes

ReadHeader ==
  /\ at = "length"
  /\ LengthIsPossible
  /\ at' = "entries"
  /\ UNCHANGED <<file, next, tensors, arch>>

(* The length is wrong, the file cannot be read, or its header is no JSON  *)
(* object.                                                                 *)
RefuseHeader == at = "length" /\ Fail

DataStart == LengthBytes + file.headerLength

Entry == file.entries[next]

HasEntry == at = "entries" /\ next <= Len(file.entries)

SkipMetadata ==
  /\ HasEntry
  /\ Entry.name = <<"__metadata__">>
  /\ next' = next + 1
  /\ UNCHANGED <<file, at, tensors, arch>>

Bytes(e) == CheckedMul(Count(e.shape), DtypeSize[e.dtype])

Begin(e) == Add(DataStart, e.begin)

End(e) == Add(DataStart, e.end)

(* Mutant: only the difference is compared, which wraps.                   *)
RangeMatchesModulo(e) == End(e) = Add(Begin(e), Bytes(e))

RangeMatches(e) == End(e) >= Begin(e) /\ End(e) - Begin(e) = Bytes(e)

(* Every dimension fits int64_t and is positive, and neither the number of *)
(* elements nor that of bytes overflows.                                   *)
DimensionsFit(e) ==
  /\ \A i \in DOMAIN e.shape : e.shape[i] < HalfWord
  /\ Count(e.shape) # Refused
  /\ Bytes(e) # Refused

Acceptable(e) ==
  /\ e.wellformed
  /\ e.dtype \in DOMAIN DtypeSize
  /\ DimensionsFit(e)
  /\ RangeMatches(e)
  /\ End(e) <= file.size

AcceptTensor ==
  /\ HasEntry
  /\ Entry.name # <<"__metadata__">>
  /\ Acceptable(Entry)
  /\ tensors' = Append(tensors,
                  [key |-> Entry.name, source |-> Entry.name, shape |-> Entry.shape,
                   dtype |-> Entry.dtype, begin |-> Begin(Entry), end |-> End(Entry)])
  /\ next' = next + 1
  /\ UNCHANGED <<file, at, arch>>

RefuseTensor ==
  /\ HasEntry
  /\ Entry.name # <<"__metadata__">>
  /\ ~ Acceptable(Entry)
  /\ Fail

EndHeader ==
  /\ at = "entries"
  /\ next > Len(file.entries)
  /\ at' = "naming"
  /\ UNCHANGED <<file, next, tensors, arch>>

-----------------------------------------------------------------------------

HasPrefix(name, prefix) ==
  Len(name) > Len(prefix) /\ SubSeq(name, 1, Len(prefix)) = prefix

Strip(t, prefix) == [t EXCEPT !.key = SubSeq(@, Len(prefix) + 1, Len(@))]

Keys(ts) == {ts[i].key : i \in DOMAIN ts}

Some(ts, prefix) == \E i \in DOMAIN ts : HasPrefix(ts[i].key, prefix)

(* Tensors without the prefix are dropped. *)
Unwrapped(ts, prefix) ==
  LET upTo[i \in 0 .. Len(ts)] ==
        IF i = 0 THEN <<>>
        ELSE IF HasPrefix(ts[i].key, prefix) THEN Append(upTo[i - 1], Strip(ts[i], prefix))
        ELSE upTo[i - 1]
  IN  upTo[Len(ts)]

(* Mutant: the shorter prefix is tried first. *)
WrapperShortest(ts) ==
  CASE Some(ts, <<"model">>)                      -> <<"model">>
    [] OTHER                                      -> <<"model", "diffusion_model">>

(* The first of the two prefixes that any tensor has. *)
Wrapper(ts) ==
  CASE Some(ts, <<"model", "diffusion_model">>)   -> <<"model", "diffusion_model">>
    [] ~ Some(ts, <<"model", "diffusion_model">>) -> <<"model">>

(* strip_prefix *)
Named(ts) ==
  CASE DecoderGate \in Keys(ts) -> ts
    [] DecoderGate \notin Keys(ts) /\ Some(ts, <<"model">>) -> Unwrapped(ts, Wrapper(ts))
    [] /\ ~ Some(ts, <<"model">>) /\ DecoderGate \notin Keys(ts)
       /\ ts # <<>> /\ \A i \in DOMAIN ts : HasPrefix(ts[i].key, <<"net">>) ->
         Unwrapped(ts, <<"net">>)
    [] OTHER -> ts

StripPrefix ==
  /\ at = "naming"
  /\ tensors' = Named(tensors)
  /\ at' = "detecting"
  /\ UNCHANGED <<file, next, arch>>

Matches(template) == \E names \in template.detect : names \subseteq Keys(tensors)

Matching == {i \in DOMAIN Templates : Matches(Templates[i])}

(* The first template that matches. *)
Template == Templates[CHOOSE i \in Matching : \A j \in Matching : i <= j]

ArchIsAllowed == Matching # {} /\ Template.banned \intersect Keys(tensors) = {}

DetectArch ==
  /\ at = "detecting"
  /\ ArchIsAllowed
  /\ arch' = Template.arch
  /\ at' = "done"
  /\ UNCHANGED <<file, next, tensors>>

RefuseArch ==
  /\ at = "detecting"
  /\ ~ ArchIsAllowed
  /\ Fail

Next ==
  \/ ReadHeader
  \/ RefuseHeader
  \/ SkipMetadata
  \/ AcceptTensor
  \/ RefuseTensor
  \/ EndHeader
  \/ StripPrefix
  \/ DetectArch
  \/ RefuseArch

Spec == Init /\ [][Next]_vars

-----------------------------------------------------------------------------

(* Elements of a shape, in integers. *)
TrueCount(shape) ==
  LET upTo[i \in 0 .. Len(shape)] == IF i = 0 THEN 1 ELSE upTo[i - 1] * shape[i]
  IN  upTo[Len(shape)]

(* The bytes of a tensor that is accepted lie in the file, and are as many *)
(* as shape and type ask for - in integers, whatever sums and products of  *)
(* the header's words wrap.  All reads of the conversion rest on this; and *)
(* the number of elements can be cast to int64_t, as prepare_plans does,   *)
(* which no check asks for.                                                *)
AcceptedLiesInFile ==
  \A i \in DOMAIN tensors :
    LET t == tensors[i]
    IN  /\ t.end <= file.size
        /\ t.end - t.begin = TrueCount(t.shape) * DtypeSize[t.dtype]
        /\ t.begin <= t.end
        /\ TrueCount(t.shape) < HalfWord

(* Names that differ in the input differ in the output.                    *)
NamesStayDistinct ==
  (\A i, j \in DOMAIN file.entries :
     i # j => file.entries[i].name # file.entries[j].name)
  => \A i, j \in DOMAIN tensors : i # j => tensors[i].key # tensors[j].key

(* Of a checkpoint that wraps a diffusion model, beside other models,      *)
(* exactly the tensors of that model are converted, under the names they   *)
(* have in it.                                                             *)
WrappedModelIsTaken ==
  LET wrapper == <<"model", "diffusion_model">>
      names   == {file.entries[i].name : i \in DOMAIN file.entries}
      inside  == {name \in names : HasPrefix(name, wrapper)}
  IN  at = "done" /\ inside # {} /\ DecoderGate \notin names =>
        Keys(tensors) = {SubSeq(name, Len(wrapper) + 1, Len(name)) : name \in inside}

(* A decoder that is recognised keeps every tensor, also those whose name  *)
(* has no prefix.                                                          *)
DecoderStaysWhole ==
  at = "done" /\ DecoderGate \in {file.entries[i].name : i \in DOMAIN file.entries} =>
    Keys(tensors) = {file.entries[i].name : i \in DOMAIN file.entries} \ {<<"__metadata__">>}

(* What strip_prefix owes: no two names become one, a wrapped model is     *)
(* taken whole and alone, and a decoder is left as it is.                  *)
NamesAreKept == NamesStayDistinct /\ WrappedModelIsTaken /\ DecoderStaysWhole

=============================================================================
