--------------------------- MODULE GgufValidation ---------------------------
(***************************************************************************)
(* validate_gguf of inspect.py: what it says of a file, tensor by tensor   *)
(* and then range by range in the order of their places.                   *)
(*                                                                         *)
(* Shapes are in the order of the file, the width of a row first.          *)
(***************************************************************************)
EXTENDS Integers, Sequences, FiniteSets, SequencesExt

CONSTANTS
  Specs,        (* types that are known -> [block, bytes] of a block       *)
  Descriptors,  (* [name : a number, shape, type, offset]                  *)
  MaxTensors,   (* most tensors of a file; bounds the instance             *)
  Alignment,    (* general.alignment                                       *)
  HeaderEnd,    (* where the descriptors end                               *)
  Passed,       (* bytes at the end of the header that are passed unread   *)
  Sizes         (* sizes that the file has                                 *)

ValidationConstants ==
  /\ \A t \in DOMAIN Specs : Specs[t].block \in Nat \ {0} /\ Specs[t].bytes \in Nat \ {0}
  /\ \A d \in Descriptors : d.name \in Nat /\ d.shape \in Seq(Nat) /\ d.offset \in Nat
  /\ Alignment \in Nat \ {0}
  /\ HeaderEnd \in Nat
  /\ Passed \subseteq 0 .. HeaderEnd
  /\ Sizes \subseteq Nat

Unknown == -1

(* _align_offset *)
AlignOffset(offset) ==
  IF offset % Alignment = 0 THEN offset ELSE offset + Alignment - (offset % Alignment)

Product(numbers) ==
  LET upTo[i \in 0 .. Len(numbers)] == IF i = 0 THEN 1 ELSE upTo[i - 1] * numbers[i]
  IN  upTo[Len(numbers)]

RowWidth(shape) == IF shape = <<>> THEN 1 ELSE shape[1]

(* _tensor_nbytes *)
Nbytes(shape, type) ==
  IF type \in DOMAIN Specs /\ RowWidth(shape) % Specs[type].block = 0
    THEN Product(SubSeq(shape, 2, Len(shape)))
           * (RowWidth(shape) \div Specs[type].block) * Specs[type].bytes
    ELSE Unknown

-----------------------------------------------------------------------------
VARIABLES
  tensors,   (* the descriptors of the file                                *)
  size,      (* its size                                                   *)
  skipped,   (* bytes of the header's end that _skip_array_values passes   *)
             (* by a seek: some, if the header ends with the numbers of an *)
             (* array longer than max_array_values, as no descriptors come *)
  at,        (* "reading", "naming", "checking", "sweeping" or "done"      *)
  next,      (* the tensor, or the place in the order, to look at next     *)
  known,     (* known_ranges: tensors whose bytes are known                *)
  previous,  (* previous_range: a tensor, or 0                             *)
  issues     (* [code, tensor], 0 for the file                             *)

vars == <<tensors, size, skipped, at, next, known, previous, issues>>

Init ==
  /\ tensors \in UNION {[1 .. n -> Descriptors] : n \in 0 .. MaxTensors}
  /\ size \in Sizes
  /\ skipped \in Passed
  /\ tensors # <<>> => skipped = 0
  /\ at = "reading"
  /\ next = 1
  /\ known = <<>>
  /\ previous = 0
  /\ issues = {}

Issue(code, i) == [code |-> code, tensor |-> i]

Start(i) == AlignOffset(HeaderEnd) + tensors[i].offset

Length(i) == Nbytes(tensors[i].shape, tensors[i].type)

End(i) == Start(i) + Length(i)

(* How far the file is read.  A seek beyond the end of a file succeeds,    *)
(* and only reading on fails.                                              *)
ReadEnd == HeaderEnd - skipped

(* What is read of the header is cut: inspect_gguf raises the only issue   *)
(* there is.                                                               *)
RefuseHeader ==
  /\ at = "reading"
  /\ size < ReadEnd
  /\ issues' = {Issue("truncated", 0)}
  /\ at' = "done"
  /\ UNCHANGED <<tensors, size, skipped, next, known, previous>>

ReadHeader ==
  /\ at = "reading"
  /\ size >= ReadEnd
  /\ at' = "naming"
  /\ UNCHANGED <<tensors, size, skipped, next, known, previous, issues>>

SameName(i) == \E j \in DOMAIN tensors : j < i /\ tensors[j].name = tensors[i].name

(* Which tensor stands for a name that appears twice is of no interest. *)
CheckNames ==
  /\ at = "naming"
  /\ issues' = issues \union
       {Issue("duplicate_name", i) : i \in {j \in DOMAIN tensors : SameName(j)}}
  /\ at' = "checking"
  /\ UNCHANGED <<tensors, size, skipped, next, known, previous>>

Found(conditions, i) == {Issue(code, i) : code \in {c \in DOMAIN conditions : conditions[c]}}

ShapeIssues(i) ==
  Found([shape_invalid    |-> \E d \in DOMAIN tensors[i].shape : tensors[i].shape[d] = 0,
         offset_alignment |-> tensors[i].offset % Alignment # 0], i)

(* Mutant: a range is too long only if it begins behind the end. *)
RangeIssuesAtStart(i) ==
  Found([payload_range |-> Start(i) > size,
         offset_order  |-> known # <<>> /\ Start(i) < Start(Last(known))], i)

RangeIssues(i) ==
  Found([payload_range |-> End(i) > size,
         offset_order  |-> known # <<>> /\ Start(i) < Start(Last(known))], i)

HasTensor == at = "checking" /\ next <= Len(tensors)

(* A type, or a row, whose size is unknown is a warning, and ends the      *)
(* checks of the tensor.                                                   *)
CheckUnknown ==
  /\ HasTensor
  /\ Length(next) = Unknown
  /\ issues' = issues \union ShapeIssues(next)
       \union {Issue(IF tensors[next].type \in DOMAIN Specs THEN "row_width" ELSE "type_unknown",
                     next)}
  /\ next' = next + 1
  /\ UNCHANGED <<tensors, size, skipped, at, known, previous>>

CheckKnown ==
  /\ HasTensor
  /\ Length(next) # Unknown
  /\ issues' = issues \union ShapeIssues(next) \union RangeIssues(next)
  /\ known' = Append(known, next)
  /\ next' = next + 1
  /\ UNCHANGED <<tensors, size, skipped, at, previous>>

(* The order of places, ends and names. *)
Before(i, j) ==
  \/ Start(i) < Start(j)
  \/ Start(i) = Start(j) /\ End(i) < End(j)
  \/ /\ Start(i) = Start(j) /\ End(i) = End(j)
     /\ \/ tensors[i].name < tensors[j].name
        \/ tensors[i].name = tensors[j].name /\ i < j

InOrderOfPlaces(order) == \A m, n \in DOMAIN order : m < n => Before(order[m], order[n])

(* The order is strict: what is sorted holds each of them once. *)
SortRanges ==
  /\ at = "checking"
  /\ next > Len(tensors)
  /\ known' \in {order \in [DOMAIN known -> ToSet(known)] : InOrderOfPlaces(order)}
  /\ next' = 1
  /\ at' = "sweeping"
  /\ UNCHANGED <<tensors, size, skipped, previous, issues>>

HasRange == at = "sweeping" /\ next <= Len(known)

(* Mutant: the range before is kept, not the one that reaches furthest. *)
FurthestLast(i) == i

Furthest(i) == IF previous = 0 \/ End(i) > End(previous) THEN i ELSE previous

SweepRange ==
  /\ HasRange
  /\ LET i == known[next]
     IN  /\ issues' = issues \union
              Found([overlap |-> previous # 0 /\ Start(i) < End(previous)], i)
         /\ previous' = Furthest(i)
  /\ next' = next + 1
  /\ UNCHANGED <<tensors, size, skipped, at, known>>

Finish ==
  /\ at = "sweeping"
  /\ next > Len(known)
  /\ at' = "done"
  /\ UNCHANGED <<tensors, size, skipped, next, known, previous, issues>>

Next ==
  \/ RefuseHeader
  \/ ReadHeader
  \/ CheckNames
  \/ CheckUnknown
  \/ CheckKnown
  \/ SortRanges
  \/ SweepRange
  \/ Finish

Spec == Init /\ [][Next]_vars

Warnings == {"type_unknown", "row_width", "offset_order"}

(* GGUFValidationResult.ok *)
Ok == \A issue \in issues : issue.code \in Warnings

-----------------------------------------------------------------------------

Meet(i, j) == Start(i) < End(j) /\ Start(j) < End(i)

(* The sweep names exactly the tensors that share a byte with one before   *)
(* them, or are empty and lie inside it, also when that one is not the     *)
(* last before.                                                            *)
OverlapsAreNamed ==
  at = "done" /\ size >= ReadEnd =>
    {issue.tensor : issue \in {x \in issues : x.code = "overlap"}}
      = {i \in ToSet(known) : \E j \in ToSet(known) \ {i} : Before(j, i) /\ Meet(j, i)}

(* Of a file without errors, every tensor whose size is known can be read, *)
(* and no byte belongs to two of those.  Of one whose size is unknown it   *)
(* says nothing: its payload need not be there.                            *)
OkMeansReadable ==
  at = "done" /\ Ok =>
    /\ \A i \in ToSet(known) : Start(i) >= HeaderEnd /\ End(i) <= size
    /\ \A i, j \in ToSet(known) : i # j => ~ Meet(i, j)
    /\ \A i, j \in DOMAIN tensors : i # j => tensors[i].name # tensors[j].name

(* A file with tensors that is reported without any issue, warnings        *)
(* included, is whole, whoever wrote it.                                   *)
NoIssueMeansWhole ==
  at = "done" /\ issues = {} /\ tensors # <<>> =>
    /\ \A i \in DOMAIN tensors :
         Length(i) # Unknown /\ Start(i) >= HeaderEnd /\ End(i) <= size
    /\ \A i, j \in DOMAIN tensors : i # j => ~ Meet(i, j)

(* Where the converter's write_gguf_metadata lets tensor i end, and pads.  *)
Written ==
  LET upTo[i \in 0 .. Len(tensors)] ==
        IF i = 0 THEN 0 ELSE upTo[i - 1] + AlignOffset(Length(i))
  IN  upTo

(* The only arrays that it writes are original shapes of tensors.          *)
WrittenByConverter ==
  /\ skipped = 0
  /\ \A i \in DOMAIN tensors :
       /\ Length(i) > 0
       /\ tensors[i].offset = Written[i - 1]
  /\ \A i, j \in DOMAIN tensors : i # j => tensors[i].name # tensors[j].name

(* A file that the converter laid out is accepted exactly if it is there   *)
(* up to the last byte of the last payload: a conversion that failed or    *)
(* was stopped is told from one that succeeded.                            *)
CutIsNoticed ==
  at = "done" /\ WrittenByConverter =>
    (Ok <=> size >= HeaderEnd /\ \A i \in DOMAIN tensors : End(i) <= size)

(* What a report vouches for: of any file, the payloads whose size is      *)
(* known; all of them, if there are no warnings either; and of a file that *)
(* the converter wrote, every byte.                                        *)
ReportsVouch == OkMeansReadable /\ NoIssueMeansWhole /\ CutIsNoticed

=============================================================================
