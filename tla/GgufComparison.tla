--------------------------- MODULE GgufComparison ---------------------------
(***************************************************************************)
(* _compare_gguf of compare.py: inspect_gguf reads two files, which are    *)
(* then compared by descriptors, and, if asked, by metadata and by the     *)
(* bytes of their tensors.                                                 *)
(*                                                                         *)
(* A file's metadata is a sequence of items.  What is compared is what the *)
(* reader keeps of it: of a key that is repeated the last value and how    *)
(* often it was there, of an array its length and the first of its values. *)
(***************************************************************************)
EXTENDS Integers, Sequences, FiniteSets

CONSTANTS
  Tensors,          (* [name; fields : shape, type and size in bytes;      *)
                    (* known : is that size known?; payload; cut : does it *)
                    (* run over the end of the file?]                      *)
  Items,            (* metadata: [key, array, type, length, values], the   *)
                    (* type that of an array's values; length 1 if it is   *)
                    (* no array                                            *)
  SameValue(_, _),  (* do two values compare equal?  A NaN does with none, *)
                    (* 0.0 and -0.0 do                                     *)
  Comparisons       (* [left, right : files; metadata : --metadata;        *)
                    (* tensorBytes : --tensor-bytes; limit :               *)
                    (* max_array_values]                                   *)

GgufFiles == [tensors : Seq(Tensors), metadata : Seq(Items)]

All == -1  \* max_array_values is None

ComparisonConstants ==
  /\ \A item \in Items : item.length \in Nat
  /\ \A c \in Comparisons :
       c.left \in GgufFiles /\ c.right \in GgufFiles /\ c.limit \in Nat \union {All}

VARIABLES
  left, right,  (* the files                                               *)
  metadata,     (* the options                                             *)
  tensorBytes,
  limit,
  at,           (* "left" or "right": the file that is read;               *)
                (* "descriptors", "metadata", "bytes", "done" or "failed"  *)
  next,         (* the item of its metadata to read next                   *)
  kept,         (* of each file, GGUFFile.metadata: key -> value           *)
  counts,       (* of each file, metadata_key_counts                       *)
  differences   (* [kind, subject] of each difference                      *)

call == <<left, right, metadata, tensorBytes, limit>>

vars == <<call, at, next, kept, counts, differences>>

Sides == {"left", "right"}

File(side) == IF side = "left" THEN left ELSE right

Init ==
  /\ \E c \in Comparisons :
       /\ left = c.left /\ right = c.right
       /\ metadata = c.metadata /\ tensorBytes = c.tensorBytes /\ limit = c.limit
  /\ at = "left"
  /\ next = 1
  /\ kept = [side \in Sides |-> <<>>]
  /\ counts = [side \in Sides |-> <<>>]
  /\ differences = {}

(* keep *)
Kept(item) ==
  IF ~ item.array \/ limit = All \/ item.length <= limit THEN item.length ELSE limit

(* _read_value *)
Value(item) ==
  [array |-> item.array, type |-> item.type, length |-> item.length,
   truncated |-> Kept(item) < item.length,
   values |-> [n \in 1 .. Kept(item) |-> item.values[n]]]

(* d[key] = value *)
Put(d, key, value) ==
  [k \in DOMAIN d \union {key} |-> IF k = key THEN value ELSE d[k]]

(* metadata_key_counts.get(key, 0) *)
CountOf(side, key) == IF key \in DOMAIN counts[side] THEN counts[side][key] ELSE 0

(* Mutant: of a key that is repeated, the first value is kept. *)
KeepFirst(d, item) == IF item.key \in DOMAIN d THEN d ELSE Put(d, item.key, Value(item))

(* metadata[key] = value *)
Keep(d, item) == Put(d, item.key, Value(item))

ReadItem ==
  /\ at \in Sides
  /\ next <= Len(File(at).metadata)
  /\ LET item == File(at).metadata[next]
     IN  /\ kept' = [kept EXCEPT ![at] = Keep(kept[at], item)]
         /\ counts' = [counts EXCEPT ![at] = Put(counts[at], item.key, CountOf(at, item.key) + 1)]
  /\ next' = next + 1
  /\ UNCHANGED <<call, at, differences>>

EndOfMetadata ==
  /\ at \in Sides
  /\ next > Len(File(at).metadata)
  /\ at' = IF at = "left" THEN "right" ELSE "descriptors"
  /\ next' = 1
  /\ UNCHANGED <<call, kept, counts, differences>>

-----------------------------------------------------------------------------
Difference(kind, subject) == [kind |-> kind, subject |-> subject]

Names(file) == [i \in DOMAIN file.tensors |-> file.tensors[i].name]

Descriptor(t) == [fields |-> t.fields, known |-> t.known]

(* The tensors that stand at one place in both files, as far as both go,   *)
(* and have one name there.                                                *)
Paired ==
  {i \in DOMAIN left.tensors \intersect DOMAIN right.tensors :
     left.tensors[i].name = right.tensors[i].name}

CompareDescriptors ==
  /\ at = "descriptors"
  /\ differences' =
       (IF Names(left) # Names(right) THEN {Difference("tensor_order", "")} ELSE {})
       \union
       {Difference("tensor_fields", left.tensors[i].name) :
          i \in {j \in Paired : Descriptor(left.tensors[j]) # Descriptor(right.tensors[j])}}
  /\ at' = "metadata"
  /\ UNCHANGED <<call, next, kept, counts>>

Keys == DOMAIN kept["left"] \union DOMAIN kept["right"]

(* Dictionaries of GGUFMetadataValue.to_dict are equal. *)
SameAsKept(v, w) ==
  /\ v.array = w.array /\ v.type = w.type
  /\ v.length = w.length /\ v.truncated = w.truncated
  /\ DOMAIN v.values = DOMAIN w.values
  /\ \A n \in DOMAIN v.values : SameValue(v.values[n], w.values[n])

(* What get finds in both, or in neither. *)
FoundTheSame(key) ==
  /\ key \in DOMAIN kept["left"] <=> key \in DOMAIN kept["right"]
  /\ key \in DOMAIN kept["left"] => SameAsKept(kept["left"][key], kept["right"][key])

CompareMetadata ==
  /\ at = "metadata"
  /\ differences' = differences \union
       IF metadata
         THEN {Difference("metadata_value", key) : key \in {k \in Keys : ~ FoundTheSame(k)}}
              \union
              {Difference("metadata_duplicate_count", key) :
                 key \in {k \in Keys : CountOf("left", k) # CountOf("right", k)}}
         ELSE {}
  /\ at' = "bytes"
  /\ UNCHANGED <<call, next, kept, counts>>

Named(file, name) == {i \in DOMAIN file.tensors : file.tensors[i].name = name}

AllNames(file) == {file.tensors[i].name : i \in DOMAIN file.tensors}

(* _unique_tensors_by_name *)
Unique(file) == {name \in AllNames(file) : Cardinality(Named(file, name)) = 1}

(* _duplicate_tensor_names of either file. *)
Duplicates ==
  (AllNames(left) \ Unique(left)) \union (AllNames(right) \ Unique(right))

The(file, name) == file.tensors[CHOOSE i \in Named(file, name) : TRUE]

Candidates == (Unique(left) \intersect Unique(right)) \ Duplicates

Comparable ==
  {name \in Candidates :
     /\ Descriptor(The(left, name)) = Descriptor(The(right, name))
     /\ The(left, name).known}

(* Mutant: what cannot be compared is passed over. *)
SkippedNone == {}

Skipped == Duplicates \union (Candidates \ Comparable)

IsReadable(name) == ~ The(left, name).cut /\ ~ The(right, name).cut

CompareBytes ==
  /\ at = "bytes"
  /\ tensorBytes => \A name \in Comparable : IsReadable(name)
  /\ differences' = differences \union
       IF tensorBytes
         THEN {Difference("tensor_bytes_skipped", name) : name \in Skipped}
              \union
              {Difference("tensor_bytes", name) :
                 name \in {n \in Comparable : The(left, n).payload # The(right, n).payload}}
         ELSE {}
  /\ at' = "done"
  /\ UNCHANGED <<call, next, kept, counts>>

(* A payload that runs over the end of its file ends the comparison. *)
ReadFails ==
  /\ at = "bytes"
  /\ tensorBytes
  /\ \E name \in Comparable : ~ IsReadable(name)
  /\ at' = "failed"
  /\ UNCHANGED <<call, next, kept, counts, differences>>

Next ==
  \/ ReadItem
  \/ EndOfMetadata
  \/ CompareDescriptors
  \/ CompareMetadata
  \/ CompareBytes
  \/ ReadFails

Spec == Init /\ [][Next]_vars

-----------------------------------------------------------------------------
(* The same names in the same order, with the same descriptors. *)
SameTensors ==
  /\ DOMAIN left.tensors = DOMAIN right.tensors
  /\ \A i \in DOMAIN left.tensors :
       /\ left.tensors[i].name = right.tensors[i].name
       /\ Descriptor(left.tensors[i]) = Descriptor(right.tensors[i])

(* Every name stands for one payload, which can be told and is the same.   *)
SamePayloads ==
  \A i \in DOMAIN left.tensors :
    /\ \A j \in DOMAIN left.tensors : left.tensors[i].name = left.tensors[j].name => i = j
    /\ left.tensors[i].known
    /\ left.tensors[i].payload = right.tensors[i].payload

Places(file, key) == {i \in DOMAIN file.metadata : file.metadata[i].key = key}

LastOfKey(file, i) ==
  \A j \in Places(file, file.metadata[i].key) : j <= i

(* Two items of which one reader cannot tell the values apart: arrays      *)
(* beyond the limit differ in their lengths only.                          *)
Alike(l, r) ==
  /\ l.array = r.array /\ l.type = r.type /\ l.length = r.length
  /\ \A n \in 1 .. Kept(l) : SameValue(l.values[n], r.values[n])

(* Each key is there as often, and its last items are alike.               *)
SameMetadata ==
  /\ \A file \in {left, right} : \A i \in DOMAIN file.metadata :
       LET key == file.metadata[i].key
       IN  Cardinality(Places(left, key)) = Cardinality(Places(right, key))
  /\ \A i \in DOMAIN left.metadata, j \in DOMAIN right.metadata :
       LET l == left.metadata[i]
           r == right.metadata[j]
       IN  l.key = r.key /\ LastOfKey(left, i) /\ LastOfKey(right, j) => Alike(l, r)

(* No difference is reported exactly of files that have the same           *)
(* descriptors in the same order and, as far as it was asked for, the same *)
(* payloads and the same metadata.  What could not be compared is never    *)
(* taken to be the same.  The same metadata it is but for earlier values   *)
(* of a repeated key and for values of an array beyond the limit; and not  *)
(* even a file is the same as itself if it has a NaN, a repeated name or a *)
(* payload of unknown size among what was asked for.                       *)
ComparisonIsExact ==
  at = "done" =>
    (differences = {} <=>
       /\ SameTensors
       /\ tensorBytes => SamePayloads
       /\ metadata => SameMetadata)

=============================================================================
