------------------------------- MODULE Policy -------------------------------
(***************************************************************************)
(* Which type each tensor gets: prepare_plans of cli/quantize/policy.cpp.  *)
(* One step plans one tensor; what earlier tensors leave for later ones    *)
(* are the counters of the mixed policy and the counts of the result.      *)
(*                                                                         *)
(* A tensor carries the outcome of each match of its name, with the lists  *)
(* of the policies, of the architecture, and of the command line: names    *)
(* and patterns themselves are left to the module Patterns.                *)
(***************************************************************************)
EXTENDS Integers, Sequences, FiniteSets

CONSTANTS
  Tensors,     (* [dtype, shape; weight : the name ends so, long, ignored, *)
               (* skip, hiprec : matches with the architecture's lists;    *)
               (* marks : the lists of the policies it matches; layer :    *)
               (* dynamic_layer_index; include, exclude : matches with the *)
               (* command line; forced : override_qtype or ""]             *)
  MaxTensors,  (* most tensors of a file; bounds the instance              *)
  FileTypes,   (* output file types                                        *)
  Policies,    (* the policies tried; of comfy, dynamic and uniform        *)
  ShapeFix     (* does the architecture rearrange shapes?                  *)

Plain == {"F32", "F16", "BF16"}

Quantized == {"Q1_0", "Q4_0", "Q4_1", "Q5_0", "Q5_1", "Q8_0", "Q2_K", "Q3_K",
              "Q4_K", "Q5_K", "Q6_K"}

(* What parse_qtype accepts of --qtype: the names of file_type_value.      *)
OutputTypes ==
  {"Q1_0", "Q4_0", "Q4_1", "Q5_0", "Q5_1", "Q8_0", "Q2_K", "Q2_K_S", "Q3_K_S", "Q3_K_M",
   "Q3_K_L", "Q4_K_S", "Q4_K_M", "Q5_K_S", "Q5_K_M", "Q6_K"}

Marks == {"value", "qkv", "qko", "out", "down", "updown", "ffn", "aura"}

ASSUME PolicyAssumption ==
  /\ \A t \in Tensors :
       /\ t.dtype \in Plain
       /\ t.shape \in Seq(Nat)
       /\ {t.weight, t.long, t.ignored, t.skip, t.hiprec, t.include, t.exclude}
            \subseteq BOOLEAN
       /\ t.marks \subseteq Marks
       /\ t.layer \in Nat \union {-1}
       /\ t.forced \in Plain \union Quantized \union {""}
  /\ MaxTensors \in Nat
  /\ FileTypes \subseteq OutputTypes
  /\ Policies \subseteq {"comfy", "dynamic", "uniform"}
  /\ ShapeFix \in BOOLEAN

-----------------------------------------------------------------------------
(* is_quantized_qtype *)
IsQuantized(q) == q \notin Plain

(* qtype_block_size *)
BlockSize(q) ==
  CASE q \in Plain                                       -> 1
    [] q = "Q1_0"                                        -> 128
    [] q \in {"Q4_0", "Q4_1", "Q5_0", "Q5_1", "Q8_0"}    -> 32
    [] OTHER                                             -> 256

(* The type of tensors that parse_qtype finds in a file type. *)
BaseType(fileType) ==
  CASE fileType \in {"Q2_K", "Q2_K_S"}             -> "Q2_K"
    [] fileType \in {"Q3_K_S", "Q3_K_M", "Q3_K_L"} -> "Q3_K"
    [] fileType \in {"Q4_K_S", "Q4_K_M"}           -> "Q4_K"
    [] fileType \in {"Q5_K_S", "Q5_K_M"}           -> "Q5_K"
    [] OTHER                                       -> fileType

(* product_shape *)
Product(shape) ==
  LET upTo[i \in 0 .. Len(shape)] == IF i = 0 THEN 1 ELSE upTo[i - 1] * shape[i]
  IN  upTo[Len(shape)]

PerRow(shape) == IF shape = <<>> THEN 1 ELSE shape[Len(shape)]

-----------------------------------------------------------------------------
(* The policies' choices. *)

Lookup(table, fileType, otherwise) ==
  IF fileType \in DOMAIN table THEN table[fileType] ELSE otherwise

ValueTable ==
  [Q2_K |-> "Q3_K", Q3_K_L |-> "Q5_K", Q4_K_M |-> "Q6_K", Q5_K_M |-> "Q6_K"]

FusedTable ==
  [Q3_K_M |-> "Q4_K", Q3_K_L |-> "Q4_K", Q4_K_M |-> "Q5_K", Q5_K_M |-> "Q6_K"]

DownTable ==
  [Q3_K_M |-> "Q4_K", Q3_K_L |-> "Q5_K", Q4_K_S |-> "Q5_K", Q4_K_M |-> "Q6_K",
   Q5_K_M |-> "Q6_K", Q4_0 |-> "Q4_1", Q5_0 |-> "Q5_1"]

(* mixed_policy_qtype, after so many attention values. *)
MixedType(fileType, marks, values) ==
  LET base == BaseType(fileType)
  IN  CASE "value" \in marks /\ fileType = "Q3_K_M" ->
             IF values < 2 THEN "Q5_K" ELSE "Q4_K"
        [] "value" \in marks /\ fileType = "Q4_K_S" ->
             IF values < 4 THEN "Q5_K" ELSE base
        [] "value" \in marks /\ fileType \notin {"Q3_K_M", "Q4_K_S"} ->
             Lookup(ValueTable, fileType, base)
        [] "value" \notin marks /\ "qkv" \in marks ->
             Lookup(FusedTable, fileType, base)
        [] marks \intersect {"value", "qkv"} = {} /\ "down" \in marks ->
             Lookup(DownTable, fileType, base)
        [] /\ marks \intersect {"value", "qkv", "down"} = {} /\ "aura" \in marks
           /\ fileType = "Q3_K_M" -> "Q4_K"
        [] OTHER -> base

Order == <<"Q2_K", "Q3_K", "Q4_K", "Q5_K", "Q6_K", "Q8_0">>

(* promote_k_qtype *)
Promote(q, steps) ==
  IF \E i \in DOMAIN Order : Order[i] = q
    THEN LET i == CHOOSE i \in DOMAIN Order : Order[i] = q
         IN  Order[IF i + steps <= Len(Order) THEN i + steps ELSE Len(Order)]
    ELSE q

MidTypes == {"Q2_K", "Q3_K_M", "Q4_K_M"}

(* dynamic_policy_qtype, given what the mixed policy chose; last is the    *)
(* largest layer of the file.                                              *)
DynamicType(fileType, comfy, marks, layer, last) ==
  LET early    == layer <= 1
      tail     == last >= 0 /\ layer >= last - 1
      fused    == Promote(comfy, IF early THEN 2 ELSE 1)
      ffn      == Promote(comfy, IF early /\ fileType \in {"Q4_K_M", "Q5_K_M"}
                                   THEN 2 ELSE 1)
      midOut   == layer \in 15 .. 24 \/ (layer >= 28 /\ ~ tail)
      lateOut  == layer \in {3, 24} \/ (layer >= 31 /\ ~ tail)
      midFfn   == layer \in {7, 21} \/ (layer >= 23 /\ ~ tail)
      lateFfn  == layer = 7 \/ (layer >= 27 /\ ~ tail)
      raised(q, mid, late) ==
        CASE fileType \in MidTypes /\ mid     -> Promote(q, 1)
          [] fileType = "Q5_K_M" /\ late      -> "Q8_0"
          [] OTHER                            -> q
      value ==
        CASE fileType \in {"Q2_K", "Q3_K_M", "Q3_K_L"}             -> "Q6_K"
          [] fileType \in {"Q4_K_S", "Q4_K_M", "Q5_K_S", "Q5_K_M"} -> "Q8_0"
          [] OTHER                                                 -> Promote(comfy, 1)
  IN  CASE layer < 0 -> comfy
        [] layer >= 0 /\ "value" \in marks -> value
        [] layer >= 0 /\ "value" \notin marks /\ "qkv" \in marks -> fused
        [] layer >= 0 /\ marks \intersect {"value", "qkv"} = {} /\ "qko" \in marks ->
             IF "out" \in marks THEN raised(fused, midOut, lateOut) ELSE fused
        [] /\ layer >= 0 /\ marks \intersect {"value", "qkv", "qko"} = {}
           /\ "ffn" \in marks ->
             IF "updown" \in marks THEN raised(ffn, midFfn, lateFfn) ELSE ffn
        [] OTHER -> comfy

-----------------------------------------------------------------------------
VARIABLES
  tensors,    (* the tensors of the file                                   *)
  fileType,   (* the output file type                                      *)
  policy,     (* --policy                                                  *)
  at,         (* "planning", "planned", "failed" or "crashed"              *)
  next,       (* the tensor to plan next                                   *)
  values,     (* counters["attention_value"]                               *)
  plans,      (* [tensor : its number, type, shape, wanted : the type      *)
              (* before a fallback]                                        *)
  rearranged, (* the tensors whose original shape the metadata keeps       *)
  typeCounts, (* tensor_type_counts                                        *)
  fallbacks   (* fallback_counts                                           *)

request == <<tensors, fileType, policy>>
vars == <<request, at, next, values, plans, rearranged, typeCounts, fallbacks>>

(* Nothing is planned yet. *)
Begin ==
  /\ at = "planning"
  /\ next = 1
  /\ values = 0
  /\ plans = <<>>
  /\ rearranged = {}
  /\ typeCounts = [q \in Plain \union Quantized |-> 0]
  /\ fallbacks = [q \in Plain \union Quantized |-> 0]

Init ==
  /\ tensors \in UNION {[1 .. n -> Tensors] : n \in 0 .. MaxTensors}
  /\ fileType \in FileTypes
  /\ policy \in Policies
  /\ Begin

Tensor == tensors[next]

(* max_dynamic_layer, which counts tensors that are not planned, too. *)
LastLayer ==
  LET layers == {-1} \union {tensors[i].layer : i \in DOMAIN tensors}
  IN  CHOOSE layer \in layers : \A other \in layers : other <= layer

(* base_storage_type_for_meta *)
StorageType(t) ==
  CASE /\ t.dtype \in {"F32", "BF16"}
       /\ Len(t.shape) = 1 \/ Product(t.shape) <= 1024 \/ t.hiprec -> "F32"
    [] /\ t.dtype = "BF16"
       /\ Len(t.shape) # 1 /\ Product(t.shape) > 1024 /\ ~ t.hiprec -> "BF16"
    [] OTHER -> "F16"

IsRearranged(t) ==
  /\ ShapeFix
  /\ Len(t.shape) > 1
  /\ Product(t.shape) >= 512
  /\ Product(t.shape) % 256 = 0
  /\ PerRow(t.shape) % 256 # 0

(* Mutant: the rows of a rearranged shape are counted in the old width. *)
WriteShapeOld(t) ==
  IF IsRearranged(t) THEN <<Product(t.shape) \div PerRow(t.shape), 256>> ELSE t.shape

(* shape_fix_shape *)
WriteShape(t) ==
  IF IsRearranged(t) THEN <<Product(t.shape) \div 256, 256>> ELSE t.shape

(* policy_allows_quant_shape *)
PolicyAllows(t) ==
  /\ Len(WriteShape(t)) = 2
  /\ t.weight
  /\ policy = "uniform" \/ ~ t.skip

(* Mutant: what is included is quantized although it is excluded, too. *)
MayQuantizeIncluded(t) ==
  \/ PolicyAllows(t) /\ ~ t.exclude
  \/ t.include /\ Len(WriteShape(t)) = 2

(* Quantized, unless its type is forced? *)
MayQuantize(t) ==
  /\ PolicyAllows(t) \/ (t.include /\ Len(WriteShape(t)) = 2)
  /\ ~ t.exclude

PolicyDecides(t) == t.forced = "" /\ MayQuantize(t)

Comfy(t) == MixedType(fileType, t.marks, values)

(* Mutant: the dynamic policy starts from the base type. *)
DynamicFromBase(t) == DynamicType(fileType, BaseType(fileType), t.marks, t.layer, LastLayer)

Dynamic(t) == DynamicType(fileType, Comfy(t), t.marks, t.layer, LastLayer)

Wanted(t) ==
  CASE t.forced # ""                           -> t.forced
    [] t.forced = "" /\ ~ MayQuantize(t)       -> StorageType(t)
    [] PolicyDecides(t) /\ policy = "uniform"  -> BaseType(fileType)
    [] PolicyDecides(t) /\ policy = "comfy"    -> Comfy(t)
    [] PolicyDecides(t) /\ policy = "dynamic"  -> Dynamic(t)

(* Mutant: the number of elements is compared with the block, not the      *)
(* width of a row.                                                         *)
FitsByElements(q, shape) == Product(shape) % BlockSize(q) = 0

Fits(q, shape) == PerRow(shape) % BlockSize(q) = 0

Increment(counts, q) == [counts EXCEPT ![q] = @ + 1]

-----------------------------------------------------------------------------
IgnoreTensor ==
  /\ at = "planning"
  /\ next <= Len(tensors)
  /\ Tensor.ignored
  /\ next' = next + 1
  /\ UNCHANGED <<request, at, values, plans, rearranged, typeCounts, fallbacks>>

ShapeIsPositive(t) == \A i \in DOMAIN t.shape : t.shape[i] > 0

(* A name that is too long, or a dimension of zero, ends the conversion. *)
RefuseTensor ==
  /\ at = "planning"
  /\ next <= Len(tensors)
  /\ ~ Tensor.ignored
  /\ Tensor.long \/ ~ ShapeIsPositive(Tensor)
  /\ at' = "failed"
  /\ UNCHANGED <<request, next, values, plans, rearranged, typeCounts, fallbacks>>

Plannable ==
  /\ at = "planning"
  /\ next <= Len(tensors)
  /\ ~ Tensor.ignored /\ ~ Tensor.long /\ ShapeIsPositive(Tensor)

(* The width of a row is asked for with write_shape.back(), which a scalar *)
(* does not have.                                                          *)
AsksWidthOfScalar(t) == IsQuantized(Wanted(t)) /\ t.shape = <<>>

(* Mutant: every attention value is counted, also one that is not          *)
(* quantized by the policy.                                                *)
ValuesAfterAll(t) == IF "value" \in t.marks THEN values + 1 ELSE values

ValuesAfter(t) ==
  IF "value" \in t.marks /\ PolicyDecides(t) /\ policy # "uniform"
    THEN values + 1 ELSE values

CountedType(t, fits) == IF fits THEN Wanted(t) ELSE "F16"

PlanAs(t, fits) ==
  LET type == IF fits THEN Wanted(t) ELSE "F16"
  IN  /\ plans' = Append(plans, [tensor |-> next, type |-> type,
                                 shape |-> WriteShape(t), wanted |-> Wanted(t)])
      /\ values' = ValuesAfter(t)
      /\ rearranged' = IF IsRearranged(t) THEN rearranged \union {next} ELSE rearranged
      /\ typeCounts' = Increment(typeCounts, CountedType(t, fits))
      /\ fallbacks' = IF fits THEN fallbacks ELSE Increment(fallbacks, Wanted(t))
      /\ next' = next + 1
      /\ UNCHANGED <<request, at>>

PlanTensor ==
  /\ Plannable
  /\ ~ AsksWidthOfScalar(Tensor)
  /\ PlanAs(Tensor, ~ IsQuantized(Wanted(Tensor)) \/ Fits(Wanted(Tensor), WriteShape(Tensor)))

(* Undefined behaviour: the program ends, or goes on with some number.  If *)
(* the number fits the block, qtype_nbytes refuses the single element.     *)
PlanScalar ==
  /\ Plannable
  /\ AsksWidthOfScalar(Tensor)
  /\ \/ PlanAs(Tensor, FALSE)
     \/ /\ at' \in {"failed", "crashed"}
        /\ UNCHANGED <<request, next, values, plans, rearranged, typeCounts, fallbacks>>

Finish ==
  /\ at = "planning"
  /\ next > Len(tensors)
  /\ at' = "planned"
  /\ UNCHANGED <<request, next, values, plans, rearranged, typeCounts, fallbacks>>

Next ==
  \/ IgnoreTensor
  \/ RefuseTensor
  \/ PlanTensor
  \/ PlanScalar
  \/ Finish

Spec == Init /\ [][Next]_vars

-----------------------------------------------------------------------------
PlanType == [tensor : Nat \ {0}, type : Plain \union Quantized, shape : Seq(Nat),
             wanted : Plain \union Quantized]

(* The types of the variables. *)
TypeOK ==
  /\ tensors \in Seq(Tensors)
  /\ at \in {"planning", "planned", "failed", "crashed"}
  /\ next \in 1 .. Len(tensors) + 1
  /\ values \in 0 .. Len(plans)
  /\ plans \in Seq(PlanType)
  /\ rearranged \subseteq DOMAIN tensors
  /\ typeCounts \in [Plain \union Quantized -> Nat]
  /\ fallbacks \in [Plain \union Quantized -> Nat]

(* A row of every plan is a whole number of blocks of its type, whatever   *)
(* was forced, included, promoted or rearranged: the sizes in the header,  *)
(* and the encoders' loops over blocks, divide exactly.                    *)
PlansFit ==
  \A i \in DOMAIN plans : PerRow(plans[i].shape) % BlockSize(plans[i].type) = 0

(* Rearranging keeps the number of elements, and the metadata keeps the    *)
(* original shape of exactly the tensors that were rearranged.             *)
ShapesAreKept ==
  \A i \in DOMAIN plans :
    LET t == tensors[plans[i].tensor]
    IN  /\ Product(plans[i].shape) = Product(t.shape)
        /\ plans[i].shape # t.shape <=> plans[i].tensor \in rearranged

(* A tensor the command line excludes, and does not force, is never        *)
(* quantized, even if it is included as well.                              *)
ExcludedUnlessForced ==
  \A i \in DOMAIN plans :
    LET t == tensors[plans[i].tensor]
    IN  t.exclude /\ t.forced = "" => ~ IsQuantized(plans[i].type)

(* --tensor-type decides before anything else; --exclude before --include; *)
(* --include before the lists of the policies.  What an option asks for is *)
(* given up only for a row that is not made of whole blocks.               *)
OptionsAreObeyed ==
  /\ ExcludedUnlessForced
  /\ \A i \in DOMAIN plans :
       LET plan == plans[i]
           t    == tensors[plan.tensor]
       IN  /\ t.forced # "" => plan.wanted = t.forced
           /\ t.forced = "" /\ ~ t.exclude /\ t.include /\ Len(plan.shape) = 2 =>
                IsQuantized(plan.wanted)
           /\ plan.shape # <<>> /\ plan.type # plan.wanted => ~ Fits(plan.wanted, plan.shape)

(* Bits per weight, in tenths. *)
Bits(q) ==
  CASE q = "Q1_0" -> 11 [] q = "Q2_K" -> 26 [] q = "Q3_K" -> 34 [] q = "Q4_0" -> 45
    [] q = "Q4_K" -> 45 [] q = "Q4_1" -> 50 [] q = "Q5_0" -> 55 [] q = "Q5_K" -> 55
    [] q = "Q5_1" -> 60 [] q = "Q6_K" -> 66 [] q = "Q8_0" -> 85 [] q \in {"F16", "BF16"} -> 160
    [] q = "F32" -> 320

(* The plans whose type the policy chose, and which of them are attention  *)
(* values.                                                                 *)
Decided == {i \in DOMAIN plans : PolicyDecides(tensors[plans[i].tensor])}

DecidedValues == {i \in Decided : "value" \in tensors[plans[i].tensor].marks}

(* What the mixed policy chooses for a plan.                               *)
MixedChoice(i) ==
  MixedType(fileType, tensors[plans[i].tensor].marks,
            Cardinality({j \in DecidedValues : j < i}))

(* What a row that does not fit falls back to.                             *)
StoredType(q, shape) == IF Fits(q, shape) THEN q ELSE "F16"

(* The dynamic policy starts from the mixed one and only promotes: for no  *)
(* role, layer or file type does it choose fewer bits.  What is stored has *)
(* fewer in one case only: the mixed policy's choice would not have fitted *)
(* the rows and been replaced by F16, and what the dynamic one chooses     *)
(* fits.                                                                   *)
DynamicOnlyPromotes ==
  policy = "dynamic" =>
    \A i \in Decided :
      LET plan  == plans[i]
          mixed == MixedChoice(i)
      IN  /\ Bits(plan.wanted) >= Bits(mixed)
          /\ Bits(plan.type) < Bits(StoredType(mixed, plan.shape)) <=>
               ~ Fits(mixed, plan.shape) /\ Fits(plan.wanted, plan.shape)

(* The attention values of a file that Q3_K_M treats better are the first  *)
(* two that the policy decides about: tensors that are ignored, excluded   *)
(* or forced do not use up the favour.                                     *)
FirstValuesGetMore ==
  policy = "comfy" /\ fileType = "Q3_K_M" =>
    \A i \in DecidedValues :
      plans[i].wanted = IF Cardinality({j \in DecidedValues : j < i}) < 2
                          THEN "Q5_K" ELSE "Q4_K"

(* What the summary of a conversion counts is what was planned. *)
ReportAddsUp ==
  /\ \A q \in Plain \union Quantized :
       typeCounts[q] = Cardinality({i \in DOMAIN plans : plans[i].type = q})
  /\ \A q \in Quantized :
       fallbacks[q] = Cardinality({i \in DOMAIN plans :
                                     plans[i].wanted = q /\ plans[i].type # q})

(* Planning loses nothing: no element of a tensor, and no tensor of the    *)
(* summary.                                                                *)
NothingIsLost == ShapesAreKept /\ ReportAddsUp

=============================================================================
