---------------------------- MODULE Policy_proofs ---------------------------
(***************************************************************************)
(* What holds of every plan, for all tensors, file types and policies; of  *)
(* the matching of names that plans rest on, for all patterns and names;   *)
(* and of what is read of the input, for all headers.                      *)
(*                                                                         *)
(* What is defined by recursion is reasoned about by InductionUpTo and     *)
(* RecursionUpTo of RowPartition_proofs.                                   *)
(***************************************************************************)
EXTENDS Planning, Readers, RowPartition_proofs, SequenceTheorems

(* The place of a tensor, and a sequence of plans whatever they say. *)
Places ==
  /\ tensors \in Seq(Tensors)
  /\ next \in Nat \ {0}
  /\ \E S : plans \in Seq(S)
  /\ \A i \in DOMAIN plans : plans[i].tensor \in DOMAIN tensors

(* The output file type and the policy are some of those there are. *)
Commanded == fileType \in OutputTypes /\ policy \in {"comfy", "dynamic", "uniform"}

IInv == Places /\ Commanded /\ PlansFit /\ OptionsAreObeyed

-----------------------------------------------------------------------------
(* A row of a shape that is written has a width. *)
LEMMA WidthIsNatural ==
  ASSUME NEW t \in Tensors
  PROVE  PerRow(WriteShape(t)) \in Nat
<1>1. t.shape \in Seq(Nat)
  BY PolicyAssumption
<1>2. CASE IsRearranged(t)
  <2>1. WriteShape(t) = <<Product(t.shape) \div 256, 256>>
    BY <1>2 DEF WriteShape
  <2>2. WriteShape(t) # <<>> /\ Len(WriteShape(t)) = 2 /\ WriteShape(t)[2] = 256
    BY <2>1
  <2>. QED BY <2>2 DEF PerRow
<1>3. CASE ~ IsRearranged(t)
  BY <1>1, <1>3 DEF WriteShape, PerRow
<1>. QED BY <1>2, <1>3

(* A plain type has blocks of one element, which divide every row. *)
LEMMA PlainFits ==
  ASSUME NEW t \in Tensors, NEW q, ~ IsQuantized(q)
  PROVE  PerRow(WriteShape(t)) % BlockSize(q) = 0
<1>1. BlockSize(q) = 1
  BY DEF IsQuantized, BlockSize, Plain
<1>. QED BY <1>1, WidthIsNatural

(* What is not quantized by request keeps a plain type. *)
LEMMA StorageIsPlain ==
  ASSUME NEW t
  PROVE  ~ IsQuantized(StorageType(t))
BY DEF StorageType, IsQuantized, Plain

LEMMA ExcludedIsPlain ==
  ASSUME NEW t, t.exclude, t.forced = ""
  PROVE  ~ IsQuantized(Wanted(t))
<1>1. ~ MayQuantize(t)
  BY DEF MayQuantize
<1>2. Wanted(t) = StorageType(t)
  BY <1>1 DEF Wanted, PolicyDecides
<1>. QED BY <1>2, StorageIsPlain

-----------------------------------------------------------------------------
(* Every output file type stores its tensors in a type of the library.     *)
LEMMA BaseIsQuantized ==
  ASSUME NEW f \in OutputTypes
  PROVE  BaseType(f) \in Quantized
BY DEF BaseType, OutputTypes, Quantized

LEMMA LookupIsQuantized ==
  ASSUME NEW f \in OutputTypes, NEW q \in Quantized
  PROVE  /\ Lookup(ValueTable, f, q) \in Quantized
         /\ Lookup(FusedTable, f, q) \in Quantized
         /\ Lookup(DownTable, f, q) \in Quantized
BY DEF Lookup, ValueTable, FusedTable, DownTable, Quantized

LEMMA MixedIsQuantized ==
  ASSUME NEW f \in OutputTypes, NEW marks, NEW v
  PROVE  MixedType(f, marks, v) \in Quantized
<1>1. \A q \in {"Q4_K", "Q5_K"} : q \in Quantized
  BY DEF Quantized
<1>. QED BY <1>1, BaseIsQuantized, LookupIsQuantized DEF MixedType

(* What the dynamic policy replaces by Q6_K is smaller.                    *)
LEMMA MixedValueIsSmall ==
  ASSUME NEW f \in {"Q2_K", "Q3_K_M", "Q3_K_L"}, NEW marks, NEW v, "value" \in marks
  PROVE  MixedType(f, marks, v) \in {"Q3_K", "Q4_K", "Q5_K"}
<1>1. CASE f = "Q3_K_M"
  BY <1>1 DEF MixedType
<1>2. CASE f # "Q3_K_M"
  <2>1. MixedType(f, marks, v) = Lookup(ValueTable, f, BaseType(f))
    BY <1>2 DEF MixedType
  <2>. QED BY <1>2, <2>1 DEF Lookup, ValueTable
<1>. QED BY <1>1, <1>2

LEMMA Promotion ==
  ASSUME NEW q \in Quantized, NEW steps \in {1, 2}
  PROVE  Promote(q, steps) \in Quantized /\ Bits(Promote(q, steps)) >= Bits(q)
<1>1. Len(Order) = 6 /\ DOMAIN Order = 1 .. 6
  BY DEF Order
<1>2. /\ Order[1] = "Q2_K" /\ Order[2] = "Q3_K" /\ Order[3] = "Q4_K"
      /\ Order[4] = "Q5_K" /\ Order[5] = "Q6_K" /\ Order[6] = "Q8_0"
  BY DEF Order
<1>3. CASE ~ \E i \in DOMAIN Order : Order[i] = q
  <2>1. Promote(q, steps) = q /\ Bits(q) \in Nat
    BY <1>3 DEF Promote, Bits, Quantized
  <2>. QED BY <2>1
<1>4. CASE \E i \in DOMAIN Order : Order[i] = q
  <2>1. PICK i \in 1 .. 6 : /\ Order[i] = q
                            /\ Promote(q, steps) = Order[IF i + steps <= 6 THEN i + steps ELSE 6]
    BY <1>1, <1>4 DEF Promote
  <2>2. PICK j \in 1 .. 6 : Promote(q, steps) = Order[j] /\ i <= j
    <3>1. i + steps <= 6 => i + steps \in 1 .. 6 /\ i <= i + steps
      OBVIOUS
    <3>2. 6 \in 1 .. 6 /\ i <= 6
      OBVIOUS
    <3>. QED BY <2>1, <3>1, <3>2
  <2>3. \A k \in 1 .. 6 : Order[k] \in Quantized
    BY <1>2 DEF Quantized
  <2>4. \A k \in 1 .. 6 : Bits(Order[k]) = <<26, 34, 45, 55, 66, 85>>[k]
    <3>. SUFFICES ASSUME NEW k \in 1 .. 6 PROVE Bits(Order[k]) = <<26, 34, 45, 55, 66, 85>>[k]
      OBVIOUS
    <3>1. k \in {1, 2, 3, 4, 5, 6}
      OBVIOUS
    <3>. QED BY <1>2, <3>1 DEF Bits
  <2>5. <<26, 34, 45, 55, 66, 85>>[j] >= <<26, 34, 45, 55, 66, 85>>[i]
    BY <2>2
  <2>. QED BY <2>1, <2>2, <2>3, <2>4, <2>5
<1>. QED BY <1>3, <1>4

LEMMA LargestType ==
  ASSUME NEW q \in Quantized
  PROVE  Bits(q) \in Nat /\ Bits("Q8_0") >= Bits(q)
<1>1. Bits(q) \in {11, 26, 34, 45, 50, 55, 60, 66, 85}
  BY DEF Bits, Quantized
<1>2. Bits("Q8_0") = 85
  BY DEF Bits
<1>. QED BY <1>1, <1>2

(* Chosen instead of a smaller or equal one. *)
Promotes(q, r) == r \in Quantized /\ Bits(r) >= Bits(q)

LEMMA PromotesTwice ==
  ASSUME NEW q \in Quantized, NEW r, NEW s, Promotes(q, r), Promotes(r, s)
  PROVE  Promotes(q, s)
<1>1. Bits(q) \in Nat /\ Bits(r) \in Nat /\ Bits(s) \in Nat
  BY LargestType DEF Promotes
<1>. QED BY <1>1 DEF Promotes

LEMMA PromoteSteps ==
  ASSUME NEW q \in Quantized
  PROVE  /\ Promotes(q, q) /\ Promotes(q, "Q8_0")
         /\ Promotes(q, Promote(q, 1)) /\ Promotes(q, Promote(q, 2))
<1>1. "Q8_0" \in Quantized
  BY DEF Quantized
<1>2. Bits(q) >= Bits(q)
  BY LargestType
<1>. QED BY <1>1, <1>2, Promotion, LargestType DEF Promotes

LEMMA DynamicPromotes ==
  ASSUME NEW f \in OutputTypes, NEW marks, NEW v, NEW layer, NEW last
  PROVE  Promotes(MixedType(f, marks, v), DynamicType(f, MixedType(f, marks, v), marks, layer, last))
<1>. DEFINE q == MixedType(f, marks, v)
<1>1. q \in Quantized
  BY MixedIsQuantized
<1>. HIDE DEF q
<1>2. \A r : Promotes(q, r) => Promotes(q, Promote(r, 1)) /\ Promotes(q, "Q8_0")
  BY <1>1, PromoteSteps, PromotesTwice DEF Promotes
<1>3. f \in {"Q2_K", "Q3_K_M", "Q3_K_L"} /\ "value" \in marks => Promotes(q, "Q6_K")
  <2>. SUFFICES ASSUME f \in {"Q2_K", "Q3_K_M", "Q3_K_L"}, "value" \in marks PROVE Promotes(q, "Q6_K")
    OBVIOUS
  <2>1. q \in {"Q3_K", "Q4_K", "Q5_K"}
    BY MixedValueIsSmall DEF q
  <2>2. Bits("Q6_K") = 66 /\ "Q6_K" \in Quantized
    BY DEF Bits, Quantized
  <2>3. Bits(q) \in {34, 45, 55}
    BY <2>1 DEF Bits
  <2>. QED BY <2>2, <2>3 DEF Promotes
<1>. QED BY <1>1, <1>2, <1>3, PromoteSteps DEF DynamicType, q

(* Every tensor wants a type whose name the summary has a count for.       *)
LEMMA WantedIsKnown ==
  ASSUME NEW t \in Tensors, Commanded
  PROVE  Wanted(t) \in Plain \union Quantized
<1>1. BaseType(fileType) \in Quantized /\ Comfy(t) \in Quantized
  BY BaseIsQuantized, MixedIsQuantized DEF Comfy, Commanded
<1>2. Dynamic(t) \in Quantized
  BY DynamicPromotes DEF Dynamic, Comfy, Promotes, Commanded
<1>3. t.forced # "" => t.forced \in Plain \union Quantized
  BY PolicyAssumption
<1>4. StorageType(t) \in Plain
  BY DEF StorageType, Plain
<1>. QED BY <1>1, <1>2, <1>3, <1>4 DEF Wanted, PolicyDecides, Commanded

(* What --tensor-type names has the type that it says.                     *)
LEMMA ForcedIsWanted ==
  ASSUME NEW t, t.forced # ""
  PROVE  Wanted(t) = t.forced
BY DEF Wanted, PolicyDecides

(* What --include names is quantized, if nothing speaks against it.        *)
LEMMA IncludedIsQuantized ==
  ASSUME NEW t \in Tensors, Commanded, t.forced = "", ~ t.exclude, t.include,
         Len(WriteShape(t)) = 2
  PROVE  IsQuantized(Wanted(t))
<1>1. PolicyDecides(t)
  BY DEF PolicyDecides, MayQuantize
<1>2. BaseType(fileType) \in Quantized /\ Comfy(t) \in Quantized
  BY BaseIsQuantized, MixedIsQuantized DEF Comfy, Commanded
<1>3. Dynamic(t) \in Quantized
  BY DynamicPromotes DEF Dynamic, Comfy, Promotes, Commanded
<1>4. Wanted(t) \in {BaseType(fileType), Comfy(t), Dynamic(t)}
  BY <1>1 DEF Wanted, PolicyDecides, Commanded
<1>5. \A q \in Quantized : IsQuantized(q)
  BY DEF Quantized, Plain, IsQuantized
<1>. QED BY <1>2, <1>3, <1>4, <1>5

-----------------------------------------------------------------------------
(* What the code finds of a type before it plans with it: that it fits, or *)
(* that it does not (or that there is no row to ask).                      *)
Judged(t, fits) ==
  /\ fits => ~ IsQuantized(Wanted(t)) \/ Fits(Wanted(t), WriteShape(t))
  /\ ~ fits => IsQuantized(Wanted(t)) /\ (t.shape = <<>> \/ ~ Fits(Wanted(t), WriteShape(t)))

LEMMA PlanTensorJudges ==
  ASSUME PlanTensor
  PROVE  \E fits \in BOOLEAN : Plannable /\ PlanAs(Tensor, fits) /\ Judged(Tensor, fits)
<1>. DEFINE fits == ~ IsQuantized(Wanted(Tensor)) \/ Fits(Wanted(Tensor), WriteShape(Tensor))
<1>1. fits \in BOOLEAN /\ Plannable /\ PlanAs(Tensor, fits)
  BY DEF PlanTensor
<1>2. Judged(Tensor, fits)
  BY DEF Judged
<1>. QED BY <1>1, <1>2

LEMMA PlanScalarJudges ==
  ASSUME PlanScalar
  PROVE  \/ Plannable /\ PlanAs(Tensor, FALSE) /\ Judged(Tensor, FALSE)
         \/ UNCHANGED <<request, next, values, plans, rearranged, typeCounts, fallbacks>>
BY DEF PlanScalar, AsksWidthOfScalar, Judged

(* A shape without dimensions is not rearranged.                           *)
LEMMA ScalarStays ==
  ASSUME NEW t, t.shape = <<>>
  PROVE  WriteShape(t) = <<>>
<1>1. Len(t.shape) = 0
  OBVIOUS
<1>. QED BY <1>1 DEF WriteShape, IsRearranged

(* A plan that is appended keeps the invariant.                            *)
LEMMA PlanAsKeepsInvariant ==
  ASSUME IInv, Plannable, NEW fits \in BOOLEAN, PlanAs(Tensor, fits), Judged(Tensor, fits)
  PROVE  IInv'
<1>. DEFINE type == IF fits THEN Wanted(Tensor) ELSE "F16"
            plan == [tensor |-> next, type |-> type, shape |-> WriteShape(Tensor),
                     wanted |-> Wanted(Tensor)]
<1>1. PICK S : plans \in Seq(S)
  BY DEF IInv, Places
<1>2. next \in DOMAIN tensors /\ Tensor \in Tensors /\ Tensor = tensors[next]
  BY DEF IInv, Places, Plannable, Tensor
<1>3. /\ plans' = Append(plans, plan) /\ next' = next + 1 /\ tensors' = tensors
      /\ UNCHANGED <<fileType, policy>>
  BY DEF PlanAs, request
<1>4. plans \in Seq(S \union {plan}) /\ plan \in S \union {plan}
  BY <1>1
<1>5. /\ plans' \in Seq(S \union {plan})
      /\ Len(plans') = Len(plans) + 1
      /\ Len(plans) \in Nat
      /\ \A i \in 1 .. Len(plans) : plans'[i] = plans[i]
      /\ plans'[Len(plans) + 1] = plan
  <2>. HIDE DEF plan
  <2>. QED BY <1>3, <1>4
<1>6. DOMAIN plans' = 1 .. Len(plans) + 1 /\ DOMAIN plans = 1 .. Len(plans)
  BY <1>1, <1>5
<1>7. \A i \in DOMAIN plans' : (i \in DOMAIN plans /\ plans'[i] = plans[i]) \/ plans'[i] = plan
  BY <1>5, <1>6
<1>8. ~ IsQuantized("F16")
  BY DEF IsQuantized, Plain
<1>9. PerRow(plan.shape) % BlockSize(plan.type) = 0
  <2>1. CASE fits /\ IsQuantized(Wanted(Tensor))
    BY <2>1 DEF Fits, Judged
  <2>2. CASE ~ (fits /\ IsQuantized(Wanted(Tensor)))
    <3>1. ~ IsQuantized(type)
      BY <2>2, <1>8
    <3>. QED BY <3>1, <1>2, PlainFits
  <2>. QED BY <2>1, <2>2
<1>10. Tensor.exclude /\ Tensor.forced = "" => ~ IsQuantized(plan.type)
  <2>1. Tensor.exclude /\ Tensor.forced = "" => ~ IsQuantized(Wanted(Tensor))
    BY ExcludedIsPlain
  <2>. QED BY <2>1, <1>8
<1>11. plan.tensor = next /\ plan.shape = WriteShape(Tensor) /\ plan.wanted = Wanted(Tensor)
  OBVIOUS
<1>15. Tensor.forced # "" => plan.wanted = Tensor.forced
  BY <1>11, ForcedIsWanted
<1>16. Tensor.forced = "" /\ ~ Tensor.exclude /\ Tensor.include /\ Len(plan.shape) = 2 =>
         IsQuantized(plan.wanted)
  BY <1>2, <1>11, IncludedIsQuantized DEF IInv
<1>17. plan.shape # <<>> /\ plan.type # plan.wanted => ~ Fits(plan.wanted, plan.shape)
  <2>. SUFFICES ASSUME plan.shape # <<>>, plan.type # plan.wanted
                PROVE  ~ Fits(plan.wanted, plan.shape)
    OBVIOUS
  <2>1. ~ fits
    OBVIOUS
  <2>2. Tensor.shape # <<>>
    BY <1>11, ScalarStays
  <2>. QED BY <1>11, <2>1, <2>2 DEF Judged
<1>. HIDE DEF plan, type
<1>12. Places'
  <2>1. \A i \in DOMAIN plans' : plans'[i].tensor \in DOMAIN tensors'
    BY <1>2, <1>3, <1>7, <1>11 DEF IInv, Places
  <2>2. \E T : plans' \in Seq(T)
    BY <1>5
  <2>. QED BY <1>3, <2>1, <2>2 DEF IInv, Places
<1>13. PlansFit'
  BY <1>7, <1>9 DEF IInv, PlansFit
<1>14. ExcludedUnlessForced'
  BY <1>2, <1>3, <1>7, <1>10, <1>11 DEF IInv, OptionsAreObeyed, ExcludedUnlessForced
<1>18. OptionsAreObeyed'
  <2>. SUFFICES ASSUME NEW i \in DOMAIN plans'
                PROVE  LET p == plans'[i]
                           t == tensors[p.tensor]
                       IN  /\ t.forced # "" => p.wanted = t.forced
                           /\ t.forced = "" /\ ~ t.exclude /\ t.include /\ Len(p.shape) = 2 =>
                                IsQuantized(p.wanted)
                           /\ p.shape # <<>> /\ p.type # p.wanted => ~ Fits(p.wanted, p.shape)
    BY <1>3, <1>14 DEF OptionsAreObeyed
  <2>1. CASE i \in DOMAIN plans /\ plans'[i] = plans[i]
    BY <2>1 DEF IInv, OptionsAreObeyed
  <2>2. CASE plans'[i] = plan
    BY <1>2, <1>11, <1>15, <1>16, <1>17, <2>2
  <2>. QED BY <1>7, <2>1, <2>2
<1>. QED BY <1>3, <1>12, <1>13, <1>18 DEF IInv, Commanded

LEMMA InitInvariant == Init => IInv
<1>. SUFFICES ASSUME Init PROVE IInv
  OBVIOUS
<1>1. PICK n \in 0 .. MaxTensors : tensors \in [1 .. n -> Tensors]
  BY DEF Init, Begin
<1>2. tensors \in Seq(Tensors)
  <2>1. MaxTensors \in Nat
    BY PolicyAssumption
  <2>2. n \in Nat
    BY <2>1
  <2>. QED BY <1>1, <2>2
<1>3. plans = <<>> /\ DOMAIN plans = {} /\ plans \in Seq({})
  BY DEF Init, Begin
<1>4. Places
  BY <1>2, <1>3 DEF Init, Begin, Places
<1>5. Commanded
  BY PolicyAssumption DEF Init, Commanded
<1>. QED BY <1>3, <1>4, <1>5 DEF IInv, PlansFit, OptionsAreObeyed, ExcludedUnlessForced

LEMMA StepInvariant == IInv /\ [Next]_vars => IInv'
<1>. SUFFICES ASSUME IInv, [Next]_vars PROVE IInv'
  OBVIOUS
<1>1. ASSUME UNCHANGED <<request, plans>>, next' = next \/ next' = next + 1
      PROVE  IInv'
  <2>1. Places' /\ Commanded'
    BY <1>1 DEF IInv, Places, Commanded, request
  <2>2. PlansFit' /\ OptionsAreObeyed'
    BY <1>1 DEF IInv, PlansFit, OptionsAreObeyed, ExcludedUnlessForced, request
  <2>. QED BY <2>1, <2>2 DEF IInv
<1>2. CASE IgnoreTensor
  BY <1>1, <1>2 DEF IgnoreTensor
<1>3. CASE RefuseTensor
  BY <1>1, <1>3 DEF RefuseTensor
<1>4. CASE PlanTensor
  BY <1>4, PlanTensorJudges, PlanAsKeepsInvariant
<1>5. CASE PlanScalar
  BY <1>1, <1>5, PlanScalarJudges, PlanAsKeepsInvariant
<1>6. CASE Finish
  BY <1>1, <1>6 DEF Finish
<1>7. CASE UNCHANGED vars
  BY <1>1, <1>7 DEF vars
<1>. QED BY <1>2, <1>3, <1>4, <1>5, <1>6, <1>7 DEF Next

-----------------------------------------------------------------------------
(* For all tensors, file types and policies, a row of every plan is a      *)
(* whole number of blocks of its type: sizes and loops of the encoders     *)
(* divide exactly.                                                         *)
THEOREM AllPlansFit == Spec => []PlansFit
<1>1. IInv => PlansFit
  BY DEF IInv
<1>. QED BY <1>1, InitInvariant, StepInvariant, PTL DEF Spec

(* For all tensors, file types and policies: a type that the command line  *)
(* forces is taken; what it excludes is planned with a plain type; what it *)
(* includes is quantized; and only a row that is not made of whole blocks  *)
(* changes that.                                                           *)
THEOREM CommandLineIsObeyed == Spec => []OptionsAreObeyed
<1>1. IInv => OptionsAreObeyed
  BY DEF IInv
<1>. QED BY <1>1, InitInvariant, StepInvariant, PTL DEF Spec

-----------------------------------------------------------------------------
(* The counter of the mixed policy counts the attention values that the    *)
(* policy decided about; the first of them were favoured because the       *)
(* counter was still small, and the mixed policy's choice, which the       *)
(* dynamic one starts from, can be told from those planned before.         *)
CountInv ==
  /\ IInv
  /\ IsFiniteSet(DecidedValues)
  /\ policy # "uniform" => values = Cardinality(DecidedValues)
  /\ FirstValuesGetMore
  /\ DynamicOnlyPromotes

(* What the mixed policy says of an attention value under Q3_K_M. *)
LEMMA FavourOfValue ==
  ASSUME NEW t, policy = "comfy", fileType = "Q3_K_M", "value" \in t.marks, PolicyDecides(t)
  PROVE  Wanted(t) = IF values < 2 THEN "Q5_K" ELSE "Q4_K"
<1>1. Comfy(t) = IF values < 2 THEN "Q5_K" ELSE "Q4_K"
  BY DEF Comfy, MixedType
<1>2. Wanted(t) = Comfy(t)
  BY DEF Wanted, PolicyDecides
<1>. QED BY <1>1, <1>2

(* What is stored instead of a promoted type, and of the mixed one.        *)
LEMMA PromotedIsStored ==
  ASSUME NEW mixed \in Quantized, NEW wanted, Promotes(mixed, wanted), NEW shape,
         NEW fits \in BOOLEAN, fits <=> Fits(wanted, shape)
  PROVE  /\ Bits(wanted) >= Bits(mixed)
         /\ Bits(IF fits THEN wanted ELSE "F16") < Bits(StoredType(mixed, shape)) <=>
              ~ Fits(mixed, shape) /\ Fits(wanted, shape)
<1>1. Bits("F16") = 160 /\ Bits("Q8_0") = 85
  BY DEF Bits
<1>2. /\ Bits(mixed) \in Nat /\ Bits(mixed) <= 85
      /\ Bits(wanted) \in Nat /\ Bits(wanted) <= 85
      /\ Bits(wanted) >= Bits(mixed)
  BY <1>1, LargestType DEF Promotes
<1>3. CASE Fits(mixed, shape)
  BY <1>1, <1>2, <1>3 DEF StoredType
<1>4. CASE ~ Fits(mixed, shape)
  BY <1>1, <1>2, <1>4 DEF StoredType
<1>. QED BY <1>2, <1>3, <1>4

(* The dynamic policy's plan for a tensor it decides about.                *)
LEMMA DynamicPlan ==
  ASSUME NEW t, Commanded, policy = "dynamic", PolicyDecides(t),
         NEW fits \in BOOLEAN, Judged(t, fits)
  PROVE  /\ Bits(Wanted(t)) >= Bits(Comfy(t))
         /\ Bits(IF fits THEN Wanted(t) ELSE "F16") < Bits(StoredType(Comfy(t), WriteShape(t))) <=>
              ~ Fits(Comfy(t), WriteShape(t)) /\ Fits(Wanted(t), WriteShape(t))
<1>1. Wanted(t) = Dynamic(t)
  BY DEF Wanted, PolicyDecides
<1>2. Comfy(t) \in Quantized
  BY MixedIsQuantized DEF Comfy, Commanded
<1>3. Promotes(Comfy(t), Wanted(t))
  BY <1>1, DynamicPromotes DEF Dynamic, Comfy, Commanded
<1>4. IsQuantized(Wanted(t))
  BY <1>3 DEF Promotes, Quantized, Plain, IsQuantized
<1>5. t.shape # <<>>
  <2>1. Len(WriteShape(t)) = 2
    BY DEF PolicyDecides, MayQuantize, PolicyAllows
  <2>2. WriteShape(t) # <<>>
    BY <2>1
  <2>. QED BY <2>2, ScalarStays
<1>6. fits <=> Fits(Wanted(t), WriteShape(t))
  BY <1>4, <1>5 DEF Judged
<1>. QED BY <1>2, <1>3, <1>6, PromotedIsStored

LEMMA PlanAsKeepsCount ==
  ASSUME CountInv, IInv', Plannable, NEW fits \in BOOLEAN, PlanAs(Tensor, fits),
         Judged(Tensor, fits)
  PROVE  CountInv'
<1>. DEFINE new == Len(plans) + 1
            counted == "value" \in Tensor.marks /\ PolicyDecides(Tensor)
<1>1. PICK S : plans' \in Seq(S)
  BY DEF IInv, Places
<1>2. PICK T : plans \in Seq(T)
  BY DEF CountInv, IInv, Places
<1>3. /\ Len(plans) \in Nat
      /\ DOMAIN plans = 1 .. Len(plans)
      /\ DOMAIN plans' = 1 .. new
      /\ \A i \in 1 .. Len(plans) : plans'[i] = plans[i]
      /\ plans'[new].tensor = next
      /\ plans'[new].wanted = Wanted(Tensor)
      /\ plans'[new].shape = WriteShape(Tensor)
      /\ plans'[new].type = IF fits THEN Wanted(Tensor) ELSE "F16"
  <2>. DEFINE plan == [tensor |-> next, type |-> IF fits THEN Wanted(Tensor) ELSE "F16",
                       shape |-> WriteShape(Tensor), wanted |-> Wanted(Tensor)]
  <2>1. plans' = Append(plans, plan)
    BY DEF PlanAs
  <2>2. /\ plan.tensor = next /\ plan.wanted = Wanted(Tensor)
        /\ plan.shape = WriteShape(Tensor)
        /\ plan.type = IF fits THEN Wanted(Tensor) ELSE "F16"
    OBVIOUS
  <2>3. plans \in Seq(T \union {plan}) /\ plan \in T \union {plan}
    BY <1>2
  <2>. HIDE DEF plan
  <2>. QED BY <2>1, <2>2, <2>3
<1>4. UNCHANGED <<tensors, fileType, policy>> /\ Tensor = tensors[next]
  BY DEF PlanAs, request, Tensor
<1>5. \A t : PolicyDecides(t)' <=> PolicyDecides(t)
  BY <1>4 DEF PolicyDecides, MayQuantize, PolicyAllows, WriteShape, IsRearranged
<1>6. DecidedValues' = IF counted THEN DecidedValues \union {new} ELSE DecidedValues
  BY <1>3, <1>4, <1>5 DEF DecidedValues, Decided
<1>7. /\ new \in Nat /\ new \notin DecidedValues
      /\ \A j \in DecidedValues : j \in Nat /\ j < new
  BY <1>3 DEF DecidedValues, Decided
<1>8. IsFiniteSet(DecidedValues) /\ Cardinality(DecidedValues) \in Nat
  BY FS_CardinalityType DEF CountInv
<1>. HIDE DEF new
<1>9. /\ IsFiniteSet(DecidedValues')
      /\ Cardinality(DecidedValues') = IF counted THEN Cardinality(DecidedValues) + 1 ELSE Cardinality(DecidedValues)
  BY <1>6, <1>7, <1>8, FS_AddElement
<1>10. values' = IF counted /\ policy # "uniform" THEN values + 1 ELSE values
  BY DEF PlanAs, ValuesAfter
<1>11. policy' # "uniform" => values' = Cardinality(DecidedValues')
  BY <1>4, <1>8, <1>9, <1>10 DEF CountInv
<1>12. \A i \in 1 .. Len(plans) :
         {j \in DecidedValues' : j < i} = {j \in DecidedValues : j < i}
  <2>. SUFFICES ASSUME NEW i \in 1 .. Len(plans)
                PROVE  {j \in DecidedValues' : j < i} = {j \in DecidedValues : j < i}
    OBVIOUS
  <2>1. ~ new < i
    BY <1>3 DEF new
  <2>. QED BY <1>6, <2>1
<1>13. {j \in DecidedValues' : j < new} = DecidedValues
  <2>1. ~ new < new
    BY <1>7
  <2>. QED BY <1>6, <1>7, <2>1
<1>14. FirstValuesGetMore'
  <2>. SUFFICES ASSUME policy = "comfy", fileType = "Q3_K_M", NEW i \in DecidedValues'
                PROVE  plans'[i].wanted =
                         IF Cardinality({j \in DecidedValues' : j < i}) < 2 THEN "Q5_K" ELSE "Q4_K"
    BY <1>4 DEF FirstValuesGetMore
  <2>1. CASE i \in DecidedValues
    <3>1. i \in 1 .. Len(plans)
      BY <1>3, <2>1 DEF DecidedValues, Decided
    <3>2. plans[i].wanted = IF Cardinality({j \in DecidedValues : j < i}) < 2 THEN "Q5_K" ELSE "Q4_K"
      BY <2>1 DEF CountInv, FirstValuesGetMore
    <3>. QED BY <1>3, <1>12, <3>1, <3>2
  <2>2. CASE i \notin DecidedValues
    <3>1. i = new /\ counted
      BY <1>6, <2>2
    <3>2. plans'[i].wanted = Wanted(Tensor)
      BY <1>3, <3>1
    <3>3. values = Cardinality(DecidedValues)
      BY DEF CountInv
    <3>. QED BY <1>13, <3>1, <3>2, <3>3, FavourOfValue
  <2>. QED BY <2>1, <2>2
<1>15. Decided' = IF PolicyDecides(Tensor) THEN Decided \union {new} ELSE Decided
  BY <1>3, <1>4, <1>5 DEF Decided, new
<1>16. ASSUME policy = "dynamic", NEW i \in Decided'
       PROVE  /\ Bits(plans'[i].wanted) >= Bits(MixedChoice(i)')
              /\ Bits(plans'[i].type) < Bits(StoredType(MixedChoice(i)', plans'[i].shape)) <=>
                   ~ Fits(MixedChoice(i)', plans'[i].shape) /\ Fits(plans'[i].wanted, plans'[i].shape)
  <2>1. MixedChoice(i)' = MixedType(fileType, tensors[plans'[i].tensor].marks,
                                    Cardinality({j \in DecidedValues' : j < i}))
    BY <1>4 DEF MixedChoice
  <2>2. CASE i \in Decided
    <3>1. i \in 1 .. Len(plans) /\ plans'[i] = plans[i]
      BY <1>3, <2>2 DEF Decided
    <3>2. MixedChoice(i)' = MixedChoice(i)
      BY <1>12, <2>1, <3>1 DEF MixedChoice
    <3>. QED BY <1>16, <2>2, <3>1, <3>2 DEF CountInv, DynamicOnlyPromotes
  <2>3. CASE i \notin Decided
    <3>1. i = new /\ PolicyDecides(Tensor)
      BY <1>15, <1>16, <2>3
    <3>2. MixedChoice(i)' = Comfy(Tensor)
      <4>1. values = Cardinality(DecidedValues)
        BY <1>16 DEF CountInv
      <4>. QED BY <1>3, <1>4, <1>13, <2>1, <3>1, <4>1 DEF Comfy
    <3>3. /\ plans'[i].wanted = Wanted(Tensor) /\ plans'[i].shape = WriteShape(Tensor)
          /\ plans'[i].type = IF fits THEN Wanted(Tensor) ELSE "F16"
      BY <1>3, <3>1
    <3>. QED BY <1>16, <3>1, <3>2, <3>3, DynamicPlan DEF CountInv, IInv
  <2>. QED BY <2>2, <2>3
<1>17. DynamicOnlyPromotes'
  BY <1>4, <1>16 DEF DynamicOnlyPromotes
<1>. QED BY <1>9, <1>11, <1>14, <1>17 DEF CountInv

LEMMA InitCount == Init => CountInv
<1>. SUFFICES ASSUME Init PROVE CountInv
  OBVIOUS
<1>1. DecidedValues = {} /\ values = 0 /\ DOMAIN plans = {}
  BY DEF Init, Begin, DecidedValues, Decided
<1>2. FirstValuesGetMore
  BY <1>1 DEF FirstValuesGetMore
<1>3. DynamicOnlyPromotes
  BY <1>1 DEF DynamicOnlyPromotes, Decided
<1>. QED BY <1>1, <1>2, <1>3, InitInvariant, FS_EmptySet DEF CountInv

LEMMA StepCount == CountInv /\ [Next]_vars => CountInv'
<1>. SUFFICES ASSUME CountInv, [Next]_vars PROVE CountInv'
  OBVIOUS
<1>1. IInv'
  BY StepInvariant DEF CountInv
<1>2. ASSUME UNCHANGED <<request, plans, values>>
      PROVE  CountInv'
  <2>1. \A t : PolicyDecides(t)' <=> PolicyDecides(t)
    BY <1>2 DEF PolicyDecides, MayQuantize, PolicyAllows, WriteShape, IsRearranged, request
  <2>2. Decided' = Decided /\ DecidedValues' = DecidedValues
    BY <1>2, <2>1 DEF DecidedValues, Decided, request
  <2>3. FirstValuesGetMore' <=> FirstValuesGetMore
    BY <1>2, <2>2 DEF FirstValuesGetMore, request
  <2>4. \A i : MixedChoice(i)' = MixedChoice(i)
    BY <1>2, <2>2 DEF MixedChoice, request
  <2>5. DynamicOnlyPromotes' <=> DynamicOnlyPromotes
    BY <1>2, <2>2, <2>4 DEF DynamicOnlyPromotes, request
  <2>. QED BY <1>1, <1>2, <2>2, <2>3, <2>5 DEF CountInv, request
<1>3. CASE PlanTensor
  BY <1>1, <1>3, PlanTensorJudges, PlanAsKeepsCount
<1>4. CASE Plannable /\ PlanAs(Tensor, FALSE) /\ Judged(Tensor, FALSE)
  BY <1>1, <1>4, PlanAsKeepsCount
<1>5. CASE UNCHANGED <<request, next, values, plans, rearranged, typeCounts, fallbacks>>
  BY <1>2, <1>5
<1>6. CASE IgnoreTensor \/ RefuseTensor \/ Finish \/ UNCHANGED vars
  BY <1>2, <1>6 DEF IgnoreTensor, RefuseTensor, Finish, vars
<1>. QED BY <1>3, <1>4, <1>5, <1>6, PlanScalarJudges DEF Next

(* For every file, the attention values that Q3_K_M treats better are the  *)
(* first two that the policy decides about: ignored, excluded and forced   *)
(* tensors do not use up the favour.                                       *)
THEOREM FirstTwoAreFavoured == Spec => []FirstValuesGetMore
<1>1. CountInv => FirstValuesGetMore
  BY DEF CountInv
<1>. QED BY <1>1, InitCount, StepCount, PTL DEF Spec

(* For every file, file type and role of a tensor, the dynamic policy      *)
(* chooses no fewer bits than the mixed one would; and what is stored has  *)
(* fewer only where the mixed policy's choice would not have fitted.       *)
THEOREM DynamicNeverDemotes == Spec => []DynamicOnlyPromotes
<1>1. CountInv => DynamicOnlyPromotes
  BY DEF CountInv
<1>. QED BY <1>1, InitCount, StepCount, PTL DEF Spec

-----------------------------------------------------------------------------
LEMMA ProductRecursion ==
  ASSUME NEW s \in Seq(Nat)
  PROVE  \E g \in [0 .. Len(s) -> Nat] :
           /\ g[0] = 1
           /\ \A i \in 1 .. Len(s) : g[i] = g[i - 1] * s[i]
           /\ Product(s) = g[Len(s)]
<1>. DEFINE Upto(n, g) == g = [i \in 0 .. n |-> IF i = 0 THEN 1 ELSE g[i - 1] * s[i]]
            T == {n \in 0 .. Len(s) : \E g : Upto(n, g)}
            h == CHOOSE g : Upto(Len(s), g)
<1>0. PICK len \in Nat : len = Len(s)
  OBVIOUS
<1>1. 0 \in T
  <2>1. Upto(0, [i \in 0 .. 0 |-> 1])
    OBVIOUS
  <2>2. 0 \in 0 .. Len(s)
    BY <1>0
  <2>. HIDE DEF Upto
  <2>. QED BY <2>1, <2>2
<1>2. \A n \in 0 .. len - 1 : n \in T => n + 1 \in T
  <2>. SUFFICES ASSUME NEW n \in 0 .. len - 1, NEW g, Upto(n, g) PROVE n + 1 \in T
    BY <1>0
  <2>. DEFINE e == [i \in 0 .. n + 1 |-> IF i = n + 1 THEN g[n] * s[n + 1] ELSE g[i]]
  <2>1. n + 1 # 0 /\ n \in 0 .. n + 1 /\ n # n + 1
    OBVIOUS
  <2>2. ASSUME NEW i \in 0 .. n + 1 PROVE e[i] = IF i = 0 THEN 1 ELSE e[i - 1] * s[i]
    <3>1. CASE i = n + 1
      BY <2>1, <3>1
    <3>2. CASE i = 0
      BY <2>1, <3>2
    <3>3. CASE i \in 1 .. n
      <4>1. i - 1 \in 0 .. n + 1 /\ i - 1 # n + 1 /\ i # n + 1 /\ i # 0 /\ i \in 0 .. n
        BY <3>3
      <4>2. g[i] = g[i - 1] * s[i]
        BY <4>1
      <4>. QED BY <4>1, <4>2
    <3>. QED BY <3>1, <3>2, <3>3
  <2>3. Upto(n + 1, e)
    <3>. HIDE DEF e
    <3>1. e = [i \in 0 .. n + 1 |-> e[i]]
      BY DEF e
    <3>. QED BY <2>2, <3>1
  <2>4. n + 1 \in 0 .. Len(s)
    BY <1>0
  <2>. HIDE DEF Upto
  <2>. QED BY <2>3, <2>4
<1>3. len \in T
  <2>. HIDE DEF T
  <2>. QED BY <1>1, <1>2, InductionUpTo
<1>4. Upto(len, h)
  <2>. HIDE DEF Upto
  <2>. QED BY <1>0, <1>3
<1>5. Product(s) = h[Len(s)]
  BY DEF Product
<1>. HIDE DEF h
<1>6. h[0] = 1 /\ \A i \in 1 .. len : h[i] = h[i - 1] * s[i]
  BY <1>4
<1>. HIDE DEF Upto, T
<1>7. \A i \in 0 .. len : h[i] \in Nat
  <2>. SUFFICES ASSUME NEW i \in 0 .. len PROVE h[i] \in Nat
    OBVIOUS
  <2>. DEFINE U == {j \in 0 .. i : h[j] \in Nat}
  <2>1. 0 \in U
    BY <1>6
  <2>2. \A j \in 0 .. i - 1 : j \in U => j + 1 \in U
    <3>. SUFFICES ASSUME NEW j \in 0 .. i - 1, h[j] \in Nat PROVE h[j + 1] \in Nat
      OBVIOUS
    <3>1. j + 1 \in 1 .. len /\ (j + 1) - 1 = j
      OBVIOUS
    <3>2. s[j + 1] \in Nat
      BY <1>0, <3>1
    <3>3. h[j + 1] = h[j] * s[j + 1]
      BY <1>6, <3>1
    <3>. QED BY <3>2, <3>3
  <2>3. i \in U
    <3>. HIDE DEF U
    <3>. QED BY <2>1, <2>2, InductionUpTo
  <2>. QED BY <2>3
<1>8. h \in [0 .. Len(s) -> Nat]
  <2>1. h = [i \in 0 .. len |-> h[i]]
    BY <1>4 DEF Upto
  <2>. QED BY <1>0, <1>7, <2>1
<1>. QED BY <1>0, <1>5, <1>6, <1>8

LEMMA ProductIsNatural ==
  ASSUME NEW s \in Seq(Nat)
  PROVE  Product(s) \in Nat
<1>1. Len(s) \in 0 .. Len(s)
  OBVIOUS
<1>. QED BY <1>1, ProductRecursion

LEMMA ProductOfTwo ==
  ASSUME NEW a \in Nat, NEW b \in Nat
  PROVE  Product(<<a, b>>) = a * b
<1>1. <<a, b>> \in Seq(Nat) /\ Len(<<a, b>>) = 2
  OBVIOUS
<1>2. PICK g \in [0 .. 2 -> Nat] :
        /\ g[0] = 1 /\ Product(<<a, b>>) = g[2]
        /\ \A i \in 1 .. 2 : g[i] = g[i - 1] * <<a, b>>[i]
  BY <1>1, ProductRecursion
<1>3. g[1] = g[0] * a
  BY <1>2
<1>4. g[2] = g[1] * b
  BY <1>2
<1>5. g[1] = a
  BY <1>2, <1>3
<1>. QED BY <1>2, <1>4, <1>5

(* A shape that is rearranged keeps its elements, and does change.         *)
LEMMA RearrangingKeepsElements ==
  ASSUME NEW t \in Tensors
  PROVE  /\ Product(WriteShape(t)) = Product(t.shape)
         /\ WriteShape(t) # t.shape <=> IsRearranged(t)
<1>1. t.shape \in Seq(Nat)
  BY PolicyAssumption
<1>2. CASE ~ IsRearranged(t)
  BY <1>2 DEF WriteShape
<1>3. CASE IsRearranged(t)
  <2>1. PICK p \in Nat : p = Product(t.shape)
    BY <1>1, ProductIsNatural
  <2>2. WriteShape(t) = <<p \div 256, 256>> /\ p % 256 = 0
    BY <1>3, <2>1 DEF WriteShape, IsRearranged
  <2>3. p \div 256 \in Nat /\ (p \div 256) * 256 = p
    BY <2>2
  <2>4. Product(WriteShape(t)) = p
    BY <2>2, <2>3, ProductOfTwo
  <2>5. PerRow(<<p \div 256, 256>>) % 256 = 0
    BY DEF PerRow
  <2>6. PerRow(t.shape) % 256 # 0
    BY <1>3 DEF IsRearranged
  <2>. QED BY <1>3, <2>1, <2>2, <2>4, <2>5, <2>6
<1>. QED BY <1>2, <1>3

LEMMA OneMoreIsCounted ==
  ASSUME NEW n \in Nat, NEW S, S \subseteq 1 .. n
  PROVE  /\ Cardinality(S) \in Nat
         /\ Cardinality(S \union {n + 1}) = Cardinality(S) + 1
<1>1. IsFiniteSet(S)
  <2>1. IsFiniteSet(1 .. n)
    BY FS_Interval
  <2>. QED BY <2>1, FS_Subset
<1>2. n + 1 \notin S
  OBVIOUS
<1>. QED BY <1>1, <1>2, FS_AddElement, FS_CardinalityType

-----------------------------------------------------------------------------
(* The types that the counts of the summary name. *)
Counted == Plain \union Quantized

OfType(q) == {i \in DOMAIN plans : plans[i].type = q}

Replaced(q) == {i \in DOMAIN plans : plans[i].wanted = q /\ plans[i].type # q}

(* Tensors are planned in their order, so that what is said of those       *)
(* before the next one stays said.                                         *)
InOrder ==
  /\ rearranged \subseteq 1 .. next - 1
  /\ \A i \in DOMAIN plans : plans[i].tensor < next

SummaryInv ==
  /\ IInv
  /\ typeCounts \in [Counted -> Nat]
  /\ fallbacks \in [Counted -> Nat]
  /\ InOrder
  /\ NothingIsLost

LEMMA PlanAsKeepsSummary ==
  ASSUME SummaryInv, IInv', Plannable, NEW fits \in BOOLEAN, PlanAs(Tensor, fits),
         Judged(Tensor, fits)
  PROVE  SummaryInv'
<1>. DEFINE new  == Len(plans) + 1
            type == IF fits THEN Wanted(Tensor) ELSE "F16"
<1>1. PICK n \in Nat : n = Len(plans)
  <2>1. PICK S : plans \in Seq(S)
    BY DEF SummaryInv, IInv, Places
  <2>. QED BY <2>1
<1>2. /\ DOMAIN plans = 1 .. n
      /\ DOMAIN plans' = 1 .. n + 1
      /\ \A i \in 1 .. n : plans'[i] = plans[i]
      /\ plans'[n + 1] = [tensor |-> next, type |-> type, shape |-> WriteShape(Tensor),
                          wanted |-> Wanted(Tensor)]
  <2>. DEFINE plan == [tensor |-> next, type |-> type, shape |-> WriteShape(Tensor),
                       wanted |-> Wanted(Tensor)]
  <2>1. PICK S : plans \in Seq(S)
    BY DEF SummaryInv, IInv, Places
  <2>2. plans' = Append(plans, plan)
    BY DEF PlanAs
  <2>3. plans \in Seq(S \union {plan}) /\ plan \in S \union {plan}
    BY <2>1
  <2>. HIDE DEF plan
  <2>4. /\ DOMAIN plans = 1 .. n
        /\ DOMAIN plans' = 1 .. n + 1
        /\ \A i \in 1 .. n : plans'[i] = plans[i]
        /\ plans'[n + 1] = plan
    BY <1>1, <2>2, <2>3
  <2>. QED BY <2>4 DEF plan
<1>3. /\ plans'[n + 1].tensor = next /\ plans'[n + 1].type = type
      /\ plans'[n + 1].shape = WriteShape(Tensor) /\ plans'[n + 1].wanted = Wanted(Tensor)
  BY <1>2
<1>4. /\ next \in DOMAIN tensors /\ Tensor \in Tensors /\ Tensor = tensors[next]
      /\ next \in Nat
  BY DEF SummaryInv, IInv, Places, Plannable, Tensor
<1>5. /\ UNCHANGED <<tensors, fileType, policy>> /\ next' = next + 1
      /\ rearranged' = IF IsRearranged(Tensor) THEN rearranged \union {next} ELSE rearranged
      /\ typeCounts' = Increment(typeCounts, type)
      /\ fallbacks' = IF fits THEN fallbacks ELSE Increment(fallbacks, Wanted(Tensor))
  BY DEF PlanAs, request, CountedType
<1>6. Wanted(Tensor) \in Counted
  BY <1>4, WantedIsKnown DEF SummaryInv, IInv, Counted
<1>7. type \in Counted
  BY <1>6 DEF Counted, Plain
<1>8. ~ fits => Wanted(Tensor) # "F16"
  BY DEF Judged, IsQuantized, Plain
<1>. HIDE DEF type
<1>9. /\ typeCounts' \in [Counted -> Nat]
      /\ \A q \in Counted : typeCounts'[q] = IF q = type THEN typeCounts[q] + 1 ELSE typeCounts[q]
  BY <1>5, <1>7 DEF Increment, SummaryInv
<1>10. /\ fallbacks' \in [Counted -> Nat]
       /\ \A q \in Counted : fallbacks'[q] = IF ~ fits /\ q = Wanted(Tensor)
                                               THEN fallbacks[q] + 1 ELSE fallbacks[q]
  BY <1>5, <1>6 DEF Increment, SummaryInv
<1>11. InOrder'
  <2>1. \A r \in 1 .. next - 1 : r \in 1 .. next' - 1 /\ r < next'
    BY <1>4, <1>5
  <2>2. next \in 1 .. next' - 1 /\ next < next'
    BY <1>4, <1>5 DEF SummaryInv, IInv, Places
  <2>3. rearranged' \subseteq 1 .. next' - 1
    BY <1>5, <2>1, <2>2 DEF SummaryInv, InOrder
  <2>4. ASSUME NEW i \in DOMAIN plans' PROVE plans'[i].tensor < next'
    <3>1. CASE i = n + 1
      BY <1>3, <2>2, <3>1
    <3>2. CASE i \in 1 .. n
      <4>1. plans[i].tensor \in DOMAIN tensors /\ plans[i].tensor < next
        BY <1>2, <3>2 DEF SummaryInv, InOrder, IInv, Places
      <4>2. plans[i].tensor \in Int
        BY <4>1 DEF SummaryInv, IInv, Places
      <4>. QED BY <1>2, <1>4, <1>5, <3>2, <4>1, <4>2
    <3>. QED BY <1>1, <1>2, <3>1, <3>2
  <2>. QED BY <2>3, <2>4 DEF InOrder
<1>12. ShapesAreKept'
  <2>. SUFFICES ASSUME NEW i \in 1 .. n + 1
                PROVE  /\ Product(plans'[i].shape) = Product(tensors[plans'[i].tensor].shape)
                       /\ plans'[i].shape # tensors[plans'[i].tensor].shape
                            <=> plans'[i].tensor \in rearranged'
    BY <1>2, <1>5 DEF ShapesAreKept
  <2>1. CASE i = n + 1
    <3>1. next \notin rearranged
      BY <1>4 DEF SummaryInv, InOrder
    <3>. QED BY <1>3, <1>4, <1>5, <2>1, <3>1, RearrangingKeepsElements
  <2>2. CASE i \in 1 .. n
    <3>1. /\ Product(plans[i].shape) = Product(tensors[plans[i].tensor].shape)
          /\ plans[i].shape # tensors[plans[i].tensor].shape
               <=> plans[i].tensor \in rearranged
      BY <1>2, <2>2 DEF SummaryInv, NothingIsLost, ShapesAreKept
    <3>2. plans[i].tensor # next
      <4>1. plans[i].tensor < next
        BY <1>2, <2>2 DEF SummaryInv, InOrder
      <4>. QED BY <1>4, <4>1
    <3>. QED BY <1>2, <1>5, <2>2, <3>1, <3>2
  <2>. QED BY <1>1, <2>1, <2>2
<1>13. ASSUME NEW q \in Counted PROVE typeCounts'[q] = Cardinality(OfType(q)')
  <2>1. OfType(q) \subseteq 1 .. n
    BY <1>2 DEF OfType
  <2>2. OfType(q)' = IF q = type THEN OfType(q) \union {n + 1} ELSE OfType(q)
    BY <1>1, <1>2, <1>3 DEF OfType
  <2>3. typeCounts[q] = Cardinality(OfType(q))
    BY DEF SummaryInv, NothingIsLost, ReportAddsUp, OfType, Counted
  <2>. QED BY <1>9, <2>1, <2>2, <2>3, OneMoreIsCounted
<1>14. ASSUME NEW q \in Quantized PROVE fallbacks'[q] = Cardinality(Replaced(q)')
  <2>1. Replaced(q) \subseteq 1 .. n /\ q \in Counted
    BY <1>2 DEF Replaced, Counted
  <2>2. (q = Wanted(Tensor) /\ type # q) <=> (~ fits /\ q = Wanted(Tensor))
    BY <1>8 DEF type
  <2>3. Replaced(q)' = IF ~ fits /\ q = Wanted(Tensor)
                         THEN Replaced(q) \union {n + 1} ELSE Replaced(q)
    BY <1>1, <1>2, <1>3, <2>2 DEF Replaced
  <2>4. fallbacks[q] = Cardinality(Replaced(q))
    BY DEF SummaryInv, NothingIsLost, ReportAddsUp, Replaced
  <2>. QED BY <1>10, <2>1, <2>3, <2>4, OneMoreIsCounted
<1>15. ReportAddsUp'
  BY <1>13, <1>14 DEF ReportAddsUp, OfType, Replaced, Counted
<1>. QED BY <1>5, <1>9, <1>10, <1>11, <1>12, <1>15 DEF SummaryInv, NothingIsLost

LEMMA InitSummary == Init => SummaryInv
<1>. SUFFICES ASSUME Init PROVE SummaryInv
  OBVIOUS
<1>1. IInv
  BY InitInvariant
<1>3. /\ DOMAIN plans = {} /\ rearranged = {} /\ next = 1
      /\ typeCounts = [q \in Counted |-> 0] /\ fallbacks = [q \in Counted |-> 0]
  BY DEF Init, Begin, Counted
<1>4. typeCounts \in [Counted -> Nat] /\ fallbacks \in [Counted -> Nat]
  BY <1>3
<1>5. \A q : OfType(q) = {} /\ Replaced(q) = {}
  BY <1>3 DEF OfType, Replaced
<1>6. ReportAddsUp
  <2>1. \A q \in Counted : typeCounts[q] = 0 /\ fallbacks[q] = 0
    BY <1>3
  <2>2. Cardinality({}) = 0
    BY FS_EmptySet
  <2>. QED BY <1>5, <2>1, <2>2 DEF ReportAddsUp, OfType, Replaced, Counted
<1>. QED BY <1>1, <1>3, <1>4, <1>6 DEF SummaryInv, InOrder, NothingIsLost, ShapesAreKept

LEMMA StepSummary == SummaryInv /\ [Next]_vars => SummaryInv'
<1>. SUFFICES ASSUME SummaryInv, [Next]_vars PROVE SummaryInv'
  OBVIOUS
<1>1. IInv'
  BY StepInvariant DEF SummaryInv
<1>2. ASSUME UNCHANGED <<request, plans, rearranged, typeCounts, fallbacks>>,
             next' = next \/ next' = next + 1
      PROVE  SummaryInv'
  <2>1. InOrder'
    <3>1. next \in Nat /\ \A i \in DOMAIN plans : plans[i].tensor \in Int
      BY DEF SummaryInv, IInv, Places
    <3>2. 1 .. next - 1 \subseteq 1 .. next' - 1
      BY <1>2, <3>1
    <3>. QED BY <1>2, <3>1, <3>2 DEF SummaryInv, InOrder
  <2>2. NothingIsLost'
    BY <1>2 DEF SummaryInv, NothingIsLost, ShapesAreKept, ReportAddsUp, request
  <2>. QED BY <1>1, <1>2, <2>1, <2>2 DEF SummaryInv, request
<1>3. CASE PlanTensor
  BY <1>1, <1>3, PlanTensorJudges, PlanAsKeepsSummary
<1>4. CASE Plannable /\ PlanAs(Tensor, FALSE) /\ Judged(Tensor, FALSE)
  BY <1>1, <1>4, PlanAsKeepsSummary
<1>5. CASE UNCHANGED <<request, next, values, plans, rearranged, typeCounts, fallbacks>>
  BY <1>2, <1>5
<1>6. CASE IgnoreTensor \/ RefuseTensor \/ Finish \/ UNCHANGED vars
  BY <1>2, <1>6 DEF IgnoreTensor, RefuseTensor, Finish, vars
<1>. QED BY <1>3, <1>4, <1>5, <1>6, PlanScalarJudges DEF Next

(* For all tensors, file types and policies: rearranging keeps every       *)
(* element, the metadata keep the shapes of exactly the tensors that were  *)
(* rearranged, and the summary counts every plan and every fallback once.  *)
THEOREM NothingIsLostInPlanning == Spec => []NothingIsLost
<1>1. SummaryInv => NothingIsLost
  BY DEF SummaryInv
<1>. QED BY <1>1, InitSummary, StepSummary, PTL DEF Spec

-----------------------------------------------------------------------------
(* The names of tensors are matched with the policies' lists, and with the *)
(* command line's, by the function of the module Patterns. *)

(* The ends of the pieces of text that the pattern's characters from q on  *)
(* stand for, when they begin at u. *)
IsCut(cut, q, u) ==
  /\ cut \in [q - 1 .. Len(pattern) -> 0 .. Len(text)]
  /\ cut[q - 1] = u - 1
  /\ cut[Len(pattern)] = Len(text)
  /\ \A i \in q .. Len(pattern) :
       IF pattern[i] = "*" THEN cut[i - 1] <= cut[i]
       ELSE cut[i] = cut[i - 1] + 1 /\ pattern[i] \in {"?", text[cut[i]]}

(* The pattern from q on stands for the text from u on. *)
Stands(q, u) == \E cut : IsCut(cut, q, u)

(* Pattern and text are strings of some characters. *)
Strung == (\E S : pattern \in Seq(S)) /\ (\E S : text \in Seq(S))

LEMMA Lengths ==
  ASSUME Strung
  PROVE  /\ Len(pattern) \in Nat /\ Len(text) \in Nat
         /\ DOMAIN pattern = 1 .. Len(pattern)
<1>1. PICK S : pattern \in Seq(S)
  BY DEF Strung
<1>2. PICK T : text \in Seq(T)
  BY DEF Strung
<1>. QED BY <1>1, <1>2

LEMMA WholeStands ==
  ASSUME Strung
  PROVE  Names!Covers <=> Stands(1, 1)
<1>1. 1 - 1 = 0
  OBVIOUS
<1>. QED BY Lengths, <1>1 DEF Names!Covers, Stands, IsCut

LEMMA NothingStands ==
  ASSUME Strung, NEW u \in 1 .. Len(text) + 1
  PROVE  Stands(Len(pattern) + 1, u) <=> u = Len(text) + 1
<1>1. PICK m \in Nat : m = Len(pattern)
  BY Lengths
<1>2. PICK n \in Nat : n = Len(text)
  BY Lengths
<1>3. (m + 1) - 1 = m /\ u \in Int
  BY <1>2
<1>4. ASSUME Stands(m + 1, u) PROVE u = n + 1
  <2>1. PICK cut : IsCut(cut, m + 1, u)
    BY <1>4 DEF Stands
  <2>2. cut[m] = u - 1 /\ cut[m] = n
    BY <1>1, <1>2, <1>3, <2>1 DEF IsCut
  <2>. QED BY <1>2, <1>3, <2>2
<1>5. ASSUME u = n + 1 PROVE Stands(m + 1, u)
  <2>. DEFINE cut == [i \in m .. m |-> n]
  <2>1. cut \in [m .. m -> 0 .. n] /\ cut[m] = n /\ n = u - 1
    BY <1>5
  <2>2. \A i \in m + 1 .. m : FALSE
    OBVIOUS
  <2>. HIDE DEF cut
  <2>3. IsCut(cut, m + 1, u)
    BY <1>1, <1>2, <1>3, <2>1, <2>2 DEF IsCut
  <2>. QED BY <2>3 DEF Stands
<1>. QED BY <1>1, <1>2, <1>4, <1>5

(* What the end of a first piece must be. *)
Follows(q, from, to) ==
  IF pattern[q] = "*" THEN from <= to
  ELSE to = from + 1 /\ pattern[q] \in {"?", text[to]}

(* The first character stands for a first piece, the others for the rest.  *)
LEMMA FirstStands ==
  ASSUME Strung, NEW q \in 1 .. Len(pattern), NEW u \in 1 .. Len(text) + 1
  PROVE  Stands(q, u) <=> \E w \in 1 .. Len(text) + 1 : Follows(q, u - 1, w - 1) /\ Stands(q + 1, w)
<1>1. PICK m \in Nat : m = Len(pattern)
  BY Lengths
<1>2. PICK n \in Nat : n = Len(text)
  BY Lengths
<1>3. /\ (q + 1) - 1 = q /\ q \in Nat /\ u \in Nat /\ q - 1 \in q - 1 .. m /\ q \in q - 1 .. m
      /\ q \in q .. m /\ m \in q - 1 .. m /\ m \in q .. m /\ u - 1 \in 0 .. n
  BY <1>1, <1>2
<1>4. ASSUME Stands(q, u)
      PROVE  \E w \in 1 .. n + 1 : Follows(q, u - 1, w - 1) /\ Stands(q + 1, w)
  <2>1. PICK cut : IsCut(cut, q, u)
    BY <1>4 DEF Stands
  <2>2. PICK w \in 1 .. n + 1 : cut[q] = w - 1
    <3>1. cut[q] \in 0 .. n
      BY <1>1, <1>2, <1>3, <2>1 DEF IsCut
    <3>2. cut[q] + 1 \in 1 .. n + 1 /\ cut[q] = (cut[q] + 1) - 1
      BY <3>1
    <3>. QED BY <3>2
  <2>3. Follows(q, u - 1, w - 1)
    BY <1>1, <1>3, <2>1, <2>2 DEF IsCut, Follows
  <2>. DEFINE rest == [i \in q .. m |-> cut[i]]
  <2>4. \A i \in q .. m : rest[i] = cut[i] /\ i \in q - 1 .. m
    BY <1>3
  <2>5. rest \in [q .. m -> 0 .. n]
    BY <1>1, <1>2, <2>1, <2>4 DEF IsCut
  <2>6. \A i \in q + 1 .. m : i \in q .. m /\ i - 1 \in q .. m
    BY <1>3
  <2>. HIDE DEF rest
  <2>7. rest[m] = n /\ rest[q] = w - 1
    BY <1>1, <1>2, <1>3, <2>1, <2>2, <2>4 DEF IsCut
  <2>8. ASSUME NEW i \in q + 1 .. m
        PROVE  IF pattern[i] = "*" THEN rest[i - 1] <= rest[i]
               ELSE rest[i] = rest[i - 1] + 1 /\ pattern[i] \in {"?", text[rest[i]]}
    <3>1. rest[i] = cut[i] /\ rest[i - 1] = cut[i - 1] /\ i \in q .. m
      BY <2>4, <2>6
    <3>. QED BY <1>1, <2>1, <3>1 DEF IsCut
  <2>9. IsCut(rest, q + 1, w)
    BY <1>1, <1>2, <1>3, <2>5, <2>7, <2>8 DEF IsCut
  <2>. QED BY <2>3, <2>9 DEF Stands
<1>5. ASSUME NEW w \in 1 .. n + 1, Follows(q, u - 1, w - 1), Stands(q + 1, w)
      PROVE  Stands(q, u)
  <2>1. PICK rest : IsCut(rest, q + 1, w)
    BY <1>5 DEF Stands
  <2>2. rest \in [q .. m -> 0 .. n] /\ rest[q] = w - 1 /\ rest[m] = n
    BY <1>1, <1>2, <1>3, <2>1 DEF IsCut
  <2>. DEFINE cut == [i \in q - 1 .. m |-> IF i = q - 1 THEN u - 1 ELSE rest[i]]
  <2>3. \A i \in q .. m : i # q - 1 /\ i \in q - 1 .. m
    BY <1>3
  <2>4. \A i \in q - 1 .. m : i # q - 1 => i \in q .. m
    BY <1>3
  <2>5. cut \in [q - 1 .. m -> 0 .. n]
    BY <1>3, <2>2, <2>4
  <2>6. cut[q - 1] = u - 1 /\ \A i \in q .. m : cut[i] = rest[i]
    BY <1>3, <2>3
  <2>. HIDE DEF cut
  <2>7. ASSUME NEW i \in q .. m
        PROVE  IF pattern[i] = "*" THEN cut[i - 1] <= cut[i]
               ELSE cut[i] = cut[i - 1] + 1 /\ pattern[i] \in {"?", text[cut[i]]}
    <3>1. CASE i = q
      BY <1>3, <1>5, <2>2, <2>6, <3>1 DEF Follows
    <3>2. CASE i # q
      <4>1. i \in q + 1 .. m /\ i - 1 \in q .. m
        BY <1>3, <3>2
      <4>2. cut[i] = rest[i] /\ cut[i - 1] = rest[i - 1]
        BY <2>6, <4>1
      <4>. QED BY <1>1, <2>1, <4>1, <4>2 DEF IsCut
    <3>. QED BY <3>1, <3>2
  <2>8. cut[m] = n
    BY <1>3, <2>2, <2>6
  <2>9. IsCut(cut, q, u)
    BY <1>1, <1>2, <2>5, <2>6, <2>7, <2>8 DEF IsCut
  <2>. QED BY <2>9 DEF Stands
<1>. QED BY <1>1, <1>2, <1>4, <1>5

LEMMA CharacterStands ==
  ASSUME Strung, NEW q \in 1 .. Len(pattern), NEW u \in 1 .. Len(text) + 1, pattern[q] # "*"
  PROVE  Stands(q, u) <=> /\ u <= Len(text)
                          /\ pattern[q] \in {"?", text[u]}
                          /\ Stands(q + 1, u + 1)
<1>1. PICK n \in Nat : n = Len(text)
  BY Lengths
<1>2. \A w \in 1 .. n + 1 : Follows(q, u - 1, w - 1) <=> w = u + 1 /\ pattern[q] \in {"?", text[u]}
  <2>. SUFFICES ASSUME NEW w \in 1 .. n + 1
                PROVE  Follows(q, u - 1, w - 1) <=> w = u + 1 /\ pattern[q] \in {"?", text[u]}
    OBVIOUS
  <2>1. w - 1 = (u - 1) + 1 <=> w = u + 1
    BY <1>1
  <2>2. w = u + 1 => w - 1 = u
    BY <1>1
  <2>. QED BY <2>1, <2>2 DEF Follows
<1>3. u <= n <=> u + 1 \in 1 .. n + 1
  BY <1>1
<1>4. Stands(q, u) <=> \E w \in 1 .. n + 1 : Follows(q, u - 1, w - 1) /\ Stands(q + 1, w)
  BY <1>1, FirstStands
<1>5. Stands(q, u) <=> \E w \in 1 .. n + 1 :
                         w = u + 1 /\ pattern[q] \in {"?", text[u]} /\ Stands(q + 1, w)
  BY <1>2, <1>4
<1>. QED BY <1>1, <1>3, <1>5

LEMMA StarStands ==
  ASSUME Strung, NEW q \in 1 .. Len(pattern), NEW u \in 1 .. Len(text) + 1, pattern[q] = "*"
  PROVE  Stands(q, u) <=> \E w \in u .. Len(text) + 1 : Stands(q + 1, w)
<1>1. PICK n \in Nat : n = Len(text)
  BY Lengths
<1>2. \A w \in 1 .. n + 1 : Follows(q, u - 1, w - 1) <=> w \in u .. n + 1
  BY <1>1 DEF Follows
<1>3. u .. n + 1 \subseteq 1 .. n + 1
  BY <1>1
<1>. QED BY <1>1, <1>2, <1>3, FirstStands

(* A group of stars stands for what one star stands for. *)
LEMMA GroupStands ==
  ASSUME Strung, NEW q \in 1 .. Len(pattern), NEW r \in q + 1 .. Len(pattern) + 1,
         NEW u \in 1 .. Len(text) + 1, \A i \in q .. r - 1 : pattern[i] = "*"
  PROVE  Stands(q, u) <=> \E w \in u .. Len(text) + 1 : Stands(r, w)
<1>1. PICK m \in Nat : m = Len(pattern)
  BY Lengths
<1>2. PICK n \in Nat : n = Len(text)
  BY Lengths
<1>. DEFINE T == {k \in Nat : Stands(q, u) <=> \E w \in u .. n + 1 : Stands(q + 1 + k, w)}
            last == r - q - 1
<1>3. last \in Nat /\ q + 1 + last = r /\ q \in Nat /\ u \in Nat
  BY <1>1, <1>2
<1>4. 0 \in T
  <2>1. Stands(q, u) <=> \E w \in u .. n + 1 : Stands(q + 1, w)
    <3>1. q \in q .. r - 1
      BY <1>1
    <3>. QED BY <1>2, <3>1, StarStands
  <2>2. q + 1 + 0 = q + 1
    BY <1>3
  <2>. QED BY <2>1, <2>2
<1>5. ASSUME NEW k \in 0 .. last - 1, k \in T PROVE k + 1 \in T
  <2>1. PICK s \in 1 .. m : s = q + 1 + k /\ s + 1 = q + 1 + (k + 1) /\ s \in q .. r - 1
    BY <1>1, <1>3
  <2>2. \A w \in u .. n + 1 : Stands(s, w) <=> \E x \in w .. n + 1 : Stands(s + 1, x)
    <3>1. u .. n + 1 \subseteq 1 .. n + 1
      BY <1>3
    <3>. QED BY <1>1, <1>2, <2>1, <3>1, StarStands
  <2>3. \A w \in u .. n + 1 : w .. n + 1 \subseteq u .. n + 1 /\ w \in w .. n + 1
    BY <1>3, <1>2
  <2>4. (\E w \in u .. n + 1 : Stands(s, w)) <=> (\E x \in u .. n + 1 : Stands(s + 1, x))
    BY <2>2, <2>3
  <2>. QED BY <1>5, <2>1, <2>4
<1>6. last \in T
  <2>. HIDE DEF T, last
  <2>. QED BY <1>3, <1>4, <1>5, InductionUpTo
<1>. QED BY <1>2, <1>3, <1>6

-----------------------------------------------------------------------------
(* Behind a group of stars is the end or another character. *)
LEMMA BehindStarsIsThere ==
  ASSUME Strung, patternAt \in 1 .. Len(pattern), pattern[patternAt] = "*"
  PROVE  /\ Names!BehindStars \in patternAt + 1 .. Len(pattern) + 1
         /\ \A i \in patternAt .. Names!BehindStars - 1 : pattern[i] = "*"
         /\ Names!BehindStars <= Len(pattern) => pattern[Names!BehindStars] # "*"
<1>1. PICK m \in Nat : m = Len(pattern)
  BY Lengths
<1>. DEFINE Behind(q) == /\ \A i \in patternAt .. q - 1 : pattern[i] = "*"
                         /\ q <= Len(pattern) => pattern[q] # "*"
            T == {k \in Nat : \A i \in patternAt .. (patternAt + k) - 1 : pattern[i] = "*"}
            rest == (m + 1) - patternAt
<1>2. rest \in Nat /\ patternAt + rest = m + 1 /\ patternAt \in Nat
  BY <1>1
<1>3. \E q \in patternAt .. m + 1 : Behind(q)
  <2>. SUFFICES ASSUME \A q \in patternAt .. m + 1 : ~ Behind(q) PROVE FALSE
    OBVIOUS
  <2>1. 0 \in T
    BY <1>2
  <2>2. ASSUME NEW k \in 0 .. rest - 1, k \in T PROVE k + 1 \in T
    <3>1. patternAt + k \in patternAt .. m /\ patternAt + k <= m
      BY <1>1, <1>2
    <3>2. patternAt + k \in patternAt .. m + 1
      BY <1>1, <1>2, <3>1
    <3>3. pattern[patternAt + k] = "*"
      BY <1>1, <2>2, <3>1, <3>2
    <3>4. \A i \in patternAt .. (patternAt + (k + 1)) - 1 : i \in patternAt .. (patternAt + k) - 1 \/ i = patternAt + k
      BY <1>2
    <3>. QED BY <2>2, <3>3, <3>4
  <2>3. rest \in T
    <3>. HIDE DEF T, rest
    <3>. QED BY <1>2, <2>1, <2>2, InductionUpTo
  <2>4. m + 1 \in patternAt .. m + 1 /\ ~ (m + 1 <= m)
    BY <1>1, <1>2
  <2>5. Behind(m + 1)
    BY <1>1, <1>2, <2>3, <2>4
  <2>. HIDE DEF Behind
  <2>. QED BY <2>4, <2>5
<1>4. Names!BehindStars \in patternAt .. m + 1 /\ Behind(Names!BehindStars)
  BY <1>1, <1>3 DEF Names!BehindStars
<1>5. Names!BehindStars # patternAt
  BY <1>1, <1>4
<1>. HIDE DEF Behind
<1>6. Names!BehindStars \in patternAt + 1 .. m + 1
  BY <1>1, <1>2, <1>4, <1>5
<1>. QED BY <1>1, <1>4, <1>6 DEF Behind

(* What follows behind a group of stars can begin at any place that is     *)
(* left, but not at the end, which no character fits.                      *)
LEMMA StarsStand ==
  ASSUME Strung, patternAt \in 1 .. Len(pattern), pattern[patternAt] = "*", textAt \in 1 .. Len(text) + 1
  PROVE  /\ Names!BehindStars > Len(pattern) => Stands(patternAt, textAt)
         /\ Names!BehindStars <= Len(pattern) =>
              (Stands(patternAt, textAt) <=> \E w \in textAt .. Len(text) : Stands(Names!BehindStars, w))
<1>1. PICK m \in Nat : m = Len(pattern)
  BY Lengths
<1>2. PICK n \in Nat : n = Len(text)
  BY Lengths
<1>3. PICK r \in patternAt + 1 .. m + 1 :
        /\ r = Names!BehindStars
        /\ \A i \in patternAt .. r - 1 : pattern[i] = "*"
        /\ r <= m => pattern[r] # "*"
  BY <1>1, BehindStarsIsThere
<1>4. Stands(patternAt, textAt) <=> \E w \in textAt .. n + 1 : Stands(r, w)
  BY <1>1, <1>2, <1>3, GroupStands
<1>5. CASE r > m
  <2>1. r = m + 1
    BY <1>1, <1>3, <1>5
  <2>2. n + 1 \in textAt .. n + 1 /\ n + 1 \in 1 .. n + 1
    BY <1>2
  <2>3. Stands(r, n + 1)
    BY <1>1, <1>2, <2>1, <2>2, NothingStands
  <2>. QED BY <1>1, <1>3, <1>4, <1>5, <2>2, <2>3
<1>6. CASE r <= m
  <2>1. r \in 1 .. m /\ n + 1 \in 1 .. n + 1 /\ ~ (n + 1 <= n)
    BY <1>1, <1>2, <1>3, <1>6
  <2>2. ~ Stands(r, n + 1)
    BY <1>1, <1>2, <1>3, <1>6, <2>1, CharacterStands
  <2>3. \A w \in textAt .. n + 1 : w \in textAt .. n \/ w = n + 1
    BY <1>2
  <2>4. \A w \in textAt .. n : w \in textAt .. n + 1
    BY <1>2
  <2>5. (\E w \in textAt .. n + 1 : Stands(r, w)) <=> (\E w \in textAt .. n : Stands(r, w))
    BY <2>2, <2>3, <2>4
  <2>. QED BY <1>1, <1>2, <1>3, <1>4, <1>6, <2>5
<1>7. r > m \/ r <= m
  BY <1>1, <1>3
<1>. QED BY <1>5, <1>6, <1>7

-----------------------------------------------------------------------------
(* One of the loops under way, at a place it has not tried, would find     *)
(* what it looks for. *)
StandsLater(loop) == \E w \in loop.t + 1 .. Len(text) : Stands(loop.p, w)

Hope == \E k \in DOMAIN frames : StandsLater(frames[k])

Loops == [p : 1 .. Len(pattern), t : 1 .. Len(text)]

PlacesInv ==
  /\ Strung
  /\ patternAt \in 1 .. Len(pattern) + 1
  /\ textAt \in 1 .. Len(text) + 1
  /\ frames \in Seq(Loops)
  /\ matching \in {"matching", "mismatch", "true", "false"}

(* What the function is about to find is what the pattern stands for: the  *)
(* call under way, or a loop that goes on, will. *)
VerdictInv ==
  /\ matching = "matching" => (Names!Covers <=> Stands(patternAt, textAt) \/ Hope)
  /\ matching = "mismatch" => (Names!Covers <=> Hope)
  /\ matching = "true" => Names!Covers
  /\ matching = "false" => ~ Names!Covers

NamesInv == PlacesInv /\ VerdictInv

LEMMA InitNames == Names!Init => NamesInv
<1>. SUFFICES ASSUME Names!Init PROVE NamesInv
  OBVIOUS
<1>1. PICK k \in Nat : pattern \in [1 .. k -> Letters \union {"*", "?"}]
  BY DEF Names!Init, Names!Strings
<1>2. PICK n \in Nat : text \in [1 .. n -> Letters]
  BY DEF Names!Init, Names!Strings
<1>3. Strung
  <2>1. pattern \in Seq(Letters \union {"*", "?"}) /\ text \in Seq(Letters)
    BY <1>1, <1>2
  <2>. QED BY <2>1 DEF Strung
<1>4. 1 \in 1 .. Len(pattern) + 1 /\ 1 \in 1 .. Len(text) + 1
  BY <1>3, Lengths
<1>5. frames = <<>> /\ DOMAIN frames = {}
  BY DEF Names!Init
<1>6. PlacesInv
  BY <1>3, <1>4, <1>5 DEF Names!Init, PlacesInv
<1>7. ~ Hope
  BY <1>5 DEF Hope
<1>. QED BY <1>3, <1>6, <1>7, WholeStands DEF Names!Init, NamesInv, VerdictInv

(* The meaning of a pattern does not change while it is matched. *)
LEMMA MeaningIsKept ==
  ASSUME UNCHANGED <<pattern, text>>
  PROVE  /\ Names!Covers' <=> Names!Covers
         /\ \A q, u : Stands(q, u)' <=> Stands(q, u)
         /\ \A loop : StandsLater(loop)' <=> StandsLater(loop)
         /\ Strung' <=> Strung
         /\ Loops' = Loops
BY DEF Names!Covers, Stands, IsCut, StandsLater, Strung, Loops

LEMMA HopeLater ==
  ASSUME UNCHANGED <<pattern, text>>
  PROVE  Hope' <=> \E k \in DOMAIN frames' : StandsLater(frames'[k])
BY DEF Hope, StandsLater, Stands, IsCut

LEMMA ReturnKeepsNames ==
  ASSUME NamesInv, NEW verdict \in {"mismatch", "true", "false"}, Names!Return(verdict),
         verdict = "mismatch" => (Names!Covers <=> Hope),
         verdict = "true" => Names!Covers,
         verdict = "false" => ~ Names!Covers
  PROVE  NamesInv'
<1>1. UNCHANGED <<pattern, text, patternAt, textAt, frames>> /\ matching' = verdict
  BY DEF Names!Return
<1>2. PlacesInv'
  BY <1>1, MeaningIsKept DEF NamesInv, PlacesInv
<1>3. Hope' <=> Hope
  BY <1>1, MeaningIsKept DEF Hope
<1>4. VerdictInv'
  BY <1>1, <1>3, MeaningIsKept DEF VerdictInv
<1>. QED BY <1>2, <1>4 DEF NamesInv

LEMMA StepNames == NamesInv /\ [Names!Next]_Names!vars => NamesInv'
<1>. SUFFICES ASSUME NamesInv, [Names!Next]_Names!vars PROVE NamesInv'
  OBVIOUS
<1>1. /\ Strung /\ patternAt \in 1 .. Len(pattern) + 1 /\ textAt \in 1 .. Len(text) + 1
      /\ frames \in Seq(Loops)
  BY DEF NamesInv, PlacesInv
<1>2. PICK m \in Nat : m = Len(pattern)
  BY <1>1, Lengths
<1>3. PICK n \in Nat : n = Len(text)
  BY <1>1, Lengths
<1>4. patternAt \in Nat /\ textAt \in Nat /\ (patternAt <= m => patternAt \in 1 .. m)
  BY <1>1, <1>2, <1>3
<1>5. PICK k \in Nat : k = Len(frames) /\ DOMAIN frames = 1 .. k
  BY <1>1
<1>6. frames # <<>> => k \in 1 .. k /\ Names!Loop \in Loops /\ Names!Loop = frames[k]
  BY <1>1, <1>5 DEF Names!Loop
<1>7. CASE Names!LastStar
  <2>1. patternAt \in 1 .. Len(pattern) /\ pattern[patternAt] = "*" /\ matching = "matching"
    BY <1>2, <1>4, <1>7 DEF Names!LastStar, Names!AtStar
  <2>2. Stands(patternAt, textAt)
    BY <1>1, <1>7, <2>1, StarsStand DEF Names!LastStar
  <2>3. Names!Covers
    BY <2>1, <2>2 DEF NamesInv, VerdictInv
  <2>. QED BY <1>7, <2>3, ReturnKeepsNames DEF Names!LastStar
<1>8. CASE Names!BeginStar
  <2>. DEFINE loop == [p |-> Names!BehindStars, t |-> textAt]
  <2>1. /\ patternAt \in 1 .. Len(pattern) /\ pattern[patternAt] = "*"
        /\ matching = "matching" /\ matching' = matching
        /\ Names!BehindStars <= Len(pattern) /\ textAt <= Len(text)
        /\ patternAt' = Names!BehindStars /\ textAt' = textAt /\ frames' = Append(frames, loop)
        /\ UNCHANGED <<pattern, text>>
    BY <1>2, <1>4, <1>8 DEF Names!BeginStar, Names!AtStar
  <2>2. Names!BehindStars \in 1 .. m
    BY <1>1, <1>2, <1>4, <2>1, BehindStarsIsThere
  <2>3. loop \in Loops /\ loop.p = Names!BehindStars /\ loop.t = textAt
    BY <1>1, <1>2, <1>3, <2>1, <2>2 DEF Loops
  <2>. HIDE DEF loop
  <2>4. /\ frames' \in Seq(Loops) /\ DOMAIN frames' = 1 .. k + 1
        /\ frames'[k + 1] = loop /\ \A i \in 1 .. k : frames'[i] = frames[i]
    BY <1>1, <1>5, <2>1, <2>3
  <2>5. PlacesInv'
    BY <1>2, <1>3, <1>1, <2>1, <2>2, <2>4, MeaningIsKept DEF NamesInv, PlacesInv
  <2>6. Stands(patternAt, textAt) <=> \E w \in textAt .. n : Stands(Names!BehindStars, w)
    BY <1>1, <1>3, <2>1, StarsStand
  <2>7. \A w : w \in textAt .. n <=> w = textAt \/ w \in textAt + 1 .. n
    BY <1>3, <1>4, <2>1
  <2>8. Stands(patternAt, textAt) <=> Stands(Names!BehindStars, textAt) \/ StandsLater(loop)
    BY <1>3, <2>3, <2>6, <2>7 DEF StandsLater
  <2>9. Hope' <=> Hope \/ StandsLater(loop)
    <3>1. \A i : i \in 1 .. k + 1 <=> i \in 1 .. k \/ i = k + 1
      BY <1>5
    <3>2. \A x : StandsLater(x)' <=> StandsLater(x)
      BY <2>1, MeaningIsKept
    <3>3. Hope' <=> \E i \in 1 .. k + 1 : StandsLater(frames'[i])
      BY <2>1, <2>4, HopeLater
    <3>. QED BY <1>5, <2>4, <3>1, <3>3 DEF Hope
  <2>10. VerdictInv'
    <3>1. Names!Covers <=> Stands(patternAt, textAt) \/ Hope
      BY <2>1 DEF NamesInv, VerdictInv
    <3>2. Stands(patternAt, textAt)' <=> Stands(Names!BehindStars, textAt)
      BY <2>1 DEF Stands, IsCut
    <3>. QED BY <2>1, <2>8, <2>9, <3>1, <3>2, MeaningIsKept DEF VerdictInv
  <2>. QED BY <2>5, <2>10 DEF NamesInv
<1>9. CASE Names!MatchCharacter
  <2>1. /\ patternAt \in 1 .. Len(pattern) /\ pattern[patternAt] # "*"
        /\ matching = "matching" /\ matching' = matching
        /\ textAt <= Len(text) /\ pattern[patternAt] \in {"?", text[textAt]}
        /\ patternAt' = patternAt + 1 /\ textAt' = textAt + 1
        /\ UNCHANGED <<pattern, text, frames>>
    BY <1>2, <1>4, <1>9 DEF Names!MatchCharacter, Names!Fits, Names!AtStar, Names!Accepts
  <2>2. patternAt + 1 \in 1 .. m + 1 /\ textAt + 1 \in 1 .. n + 1
    BY <1>1, <1>2, <1>3, <2>1
  <2>3. PlacesInv'
    BY <1>1, <1>2, <1>3, <2>1, <2>2, MeaningIsKept DEF NamesInv, PlacesInv
  <2>4. Stands(patternAt, textAt) <=> Stands(patternAt + 1, textAt + 1)
    BY <1>1, <2>1, CharacterStands
  <2>5. Stands(patternAt, textAt)' <=> Stands(patternAt + 1, textAt + 1)
    BY <2>1 DEF Stands, IsCut
  <2>6. Hope' <=> Hope
    BY <2>1, MeaningIsKept DEF Hope
  <2>7. VerdictInv'
    BY <2>1, <2>4, <2>5, <2>6, MeaningIsKept DEF NamesInv, VerdictInv
  <2>. QED BY <2>3, <2>7 DEF NamesInv
<1>10. CASE Names!Mismatch
  <2>1. patternAt \in 1 .. Len(pattern) /\ matching = "matching"
    BY <1>2, <1>4, <1>10 DEF Names!Mismatch
  <2>2. ~ Stands(patternAt, textAt)
    <3>1. CASE Names!AtStar
      <4>1. pattern[patternAt] = "*" /\ Names!BehindStars <= Len(pattern) /\ textAt > n
        BY <1>3, <1>10, <3>1 DEF Names!Mismatch, Names!AtStar
      <4>2. \A w \in textAt .. n : FALSE
        BY <1>3, <1>4, <4>1
      <4>. QED BY <1>1, <1>3, <2>1, <4>1, <4>2, StarsStand
    <3>2. CASE ~ Names!AtStar
      <4>1. pattern[patternAt] # "*" /\ ~ (textAt <= Len(text) /\ pattern[patternAt] \in {"?", text[textAt]})
        BY <1>2, <1>4, <1>10, <2>1, <3>2 DEF Names!Mismatch, Names!AtStar, Names!Fits, Names!Accepts
      <4>. QED BY <1>1, <2>1, <4>1, CharacterStands
    <3>. QED BY <3>1, <3>2
  <2>3. Names!Covers <=> Hope
    BY <2>1, <2>2 DEF NamesInv, VerdictInv
  <2>. QED BY <1>10, <2>3, ReturnKeepsNames DEF Names!Mismatch
<1>11. CASE Names!EndPattern
  <2>1. patternAt = m + 1 /\ matching = "matching"
    BY <1>1, <1>2, <1>11 DEF Names!EndPattern
  <2>2. Stands(patternAt, textAt) <=> textAt = n + 1
    BY <1>1, <1>2, <1>3, <2>1, NothingStands
  <2>3. textAt > n <=> textAt = n + 1
    BY <1>1, <1>3
  <2>4. Names!Covers <=> Stands(patternAt, textAt) \/ Hope
    BY <2>1 DEF NamesInv, VerdictInv
  <2>5. CASE textAt > n
    BY <1>3, <1>11, <2>2, <2>3, <2>4, <2>5, ReturnKeepsNames DEF Names!EndPattern
  <2>6. CASE ~ (textAt > n)
    BY <1>3, <1>11, <2>2, <2>3, <2>4, <2>6, ReturnKeepsNames DEF Names!EndPattern
  <2>. QED BY <2>5, <2>6
<1>12. CASE Names!Retry
  <2>. DEFINE loop == [Names!Loop EXCEPT !.t = Names!Later(@)]
  <2>1. /\ matching = "mismatch" /\ matching' = "matching" /\ frames # <<>>
        /\ Names!Loop.t + 1 <= Len(text)
        /\ patternAt' = Names!Loop.p /\ textAt' = Names!Loop.t + 1
        /\ frames' = [frames EXCEPT ![k] = loop]
        /\ UNCHANGED <<pattern, text>>
    BY <1>5, <1>12 DEF Names!Retry, Names!Later, Names!Loop
  <2>2. /\ Names!Loop.p \in 1 .. m /\ Names!Loop.t \in 1 .. n /\ k \in 1 .. k /\ Names!Loop = frames[k]
    BY <1>2, <1>3, <1>6, <2>1 DEF Loops
  <2>3. loop \in Loops /\ loop.p = Names!Loop.p /\ loop.t = Names!Loop.t + 1
    BY <1>2, <1>3, <1>6, <2>1, <2>2 DEF Loops, Names!Later
  <2>. HIDE DEF loop
  <2>4. /\ frames' \in Seq(Loops) /\ DOMAIN frames' = 1 .. k
        /\ frames'[k] = loop /\ \A i \in 1 .. k : i # k => frames'[i] = frames[i]
    BY <1>1, <1>5, <2>1, <2>2, <2>3
  <2>5. Names!Loop.p \in 1 .. m + 1 /\ Names!Loop.t + 1 \in 1 .. n + 1
    BY <1>2, <1>3, <2>2
  <2>6. PlacesInv'
    BY <1>1, <1>2, <1>3, <2>1, <2>4, <2>5, MeaningIsKept DEF PlacesInv
  <2>7. \A w : w \in Names!Loop.t + 1 .. n <=> w = Names!Loop.t + 1 \/ w \in (Names!Loop.t + 1) + 1 .. n
    BY <1>3, <2>1, <2>2
  <2>8. StandsLater(Names!Loop) <=> Stands(Names!Loop.p, Names!Loop.t + 1) \/ StandsLater(loop)
    BY <1>3, <2>3, <2>7 DEF StandsLater
  <2>9. Hope' <=> \E i \in 1 .. k : StandsLater(frames'[i])
    BY <2>1, <2>4, HopeLater
  <2>10. Hope <=> \E i \in 1 .. k : StandsLater(frames[i])
    BY <1>5 DEF Hope
  <2>11. Stands(patternAt, textAt)' <=> Stands(Names!Loop.p, Names!Loop.t + 1)
    BY <2>1 DEF Stands, IsCut
  <2>12. Hope <=> Stands(Names!Loop.p, Names!Loop.t + 1) \/ Hope'
    BY <2>2, <2>4, <2>8, <2>9, <2>10
  <2>13. VerdictInv'
    BY <2>1, <2>11, <2>12, MeaningIsKept DEF NamesInv, VerdictInv
  <2>. QED BY <2>6, <2>13 DEF NamesInv
<1>13. CASE Names!GiveUp
  <2>1. /\ matching = "mismatch" /\ matching' = matching /\ frames # <<>>
        /\ Names!Loop.t + 1 > Len(text)
        /\ frames' = SubSeq(frames, 1, k - 1)
        /\ UNCHANGED <<pattern, text, patternAt, textAt>>
    BY <1>5, <1>13 DEF Names!GiveUp, Names!Later, Names!Outer
  <2>2. Names!Loop.t \in 1 .. n /\ k \in 1 .. k /\ Names!Loop = frames[k]
    BY <1>2, <1>3, <1>6, <2>1 DEF Loops
  <2>3. k - 1 \in 0 .. k
    BY <2>2
  <2>4. /\ frames' \in Seq(Loops) /\ DOMAIN frames' = 1 .. k - 1
        /\ \A i \in 1 .. k - 1 : frames'[i] = frames[i]
    BY <1>1, <1>5, <2>1, <2>3
  <2>5. PlacesInv'
    BY <1>1, <2>1, <2>4, MeaningIsKept DEF NamesInv, PlacesInv
  <2>6. ~ StandsLater(Names!Loop)
    <3>1. \A w \in Names!Loop.t + 1 .. n : FALSE
      BY <1>3, <2>1, <2>2
    <3>. QED BY <1>3, <3>1 DEF StandsLater
  <2>7. Hope' <=> \E i \in 1 .. k - 1 : StandsLater(frames'[i])
    BY <2>1, <2>4, HopeLater
  <2>8. Hope <=> \E i \in 1 .. k : StandsLater(frames[i])
    BY <1>5 DEF Hope
  <2>9. \A i : i \in 1 .. k <=> i \in 1 .. k - 1 \/ i = k
    BY <2>2
  <2>10. Hope' <=> Hope
    BY <2>2, <2>4, <2>6, <2>7, <2>8, <2>9
  <2>11. VerdictInv'
    BY <2>1, <2>10, MeaningIsKept DEF NamesInv, VerdictInv
  <2>. QED BY <2>5, <2>11 DEF NamesInv
<1>14. CASE Names!ReturnFalse
  <2>1. matching = "mismatch" /\ DOMAIN frames = {}
    BY <1>14 DEF Names!ReturnFalse
  <2>2. ~ Names!Covers
    BY <2>1 DEF NamesInv, VerdictInv, Hope
  <2>. QED BY <1>14, <2>2, ReturnKeepsNames DEF Names!ReturnFalse
<1>15. CASE UNCHANGED Names!vars
  <2>1. UNCHANGED <<pattern, text, patternAt, textAt, frames, matching>>
    BY <1>15 DEF Names!vars
  <2>2. PlacesInv'
    BY <2>1, MeaningIsKept DEF NamesInv, PlacesInv
  <2>3. Hope' <=> Hope
    BY <2>1, MeaningIsKept DEF Hope
  <2>4. Stands(patternAt, textAt)' <=> Stands(patternAt, textAt)
    BY <2>1 DEF Stands, IsCut
  <2>5. VerdictInv'
    BY <2>1, <2>3, <2>4, MeaningIsKept DEF NamesInv, VerdictInv
  <2>. QED BY <2>2, <2>5 DEF NamesInv
<1>. QED BY <1>7, <1>8, <1>9, <1>10, <1>11, <1>12, <1>13, <1>14, <1>15 DEF Names!Next

(* For every pattern and text: the function says that they match exactly   *)
(* if the text can be cut into what the pattern's characters stand for.    *)
THEOREM MatchingIsExact == Names!Spec => []MatchIsExact
<1>1. NamesInv => MatchIsExact
  BY DEF NamesInv, VerdictInv, Names!MatchIsExact, MatchIsExact
<1>. QED BY <1>1, InitNames, StepNames, PTL DEF Names!Spec

-----------------------------------------------------------------------------
(* What holds of all that is read of a safetensors file, for every header, *)
(* file and width of words.                                                *)

(* Products are those of integers, or they are refused. *)

LEMMA HalfOfWords ==
  ASSUME Source!SourceConstants
  PROVE  /\ HalfWord \in Nat \ {0} /\ Source!MaxWord \in Nat
         /\ Source!MaxWord = 2 * HalfWord - 1 /\ Source!Refused \notin Source!Word
BY DEF Source!SourceConstants, Source!MaxWord, Source!Word, Source!Refused

LEMMA CheckedMulIsExact ==
  ASSUME Source!SourceConstants, NEW a \in Source!Word, NEW b \in Source!Word
  PROVE  /\ Source!CheckedMul(a, b) \in Source!Word \union {Source!Refused}
         /\ Source!CheckedMul(a, b) # Source!Refused => Source!CheckedMul(a, b) = a * b
<1>1. PICK m \in Nat : m = Source!MaxWord
  BY HalfOfWords
<1>2. a \in Nat /\ b \in Nat /\ a <= m /\ b <= m
  BY <1>1 DEF Source!Word
<1>3. CASE a = 0
  <2>1. Source!CheckedMul(a, b) = 0 /\ a * b = 0
    BY <1>2, <1>3 DEF Source!CheckedMul
  <2>. QED BY <1>1, <2>1 DEF Source!Word
<1>4. CASE a # 0 /\ b > m \div a
  BY <1>1, <1>4 DEF Source!CheckedMul
<1>5. CASE a # 0 /\ ~ (b > m \div a)
  <2>1. PICK q \in Nat : q = m \div a /\ a * q <= m
    BY <1>2, <1>5
  <2>2. b <= q
    BY <1>2, <1>5, <2>1
  <2>3. PICK d \in Nat : q = b + d
    <3>1. q - b \in Nat /\ q = b + (q - b)
      BY <1>2, <2>2
    <3>. QED BY <3>1
  <2>4. a * q = a * b + a * d /\ a * b \in Nat /\ a * d \in Nat
    BY <1>2, <2>3
  <2>5. a * b \in 0 .. m
    BY <2>1, <2>4
  <2>6. Source!CheckedMul(a, b) = a * b
    BY <1>1, <1>5 DEF Source!CheckedMul
  <2>. QED BY <1>1, <2>5, <2>6 DEF Source!Word
<1>. QED BY <1>3, <1>4, <1>5

LEMMA CountIsProduct ==
  ASSUME Source!SourceConstants, NEW s \in Seq(Source!Word)
  PROVE  /\ Source!Count(s) \in Source!Word \union {Source!Refused}
         /\ Source!Count(s) # Source!Refused => Source!Count(s) = Product(s)
<1>. DEFINE S == Source!Word \union {Source!Refused}
            Step(x, i) == IF x = Source!Refused \/ s[i] = 0 THEN Source!Refused
                          ELSE Source!CheckedMul(x, s[i])
            Upto(h) == h = [i \in 0 .. Len(s) |-> IF i = 0 THEN 1 ELSE Step(h[i - 1], i)]
            h == CHOOSE h : Upto(h)
<1>1. PICK n \in Nat : n = Len(s)
  OBVIOUS
<1>2. \A i \in 1 .. n : s[i] \in Source!Word
  BY <1>1
<1>3. \A x \in S, i \in 1 .. n : Step(x, i) \in S
  BY <1>2, CheckedMulIsExact
<1>4. 1 \in S
  BY HalfOfWords DEF Source!Word
<1>5. PICK g \in [0 .. n -> S] : g[0] = 1 /\ \A i \in 1 .. n : g[i] = Step(g[i - 1], i)
  <2>. DEFINE step == [y \in S \X (1 .. n) |-> Step(y[1], y[2])]
  <2>1. step \in [S \X (1 .. n) -> S]
    BY <1>3
  <2>2. \A x \in S, i \in 1 .. n : step[<<x, i>>] = Step(x, i)
    OBVIOUS
  <2>. HIDE DEF step, S, Step
  <2>3. PICK g : Steps(g, n, S, 1, step)
    BY <1>4, <2>1, RecursionUpTo
  <2>4. \A i \in 1 .. n : g[i - 1] \in S
    <3>1. \A i \in 1 .. n : i - 1 \in 0 .. n
      OBVIOUS
    <3>. QED BY <2>3, <3>1 DEF Steps
  <2>. QED BY <2>2, <2>3, <2>4 DEF Steps
<1>. HIDE DEF Step
<1>6. Upto(g)
  <2>1. g = [i \in 0 .. n |-> g[i]]
    BY <1>5
  <2>2. \A i \in 0 .. n : i = 0 \/ i \in 1 .. n
    OBVIOUS
  <2>. QED BY <1>1, <1>5, <2>1, <2>2
<1>7. Upto(h)
  BY <1>6
<1>8. Source!Count(s) = h[n]
  BY <1>1 DEF Source!Count, Step
<1>. HIDE DEF h
<1>9. h[n] = g[n]
  <2>1. h[0] = g[0] /\ \A i \in 1 .. n : h[i] = Step(h[i - 1], i)
    BY <1>1, <1>5, <1>7
  <2>2. \A i \in 1 .. n : h[i - 1] = g[i - 1] => h[i] = g[i]
    BY <1>5, <2>1
  <2>. HIDE DEF Upto
  <2>3. StepAlike(h, g, n)
    BY <2>1, <2>2 DEF StepAlike
  <2>4. \A i \in 0 .. n : h[i] = g[i]
    BY <2>3, SameUpTo
  <2>. QED BY <2>4
<1>10. PICK f \in [0 .. n -> Nat] :
         /\ f[0] = 1 /\ Product(s) = f[n]
         /\ \A i \in 1 .. n : f[i] = f[i - 1] * s[i]
  <2>1. s \in Seq(Nat)
    BY <1>2, HalfOfWords DEF Source!Word
  <2>. QED BY <1>1, <2>1, ProductRecursion
<1>11. g[n] # Source!Refused => g[n] = f[n]
  <2>. DEFINE T == {i \in 0 .. n : g[i] # Source!Refused => g[i] = f[i]}
  <2>1. 0 \in T
    BY <1>5, <1>10
  <2>2. ASSUME NEW i \in 0 .. n - 1, i \in T PROVE i + 1 \in T
    <3>1. i + 1 \in 1 .. n /\ (i + 1) - 1 = i /\ i + 1 \in 0 .. n /\ i \in 0 .. n
      OBVIOUS
    <3>2. SUFFICES ASSUME g[i + 1] # Source!Refused PROVE g[i + 1] = f[i + 1]
      BY <3>1
    <3>3. g[i + 1] = Step(g[i], i + 1)
      BY <1>5, <3>1
    <3>4. g[i] # Source!Refused /\ g[i + 1] = Source!CheckedMul(g[i], s[i + 1])
      BY <3>2, <3>3 DEF Step
    <3>5. g[i] \in Source!Word /\ s[i + 1] \in Source!Word
      BY <1>2, <1>5, <3>1, <3>4
    <3>6. g[i + 1] = g[i] * s[i + 1]
      BY <3>2, <3>4, <3>5, CheckedMulIsExact
    <3>. QED BY <1>10, <2>2, <3>1, <3>4, <3>6
  <2>3. n \in T
    <3>. HIDE DEF T
    <3>. QED BY <2>1, <2>2, InductionUpTo
  <2>. QED BY <2>3
<1>12. g[n] \in S
  BY <1>5
<1>. QED BY <1>8, <1>9, <1>10, <1>11, <1>12

-----------------------------------------------------------------------------
(* What is kept of a tensor. *)
TensorType == [key : Seq(STRING), source : Seq(STRING), shape : Seq(Source!Word),
               dtype : DOMAIN Source!DtypeSize, begin : Source!Word, end : Source!Word]

(* What AcceptedLiesInFile says of one tensor. *)
LiesInFile(x) ==
  /\ x.end <= file.size
  /\ x.end - x.begin = Source!TrueCount(x.shape) * Source!DtypeSize[x.dtype]
  /\ x.begin <= x.end
  /\ Source!TrueCount(x.shape) < HalfWord

PlaceInv ==
  /\ Source!SourceConstants
  /\ file \in Files
  /\ entry \in Nat \ {0}
  /\ found \in Seq(TensorType)

LEMMA TrueCountIsProduct ==
  ASSUME NEW s
  PROVE  Source!TrueCount(s) = Product(s)
BY DEF Source!TrueCount, Product

LEMMA SizesOfTypes ==
  /\ DOMAIN Source!DtypeSize = {"F32", "F16", "BF16"}
  /\ \A q \in DOMAIN Source!DtypeSize : Source!DtypeSize[q] \in {2, 4}
BY DEF Source!DtypeSize

LEMMA EntryIsTyped ==
  ASSUME PlaceInv, Source!HasEntry
  PROVE  /\ entry \in DOMAIN file.entries
         /\ Source!Entry = file.entries[entry]
         /\ Source!Entry \in Source!EntryType
<1>1. file.entries \in Seq(Source!EntryType)
  BY DEF PlaceInv, Source!SourceConstants
<1>2. entry \in 1 .. Len(file.entries)
  BY <1>1 DEF PlaceInv, Source!HasEntry
<1>. QED BY <1>1, <1>2 DEF Source!Entry

(* An entry that passes the checks lies in the file. *)
LEMMA AcceptableLiesInFile ==
  ASSUME PlaceInv, Source!HasEntry, Source!Acceptable(Source!Entry),
         NEW x, x = [key |-> Source!Entry.name, source |-> Source!Entry.name,
                     shape |-> Source!Entry.shape, dtype |-> Source!Entry.dtype,
                     begin |-> Source!Begin(Source!Entry), end |-> Source!End(Source!Entry)]
  PROVE  x \in TensorType /\ LiesInFile(x)
<1>0. Source!SourceConstants
  BY DEF PlaceInv
<1>1. /\ Source!Entry.name \in Seq(STRING) /\ Source!Entry.shape \in Seq(Source!Word)
      /\ Source!Entry.begin \in Source!Word /\ Source!Entry.end \in Source!Word
  BY EntryIsTyped DEF Source!EntryType
<1>2. PICK m \in Nat : m = Source!MaxWord /\ m = 2 * HalfWord - 1
  BY <1>0, HalfOfWords
<1>3. HalfWord \in Nat
  BY <1>0, HalfOfWords
<1>4. Source!DataStart \in Nat
  BY DEF PlaceInv, Source!SourceConstants, Source!DataStart, Source!Word
<1>5. Source!Begin(Source!Entry) \in 0 .. m /\ Source!End(Source!Entry) \in 0 .. m
  <2>1. \A a \in Nat : a % (m + 1) \in 0 .. m
    BY <1>2
  <2>2. Source!DataStart + Source!Entry.begin \in Nat /\ Source!DataStart + Source!Entry.end \in Nat
    BY <1>1, <1>4 DEF Source!Word
  <2>. QED BY <1>2, <2>1, <2>2 DEF Source!Begin, Source!End, Source!Add
<1>6. /\ Source!Entry.dtype \in DOMAIN Source!DtypeSize
      /\ Source!End(Source!Entry) <= file.size
      /\ Source!Begin(Source!Entry) <= Source!End(Source!Entry)
  BY <1>5 DEF Source!Acceptable, Source!RangeMatches
<1>7. PICK c \in Nat : /\ c = Source!Count(Source!Entry.shape)
                       /\ c = Product(Source!Entry.shape)
                       /\ c \in Source!Word
  <2>1. Source!Count(Source!Entry.shape) # Source!Refused
    BY DEF Source!Acceptable, Source!DimensionsFit
  <2>. QED BY <1>1, <2>1, <1>0, CountIsProduct DEF Source!Word
<1>8. PICK w \in {2, 4} : w = Source!DtypeSize[Source!Entry.dtype]
  BY <1>6, SizesOfTypes
<1>9. Source!End(Source!Entry) - Source!Begin(Source!Entry) = c * w /\ c * w \in 0 .. m
  <2>1. PICK b \in Source!Word : b = Source!Bytes(Source!Entry) /\ b = c * w
    <3>1. /\ Source!Bytes(Source!Entry) = Source!CheckedMul(c, w)
          /\ Source!Bytes(Source!Entry) # Source!Refused
      BY <1>7, <1>8 DEF Source!Bytes, Source!Acceptable, Source!DimensionsFit
    <3>2. CASE w \in Source!Word
      BY <1>7, <3>1, <3>2, <1>0, CheckedMulIsExact
    <3>3. CASE w \notin Source!Word
      <4>1. m < w
        BY <1>2, <3>3 DEF Source!Word
      <4>2. m = 1 \/ m = 3
        BY <1>2, <4>1, <1>0, HalfOfWords
      <4>3. CASE c = 0
        <5>1. Source!CheckedMul(c, w) = 0 /\ c * w = 0
          BY <4>3 DEF Source!CheckedMul
        <5>2. 0 \in Source!Word
          BY <1>2 DEF Source!Word
        <5>. QED BY <3>1, <5>1, <5>2
      <4>4. CASE c # 0
        <5>1. m \div c <= m
          BY <1>7, <4>2, <4>4, <1>2 DEF Source!Word
        <5>2. w > m \div c
          BY <4>1, <4>2, <4>4, <5>1, <1>7
        <5>. QED BY <1>2, <3>1, <4>4, <5>2 DEF Source!CheckedMul
      <4>. QED BY <4>3, <4>4
    <3>. QED BY <3>2, <3>3
  <2>2. Source!End(Source!Entry) - Source!Begin(Source!Entry) = Source!Bytes(Source!Entry)
    BY DEF Source!Acceptable, Source!RangeMatches
  <2>. QED BY <1>2, <2>1, <2>2 DEF Source!Word
<1>10. c < HalfWord
  BY <1>2, <1>3, <1>8, <1>9
<1>11. /\ x.key = Source!Entry.name /\ x.source = Source!Entry.name /\ x.shape = Source!Entry.shape
       /\ x.dtype = Source!Entry.dtype /\ x.begin = Source!Begin(Source!Entry) /\ x.end = Source!End(Source!Entry)
  OBVIOUS
<1>12. x \in TensorType
  BY <1>1, <1>2, <1>5, <1>6 DEF TensorType, Source!Word
<1>13. LiesInFile(x)
  BY <1>6, <1>7, <1>8, <1>9, <1>10, <1>11, TrueCountIsProduct DEF LiesInFile
<1>. QED BY <1>12, <1>13

-----------------------------------------------------------------------------
(* What a prefix leaves. *)

Behind(name, prefix) == SubSeq(name, Len(prefix) + 1, Len(name))

(* A name is its prefix and what is behind it. *)
LEMMA PrefixCancels ==
  ASSUME NEW prefix, Len(prefix) \in Nat, NEW a \in Seq(STRING), NEW b \in Seq(STRING),
         Source!HasPrefix(a, prefix), Source!HasPrefix(b, prefix), Behind(a, prefix) = Behind(b, prefix)
  PROVE  a = b
<1>1. PICK l \in Nat : l = Len(prefix)
  OBVIOUS
<1>2. PICK m \in Nat : m = Len(a) /\ l < m
  BY <1>1 DEF Source!HasPrefix
<1>3. PICK n \in Nat : n = Len(b) /\ l < n
  BY <1>1 DEF Source!HasPrefix
<1>4. SubSeq(a, 1, l) = prefix /\ SubSeq(b, 1, l) = prefix
  BY <1>1 DEF Source!HasPrefix
<1>5. SubSeq(a, l + 1, m) = SubSeq(b, l + 1, n)
  BY <1>1, <1>2, <1>3 DEF Behind
<1>6. Len(SubSeq(a, l + 1, m)) = m - l /\ Len(SubSeq(b, l + 1, n)) = n - l
  BY <1>2, <1>3
<1>7. m = n
  BY <1>5, <1>6
<1>8. ASSUME NEW i \in 1 .. m PROVE a[i] = b[i]
  <2>1. CASE i \in 1 .. l
    <3>1. SubSeq(a, 1, l)[i] = a[i] /\ SubSeq(b, 1, l)[i] = b[i]
      BY <1>2, <1>3, <2>1
    <3>. QED BY <1>4, <3>1
  <2>2. CASE i \notin 1 .. l
    <3>1. PICK j \in 1 .. m - l : i = l + j
      <4>1. i - l \in 1 .. m - l /\ i = l + (i - l)
        BY <2>2
      <4>. QED BY <4>1
    <3>2. SubSeq(a, l + 1, m)[j] = a[l + j] /\ SubSeq(b, l + 1, n)[j] = b[l + j]
      BY <1>2, <1>3, <1>7
    <3>. QED BY <1>5, <3>1, <3>2
  <2>. QED BY <2>1, <2>2
<1>. QED BY <1>2, <1>3, <1>7, <1>8, SeqEqual

LEMMA BehindIsName ==
  ASSUME NEW prefix, Len(prefix) \in Nat, NEW a \in Seq(STRING), Source!HasPrefix(a, prefix)
  PROVE  Behind(a, prefix) \in Seq(STRING)
<1>1. PICK l \in Nat : l = Len(prefix)
  OBVIOUS
<1>2. PICK m \in Nat : m = Len(a) /\ l < m
  BY <1>1 DEF Source!HasPrefix
<1>. QED BY <1>1, <1>2 DEF Behind

LEMMA StripKeepsTensor ==
  ASSUME NEW x \in TensorType, NEW prefix, Len(prefix) \in Nat, Source!HasPrefix(x.key, prefix)
  PROVE  /\ Source!Strip(x, prefix) \in TensorType
         /\ Source!Strip(x, prefix).key = Behind(x.key, prefix)
         /\ LiesInFile(x) => LiesInFile(Source!Strip(x, prefix))
<1>1. x.key \in Seq(STRING)
  BY DEF TensorType
<1>2. Behind(x.key, prefix) \in Seq(STRING)
  BY <1>1, BehindIsName
<1>3. Source!Strip(x, prefix) = [x EXCEPT !.key = Behind(x.key, prefix)]
  BY DEF Source!Strip, Behind
<1>. QED BY <1>2, <1>3 DEF TensorType, LiesInFile

(* The first k tensors, without a prefix: which of them us holds, and that *)
(* it holds each of them once.                                             *)
TakenFrom(place, us, ts, prefix, k) ==
  /\ place \in [1 .. Len(us) -> 1 .. k]
  /\ \A a \in 1 .. Len(us) : /\ Source!HasPrefix(ts[place[a]].key, prefix)
                             /\ us[a] = Source!Strip(ts[place[a]], prefix)
  /\ \A a, b \in 1 .. Len(us) : place[a] = place[b] => a = b
  /\ \A i \in 1 .. k : Source!HasPrefix(ts[i].key, prefix) => \E a \in 1 .. Len(us) : place[a] = i

Keeps(us, ts, prefix, k) ==
  us \in Seq(TensorType) /\ \E place : TakenFrom(place, us, ts, prefix, k)

(* A tensor without the prefix is left out. *)
LEMMA KeepsWithout ==
  ASSUME NEW us, NEW ts, NEW prefix, NEW k \in Nat, Keeps(us, ts, prefix, k),
         ~ Source!HasPrefix(ts[k + 1].key, prefix)
  PROVE  Keeps(us, ts, prefix, k + 1)
<1>0. PICK place : TakenFrom(place, us, ts, prefix, k)
  BY DEF Keeps
<1>1. /\ place \in [1 .. Len(us) -> 1 .. k]
      /\ \A a \in 1 .. Len(us) : /\ Source!HasPrefix(ts[place[a]].key, prefix)
                                 /\ us[a] = Source!Strip(ts[place[a]], prefix)
      /\ \A a, b \in 1 .. Len(us) : place[a] = place[b] => a = b
      /\ \A i \in 1 .. k : Source!HasPrefix(ts[i].key, prefix) => \E a \in 1 .. Len(us) : place[a] = i
  BY <1>0 DEF TakenFrom
<1>2. \A i \in 1 .. k + 1 : i \in 1 .. k \/ i = k + 1
  OBVIOUS
<1>3. 1 .. k \subseteq 1 .. k + 1
  OBVIOUS
<1>4. place \in [1 .. Len(us) -> 1 .. k + 1]
  BY <1>1, <1>3
<1>5. \A i \in 1 .. k + 1 : Source!HasPrefix(ts[i].key, prefix) => \E a \in 1 .. Len(us) : place[a] = i
  BY <1>1, <1>2
<1>6. TakenFrom(place, us, ts, prefix, k + 1)
  BY <1>1, <1>4, <1>5 DEF TakenFrom
<1>. QED BY <1>6 DEF Keeps

LEMMA KeepsWith ==
  ASSUME NEW us, NEW ts, NEW prefix, Len(prefix) \in Nat, NEW k \in Nat, Keeps(us, ts, prefix, k),
         ts[k + 1] \in TensorType, Source!HasPrefix(ts[k + 1].key, prefix)
  PROVE  Keeps(Append(us, Source!Strip(ts[k + 1], prefix)), ts, prefix, k + 1)
<1>. DEFINE x == Source!Strip(ts[k + 1], prefix)
            vs == Append(us, x)
<1>0. PICK place : TakenFrom(place, us, ts, prefix, k)
  BY DEF Keeps
<1>1. /\ place \in [1 .. Len(us) -> 1 .. k]
      /\ \A a \in 1 .. Len(us) : /\ Source!HasPrefix(ts[place[a]].key, prefix)
                                 /\ us[a] = Source!Strip(ts[place[a]], prefix)
      /\ \A a, b \in 1 .. Len(us) : place[a] = place[b] => a = b
      /\ \A i \in 1 .. k : Source!HasPrefix(ts[i].key, prefix) => \E a \in 1 .. Len(us) : place[a] = i
  BY <1>0 DEF TakenFrom
<1>2. us \in Seq(TensorType) /\ x \in TensorType
  BY StripKeepsTensor DEF Keeps
<1>3. PICK n \in Nat : n = Len(us)
  BY <1>2
<1>. HIDE DEF x
<1>4. /\ vs \in Seq(TensorType) /\ Len(vs) = n + 1
      /\ vs[n + 1] = x /\ \A a \in 1 .. n : vs[a] = us[a]
  BY <1>2, <1>3
<1>. HIDE DEF vs
<1>. DEFINE later == [a \in 1 .. n + 1 |-> IF a = n + 1 THEN k + 1 ELSE place[a]]
<1>5. \A a \in 1 .. n + 1 : a = n + 1 \/ (a \in 1 .. n /\ a # n + 1)
  OBVIOUS
<1>6. \A a \in 1 .. n : a # n + 1 /\ a \in 1 .. n + 1 /\ place[a] \in 1 .. k /\ place[a] # k + 1
  BY <1>1, <1>3
<1>7. \A i \in 1 .. k + 1 : i \in 1 .. k \/ i = k + 1
  OBVIOUS
<1>8. n + 1 \in 1 .. n + 1 /\ k + 1 \in 1 .. k + 1 /\ 1 .. k \subseteq 1 .. k + 1
  OBVIOUS
<1>9. /\ later \in [1 .. n + 1 -> 1 .. k + 1]
      /\ later[n + 1] = k + 1
      /\ \A a \in 1 .. n : later[a] = place[a]
  BY <1>5, <1>6, <1>8
<1>. HIDE DEF later
<1>10. ASSUME NEW a \in 1 .. n + 1
       PROVE  /\ Source!HasPrefix(ts[later[a]].key, prefix)
              /\ vs[a] = Source!Strip(ts[later[a]], prefix)
  <2>1. CASE a = n + 1
    BY <1>4, <1>9, <2>1 DEF x
  <2>2. CASE a \in 1 .. n
    BY <1>1, <1>3, <1>4, <1>9, <2>2
  <2>. QED BY <1>5, <2>1, <2>2
<1>11. ASSUME NEW a \in 1 .. n + 1, NEW b \in 1 .. n + 1, later[a] = later[b]
       PROVE  a = b
  <2>1. CASE a = n + 1 /\ b \in 1 .. n
    BY <1>6, <1>9, <1>11, <2>1
  <2>2. CASE b = n + 1 /\ a \in 1 .. n
    BY <1>6, <1>9, <1>11, <2>2
  <2>3. CASE a \in 1 .. n /\ b \in 1 .. n
    BY <1>1, <1>3, <1>9, <1>11, <2>3
  <2>. QED BY <1>5, <2>1, <2>2, <2>3
<1>12. ASSUME NEW i \in 1 .. k + 1, Source!HasPrefix(ts[i].key, prefix)
       PROVE  \E a \in 1 .. n + 1 : later[a] = i
  <2>1. CASE i = k + 1
    BY <1>8, <1>9, <2>1
  <2>2. CASE i \in 1 .. k
    <3>1. PICK a \in 1 .. n : place[a] = i
      BY <1>1, <1>3, <1>12, <2>2
    <3>. QED BY <1>6, <1>9, <3>1
  <2>. QED BY <1>7, <2>1, <2>2
<1>13. Keeps(vs, ts, prefix, k + 1)
  <2>1. Len(vs) = n + 1 /\ vs \in Seq(TensorType)
    BY <1>4
  <2>2. later \in [1 .. n + 1 -> 1 .. k + 1]
    BY <1>9
  <2>3. \A a \in 1 .. n + 1 : /\ Source!HasPrefix(ts[later[a]].key, prefix)
                              /\ vs[a] = Source!Strip(ts[later[a]], prefix)
    BY <1>10
  <2>4. \A a, b \in 1 .. n + 1 : later[a] = later[b] => a = b
    BY <1>11
  <2>5. \A i \in 1 .. k + 1 : Source!HasPrefix(ts[i].key, prefix) => \E a \in 1 .. n + 1 : later[a] = i
    BY <1>12
  <2>6. TakenFrom(later, vs, ts, prefix, k + 1)
    BY <2>1, <2>2, <2>3, <2>4, <2>5 DEF TakenFrom
  <2>. QED BY <2>1, <2>6 DEF Keeps
<1>. QED BY <1>13 DEF vs, x

LEMMA UnwrappedKeeps ==
  ASSUME NEW ts \in Seq(TensorType), NEW prefix, Len(prefix) \in Nat
  PROVE  Keeps(Source!Unwrapped(ts, prefix), ts, prefix, Len(ts))
<1>. DEFINE S == Seq(TensorType)
            Step(x, i) == IF Source!HasPrefix(ts[i].key, prefix)
                          THEN Append(x, Source!Strip(ts[i], prefix)) ELSE x
            Upto(h) == h = [i \in 0 .. Len(ts) |-> IF i = 0 THEN <<>> ELSE Step(h[i - 1], i)]
            h == CHOOSE h : Upto(h)
<1>1. PICK n \in Nat : n = Len(ts)
  OBVIOUS
<1>2. \A i \in 1 .. n : ts[i] \in TensorType
  BY <1>1
<1>3. \A x \in S, i \in 1 .. n : Step(x, i) \in S
  <2>. SUFFICES ASSUME NEW x \in S, NEW i \in 1 .. n, Source!HasPrefix(ts[i].key, prefix)
                PROVE  Append(x, Source!Strip(ts[i], prefix)) \in S
    OBVIOUS
  <2>1. Source!Strip(ts[i], prefix) \in TensorType
    BY <1>2, StripKeepsTensor
  <2>. QED BY <2>1
<1>4. <<>> \in S
  OBVIOUS
<1>5. PICK g \in [0 .. n -> S] : g[0] = <<>> /\ \A i \in 1 .. n : g[i] = Step(g[i - 1], i)
  <2>. DEFINE step == [y \in S \X (1 .. n) |-> Step(y[1], y[2])]
  <2>1. step \in [S \X (1 .. n) -> S]
    BY <1>3
  <2>2. \A x \in S, i \in 1 .. n : step[<<x, i>>] = Step(x, i)
    OBVIOUS
  <2>. HIDE DEF step, S, Step
  <2>3. PICK g : Steps(g, n, S, <<>>, step)
    BY <1>4, <2>1, RecursionUpTo
  <2>4. \A i \in 1 .. n : g[i - 1] \in S
    <3>1. \A i \in 1 .. n : i - 1 \in 0 .. n
      OBVIOUS
    <3>. QED BY <2>3, <3>1 DEF Steps
  <2>. QED BY <2>2, <2>3, <2>4 DEF Steps
<1>. HIDE DEF Step
<1>6. Upto(g)
  <2>1. g = [i \in 0 .. n |-> g[i]]
    BY <1>5
  <2>2. \A i \in 0 .. n : i = 0 \/ i \in 1 .. n
    OBVIOUS
  <2>. QED BY <1>1, <1>5, <2>1, <2>2
<1>7. Upto(h)
  BY <1>6
<1>8. Source!Unwrapped(ts, prefix) = h[n]
  BY <1>1 DEF Source!Unwrapped, Step
<1>. HIDE DEF h
<1>9. h[n] = g[n]
  <2>1. h[0] = g[0] /\ \A i \in 1 .. n : h[i] = Step(h[i - 1], i)
    BY <1>1, <1>5, <1>7
  <2>2. \A i \in 1 .. n : h[i - 1] = g[i - 1] => h[i] = g[i]
    BY <1>5, <2>1
  <2>. HIDE DEF Upto
  <2>3. StepAlike(h, g, n)
    BY <2>1, <2>2 DEF StepAlike
  <2>4. \A i \in 0 .. n : h[i] = g[i]
    BY <2>3, SameUpTo
  <2>. QED BY <2>4
<1>10. Keeps(g[n], ts, prefix, n)
  <2>. DEFINE T == {i \in 0 .. n : Keeps(g[i], ts, prefix, i)}
  <2>1. 0 \in T
    <3>1. Len(<<>>) = 0 /\ <<>> \in Seq(TensorType)
      OBVIOUS
    <3>2. \A i \in 1 .. 0 : FALSE
      OBVIOUS
    <3>3. TakenFrom(<<>>, <<>>, ts, prefix, 0)
      BY <3>1, <3>2 DEF TakenFrom
    <3>4. Keeps(<<>>, ts, prefix, 0)
      BY <3>1, <3>3 DEF Keeps
    <3>. QED BY <1>5, <3>4
  <2>2. ASSUME NEW i \in 0 .. n - 1, i \in T PROVE i + 1 \in T
    <3>1. i + 1 \in 1 .. n /\ (i + 1) - 1 = i /\ i + 1 \in 0 .. n /\ i \in Nat
      OBVIOUS
    <3>2. g[i + 1] = Step(g[i], i + 1) /\ ts[i + 1] \in TensorType
      BY <1>2, <1>5, <3>1
    <3>3. Keeps(g[i], ts, prefix, i)
      BY <2>2
    <3>4. CASE Source!HasPrefix(ts[i + 1].key, prefix)
      <4>1. g[i + 1] = Append(g[i], Source!Strip(ts[i + 1], prefix))
        BY <3>2, <3>4 DEF Step
      <4>2. Keeps(Append(g[i], Source!Strip(ts[i + 1], prefix)), ts, prefix, i + 1)
        BY <3>1, <3>2, <3>3, <3>4, KeepsWith
      <4>. QED BY <3>1, <4>1, <4>2
    <3>5. CASE ~ Source!HasPrefix(ts[i + 1].key, prefix)
      <4>1. g[i + 1] = g[i]
        BY <3>2, <3>5 DEF Step
      <4>2. Keeps(g[i], ts, prefix, i + 1)
        BY <3>1, <3>3, <3>5, KeepsWithout
      <4>. QED BY <3>1, <4>1, <4>2
    <3>. QED BY <3>4, <3>5
  <2>3. n \in T
    <3>. HIDE DEF T
    <3>. QED BY <2>1, <2>2, InductionUpTo
  <2>. QED BY <2>3
<1>. QED BY <1>1, <1>8, <1>9, <1>10

DistinctKeys(ts) == \A i, j \in DOMAIN ts : i # j => ts[i].key # ts[j].key

(* What is left are the tensors with the prefix, told apart as before. *)
UnwrappedWell(us, ts, prefix) ==
  /\ us \in Seq(TensorType)
  /\ Source!Keys(us) =
       {Behind(name, prefix) : name \in {k \in Source!Keys(ts) : Source!HasPrefix(k, prefix)}}
  /\ DistinctKeys(ts) => DistinctKeys(us)
  /\ (\A i \in DOMAIN ts : LiesInFile(ts[i])) => \A i \in DOMAIN us : LiesInFile(us[i])

LEMMA UnwrappedKeys ==
  ASSUME NEW ts \in Seq(TensorType), NEW prefix, Len(prefix) \in Nat
  PROVE  UnwrappedWell(Source!Unwrapped(ts, prefix), ts, prefix)
<1>. DEFINE us == Source!Unwrapped(ts, prefix)
<1>1. us \in Seq(TensorType)
  BY UnwrappedKeeps DEF Keeps
<1>2. PICK place : TakenFrom(place, us, ts, prefix, Len(ts))
  BY UnwrappedKeeps DEF Keeps
<1>. HIDE DEF us
<1>3. DOMAIN us = 1 .. Len(us) /\ DOMAIN ts = 1 .. Len(ts)
  BY <1>1
<1>4. \A a \in DOMAIN us : place[a] \in DOMAIN ts
  BY <1>2, <1>3 DEF TakenFrom
<1>5. \A i \in DOMAIN ts : ts[i] \in TensorType /\ ts[i].key \in Seq(STRING)
  <2>1. \A i \in DOMAIN ts : ts[i] \in TensorType
    BY <1>3
  <2>2. \A x \in TensorType : x.key \in Seq(STRING)
    BY DEF TensorType
  <2>. QED BY <2>1, <2>2
<1>6. ASSUME NEW a \in DOMAIN us
      PROVE  /\ Source!HasPrefix(ts[place[a]].key, prefix)
             /\ us[a].key = Behind(ts[place[a]].key, prefix)
             /\ LiesInFile(ts[place[a]]) => LiesInFile(us[a])
  <2>1. Source!HasPrefix(ts[place[a]].key, prefix) /\ us[a] = Source!Strip(ts[place[a]], prefix)
    BY <1>2, <1>3 DEF TakenFrom
  <2>. QED BY <1>4, <1>5, <2>1, StripKeepsTensor
<1>7. Source!Keys(us) =
        {Behind(name, prefix) : name \in {k \in Source!Keys(ts) : Source!HasPrefix(k, prefix)}}
  <2>1. ASSUME NEW i \in DOMAIN ts, Source!HasPrefix(ts[i].key, prefix)
        PROVE  Behind(ts[i].key, prefix) \in Source!Keys(us)
    <3>1. PICK a \in DOMAIN us : place[a] = i
      BY <1>2, <1>3, <2>1 DEF TakenFrom
    <3>. QED BY <1>6, <3>1 DEF Source!Keys
  <2>. QED BY <1>4, <1>6, <2>1 DEF Source!Keys
<1>8. ASSUME DistinctKeys(ts), NEW a \in DOMAIN us, NEW b \in DOMAIN us, us[a].key = us[b].key
      PROVE  a = b
  <2>1. ts[place[a]].key = ts[place[b]].key
    BY <1>4, <1>5, <1>6, <1>8, PrefixCancels
  <2>2. place[a] = place[b]
    BY <1>4, <1>8, <2>1 DEF DistinctKeys
  <2>. QED BY <1>2, <1>3, <2>2 DEF TakenFrom
<1>9. DistinctKeys(ts) => DistinctKeys(us)
  BY <1>8 DEF DistinctKeys
<1>10. (\A i \in DOMAIN ts : LiesInFile(ts[i])) => \A i \in DOMAIN us : LiesInFile(us[i])
  BY <1>4, <1>6
<1>. QED BY <1>1, <1>7, <1>9, <1>10 DEF us, UnwrappedWell
-----------------------------------------------------------------------------
(* The invariant: names and places, at every point of reading.             *)

Metadata == <<"__metadata__">>

DiffusionModel == <<"model", "diffusion_model">>

AllNames == {file.entries[i].name : i \in DOMAIN file.entries}

NamesRead == {file.entries[i].name : i \in {j \in DOMAIN file.entries : j < entry}}

EntriesDiffer ==
  \A i, j \in DOMAIN file.entries : i # j => file.entries[i].name # file.entries[j].name

(* What NamesAreKept says of a run that ends well, said as soon as names   *)
(* are stripped.                                                           *)
WrappedIsTaken ==
  LET inside == {name \in AllNames : Source!HasPrefix(name, DiffusionModel)}
  IN  inside # {} /\ DecoderGate \notin AllNames =>
        Source!Keys(found) = {Behind(name, DiffusionModel) : name \in inside}

DecoderIsWhole == DecoderGate \in AllNames => Source!Keys(found) = AllNames \ {Metadata}

AllLieInFile == \A i \in DOMAIN found : LiesInFile(found[i])

NameInv ==
  /\ reading = "length" => entry = 1 /\ found = <<>>
  /\ reading = "entries" => Source!Keys(found) = NamesRead \ {Metadata}
  /\ reading = "naming" => Source!Keys(found) = AllNames \ {Metadata}
  /\ reading \in {"detecting", "done"} => WrappedIsTaken /\ DecoderIsWhole
  /\ EntriesDiffer => DistinctKeys(found)

SourceInv == PlaceInv /\ AllLieInFile /\ NameInv

LEMMA SourceInit == Source!SourceConstants /\ Source!Init => SourceInv
<1>. SUFFICES ASSUME Source!SourceConstants, Source!Init PROVE SourceInv
  OBVIOUS
<1>0. DOMAIN <<>> = {}
  OBVIOUS
<1>1. found = <<>> /\ DOMAIN found = {} /\ entry = 1 /\ reading = "length" /\ file \in Files
  BY <1>0 DEF Source!Init
<1>2. PlaceInv
  BY <1>1 DEF PlaceInv
<1>. QED BY <1>1, <1>2 DEF SourceInv, AllLieInFile, NameInv, DistinctKeys

(* Steps that leave the tensors alone keep what is said of each of them.   *)
LEMMA QuietStep ==
  ASSUME SourceInv, UNCHANGED <<file, found>>
  PROVE  /\ AllLieInFile'
         /\ EntriesDiffer' => DistinctKeys(found)'
         /\ Source!Keys(found)' = Source!Keys(found)
         /\ AllNames' = AllNames
         /\ WrappedIsTaken' <=> WrappedIsTaken
         /\ DecoderIsWhole' <=> DecoderIsWhole
<1>1. AllLieInFile'
  BY DEF SourceInv, AllLieInFile, LiesInFile
<1>2. EntriesDiffer' => DistinctKeys(found)'
  BY DEF SourceInv, NameInv, EntriesDiffer, DistinctKeys
<1>3. Source!Keys(found)' = Source!Keys(found) /\ AllNames' = AllNames
  BY DEF Source!Keys, AllNames
<1>. QED BY <1>1, <1>2, <1>3 DEF WrappedIsTaken, DecoderIsWhole

LEMMA StillSteps ==
  ASSUME SourceInv, UNCHANGED <<file, entry, found>>,
         reading' \in {"failed", reading} \/ (reading = "detecting" /\ reading' = "done")
  PROVE  SourceInv'
<1>1. PlaceInv'
  BY DEF SourceInv, PlaceInv
<1>2. NamesRead' = NamesRead
  BY DEF NamesRead
<1>3. NameInv'
  BY <1>2, QuietStep DEF SourceInv, NameInv
<1>. QED BY <1>1, <1>3, QuietStep DEF SourceInv

LEMMA ReadHeaderStep ==
  ASSUME SourceInv, Source!ReadHeader
  PROVE  SourceInv'
<1>1. reading = "length" /\ reading' = "entries" /\ UNCHANGED <<file, entry, found>>
  BY DEF Source!ReadHeader
<1>2. entry = 1 /\ found = <<>>
  BY <1>1 DEF SourceInv, NameInv
<1>3. Source!Keys(found) = {}
  BY <1>2 DEF Source!Keys
<1>4. file.entries \in Seq(Source!EntryType)
  BY DEF SourceInv, PlaceInv, Source!SourceConstants
<1>5. {j \in DOMAIN file.entries : j < entry} = {}
  BY <1>2, <1>4
<1>6. NamesRead = {} /\ NamesRead' = NamesRead
  BY <1>1, <1>5 DEF NamesRead
<1>7. NameInv'
  BY <1>1, <1>3, <1>6, QuietStep DEF NameInv
<1>8. PlaceInv'
  BY <1>1 DEF SourceInv, PlaceInv
<1>. QED BY <1>1, <1>7, <1>8, QuietStep DEF SourceInv

(* One entry more is read. *)
LEMMA OneMoreName ==
  ASSUME SourceInv, Source!HasEntry, entry' = entry + 1, UNCHANGED file
  PROVE  NamesRead' = NamesRead \cup {Source!Entry.name}
<1>1. PICK n \in Nat : n = entry
  BY DEF SourceInv, PlaceInv
<1>2. PICK es \in Seq(Source!EntryType) : es = file.entries
  BY DEF SourceInv, PlaceInv, Source!SourceConstants
<1>3. n \in DOMAIN es /\ Source!Entry = es[n]
  BY <1>1, <1>2, EntryIsTyped DEF SourceInv
<1>4. {j \in DOMAIN es : j < n + 1} = {j \in DOMAIN es : j < n} \cup {n}
  BY <1>3
<1>5. NamesRead = {es[i].name : i \in {j \in DOMAIN es : j < n}}
  BY <1>1, <1>2 DEF NamesRead
<1>6. NamesRead' = {es[i].name : i \in {j \in DOMAIN es : j < n + 1}}
  BY <1>1, <1>2 DEF NamesRead
<1>. QED BY <1>3, <1>4, <1>5, <1>6

LEMMA SkipMetadataStep ==
  ASSUME SourceInv, Source!SkipMetadata
  PROVE  SourceInv'
<1>1. /\ Source!HasEntry /\ Source!Entry.name = Metadata /\ entry' = entry + 1
      /\ UNCHANGED <<file, reading, found>> /\ reading = "entries"
  BY DEF Source!SkipMetadata, Metadata, Source!HasEntry
<1>2. NamesRead' \ {Metadata} = NamesRead \ {Metadata}
  BY <1>1, OneMoreName
<1>3. PlaceInv'
  BY <1>1 DEF SourceInv, PlaceInv
<1>4. NameInv'
  BY <1>1, <1>2, QuietStep DEF SourceInv, NameInv
<1>. QED BY <1>1, <1>3, <1>4, QuietStep DEF SourceInv

LEMMA AppendKeys ==
  ASSUME NEW ts \in Seq(TensorType), NEW x \in TensorType
  PROVE  /\ Append(ts, x) \in Seq(TensorType)
         /\ Source!Keys(Append(ts, x)) = Source!Keys(ts) \cup {x.key}
         /\ x.key \notin Source!Keys(ts) /\ DistinctKeys(ts) => DistinctKeys(Append(ts, x))
         /\ (\A i \in DOMAIN ts : LiesInFile(ts[i])) /\ LiesInFile(x) =>
              \A i \in DOMAIN Append(ts, x) : LiesInFile(Append(ts, x)[i])
<1>1. PICK n \in Nat : n = Len(ts) /\ DOMAIN ts = 1 .. n
  OBVIOUS
<1>2. PICK us \in Seq(TensorType) : us = Append(ts, x)
  <2>1. Append(ts, x) \in Seq(TensorType)
    OBVIOUS
  <2>. QED BY <2>1
<1>3. DOMAIN us = 1 .. n + 1 /\ us[n + 1] = x /\ \A i \in 1 .. n : us[i] = ts[i]
  BY <1>1, <1>2
<1>4. 1 .. n + 1 = (1 .. n) \cup {n + 1} /\ n + 1 \notin 1 .. n
  BY <1>1
<1>5. Source!Keys(us) = Source!Keys(ts) \cup {x.key}
  BY <1>1, <1>3, <1>4 DEF Source!Keys
<1>6. x.key \notin Source!Keys(ts) /\ DistinctKeys(ts) => DistinctKeys(us)
  BY <1>1, <1>3, <1>4 DEF Source!Keys, DistinctKeys
<1>7. (\A i \in DOMAIN ts : LiesInFile(ts[i])) /\ LiesInFile(x) =>
        \A i \in DOMAIN us : LiesInFile(us[i])
  BY <1>1, <1>3, <1>4
<1>. QED BY <1>2, <1>5, <1>6, <1>7

LEMMA AcceptTensorStep ==
  ASSUME SourceInv, Source!AcceptTensor
  PROVE  SourceInv'
<1>1. /\ Source!HasEntry /\ Source!Entry.name # Metadata
      /\ Source!Acceptable(Source!Entry) /\ entry' = entry + 1
      /\ UNCHANGED <<file, reading>> /\ reading = "entries"
  BY DEF Source!AcceptTensor, Metadata, Source!HasEntry
<1>2. PICK x : /\ x = [key |-> Source!Entry.name, source |-> Source!Entry.name,
                       shape |-> Source!Entry.shape, dtype |-> Source!Entry.dtype,
                       begin |-> Source!Begin(Source!Entry), end |-> Source!End(Source!Entry)]
               /\ found' = Append(found, x)
  BY DEF Source!AcceptTensor
<1>3. x \in TensorType /\ LiesInFile(x) /\ x.key = Source!Entry.name
  BY <1>1, <1>2, AcceptableLiesInFile DEF SourceInv
<1>4. found \in Seq(TensorType)
  BY DEF SourceInv, PlaceInv
<1>5. PlaceInv'
  BY <1>1, <1>2, <1>3, <1>4, AppendKeys DEF SourceInv, PlaceInv
<1>6. AllLieInFile'
  <2>1. \A i \in DOMAIN found' : LiesInFile(found'[i])
    BY <1>2, <1>3, <1>4, AppendKeys DEF SourceInv, AllLieInFile
  <2>. QED BY <1>1, <2>1 DEF AllLieInFile, LiesInFile
<1>7. Source!Keys(found') = NamesRead' \ {Metadata}
  <2>1. Source!Keys(found) = NamesRead \ {Metadata}
    BY <1>1 DEF SourceInv, NameInv
  <2>2. Source!Keys(found') = Source!Keys(found) \cup {Source!Entry.name}
    BY <1>2, <1>3, <1>4, AppendKeys
  <2>. QED BY <1>1, <2>1, <2>2, OneMoreName
<1>8. ASSUME EntriesDiffer PROVE DistinctKeys(found')
  <2>1. Source!Entry.name \notin NamesRead
    <3>1. entry \in DOMAIN file.entries /\ Source!Entry = file.entries[entry]
      BY <1>1, EntryIsTyped DEF SourceInv
    <3>2. entry \notin {j \in DOMAIN file.entries : j < entry}
      BY DEF SourceInv, PlaceInv
    <3>. QED BY <1>8, <3>1, <3>2 DEF EntriesDiffer, NamesRead
  <2>2. x.key \notin Source!Keys(found)
    BY <1>1, <1>3, <2>1 DEF SourceInv, NameInv
  <2>. QED BY <1>2, <1>3, <1>4, <1>8, <2>2, AppendKeys DEF SourceInv, NameInv
<1>9. EntriesDiffer' <=> EntriesDiffer
  BY <1>1 DEF EntriesDiffer
<1>10. NameInv'
  <2>1. Source!Keys(found)' = Source!Keys(found') /\ (DistinctKeys(found)' <=> DistinctKeys(found'))
    BY DEF Source!Keys, DistinctKeys
  <2>. QED BY <1>1, <1>7, <1>8, <1>9, <2>1 DEF NameInv
<1>. QED BY <1>5, <1>6, <1>10 DEF SourceInv

LEMMA EndHeaderStep ==
  ASSUME SourceInv, Source!EndHeader
  PROVE  SourceInv'
<1>1. /\ reading = "entries" /\ reading' = "naming" /\ entry > Len(file.entries)
      /\ UNCHANGED <<file, entry, found>>
  BY DEF Source!EndHeader
<1>2. file.entries \in Seq(Source!EntryType) /\ entry \in Nat
  BY DEF SourceInv, PlaceInv, Source!SourceConstants
<1>3. {j \in DOMAIN file.entries : j < entry} = DOMAIN file.entries
  BY <1>1, <1>2
<1>4. NamesRead = AllNames
  BY <1>3 DEF NamesRead, AllNames
<1>5. Source!Keys(found) = AllNames \ {Metadata}
  BY <1>1, <1>4 DEF SourceInv, NameInv
<1>6. NameInv'
  BY <1>1, <1>5, QuietStep DEF NameInv
<1>7. PlaceInv'
  BY <1>1 DEF SourceInv, PlaceInv
<1>. QED BY <1>1, <1>6, <1>7, QuietStep DEF SourceInv

-----------------------------------------------------------------------------
(* Stripping names. *)

(* strip_prefix keeps all tensors, or those with a prefix it strips. *)
LEMMA NamedKeeps ==
  ASSUME SourceInv
  PROVE  /\ Source!Named(found) \in Seq(TensorType)
         /\ \A i \in DOMAIN Source!Named(found) : LiesInFile(Source!Named(found)[i])
         /\ EntriesDiffer => DistinctKeys(Source!Named(found))
<1>1. EntriesDiffer => DistinctKeys(found)
  BY DEF SourceInv, NameInv
<1>2. found \in Seq(TensorType) /\ \A i \in DOMAIN found : LiesInFile(found[i])
  BY DEF SourceInv, PlaceInv, AllLieInFile
<1>3. ASSUME NEW prefix, Len(prefix) \in Nat
      PROVE
        /\ Source!Unwrapped(found, prefix) \in Seq(TensorType)
        /\ \A i \in DOMAIN Source!Unwrapped(found, prefix) : LiesInFile(Source!Unwrapped(found, prefix)[i])
        /\ EntriesDiffer => DistinctKeys(Source!Unwrapped(found, prefix))
  <2>. DEFINE us == Source!Unwrapped(found, prefix)
  <2>1. PICK ts \in Seq(TensorType) : ts = found
    BY <1>2
  <2>2. us = Source!Unwrapped(ts, prefix)
    BY <2>1
  <2>3. /\ us \in Seq(TensorType)
        /\ DistinctKeys(ts) => DistinctKeys(us)
        /\ (\A i \in DOMAIN ts : LiesInFile(ts[i])) => \A i \in DOMAIN us : LiesInFile(us[i])
    <3>. HIDE DEF us
    <3>1. Len(prefix) \in Nat
      BY <1>3
    <3>2. UnwrappedWell(us, ts, prefix)
      BY <2>2, <3>1, UnwrappedKeys
    <3>. QED BY <3>2 DEF UnwrappedWell
  <2>. HIDE DEF us
  <2>4. (\A i \in DOMAIN us : LiesInFile(us[i])) /\ (EntriesDiffer => DistinctKeys(us))
    BY <1>1, <1>2, <2>1, <2>3
  <2>. QED BY <2>3, <2>4 DEF us
<1>4. \/ Source!Named(found) = found
      \/ Source!Named(found) = Source!Unwrapped(found, Source!Wrapper(found))
      \/ Source!Named(found) = Source!Unwrapped(found, <<"net">>)
  BY DEF Source!Named
<1>5. /\ Len(<<"model", "diffusion_model">>) = 2
      /\ Len(<<"model">>) = 1 /\ Len(<<"net">>) = 1
  OBVIOUS
<1>6. Len(Source!Wrapper(found)) \in Nat
  BY <1>5 DEF Source!Wrapper
<1>. QED BY <1>1, <1>2, <1>3, <1>4, <1>5, <1>6

(* What has the longer prefix has the shorter one. *)
LEMMA LongerPrefix ==
  ASSUME NEW name \in Seq(STRING), Source!HasPrefix(name, DiffusionModel)
  PROVE  Source!HasPrefix(name, <<"model">>)
<1>1. PICK m \in Nat : m = Len(name) /\ 2 < m /\ 1 \in DOMAIN name
  <2>1. Len(DiffusionModel) = 2
    BY DEF DiffusionModel
  <2>. QED BY <2>1 DEF Source!HasPrefix
<1>2. SubSeq(name, 1, 2) = <<"model", "diffusion_model">>
  BY DEF Source!HasPrefix, DiffusionModel
<1>3. SubSeq(name, 1, 2)[1] = name[1] /\ <<"model", "diffusion_model">>[1] = "model"
  BY <1>1
<1>4. name[1] = "model" /\ "model" \in STRING
  <2>1. name[1] \in STRING
    BY <1>1
  <2>. QED BY <1>2, <1>3, <2>1
<1>5. SubSeq(name, 1, 1) = <<"model">>
  <2>1. SubSeq(name, 1, 1) \in Seq(STRING)
    BY <1>1
  <2>2. Len(SubSeq(name, 1, 1)) = 1 /\ SubSeq(name, 1, 1)[1] = "model"
    BY <1>1, <1>4
  <2>3. <<"model">> \in Seq(STRING)
    BY <1>4
  <2>4. Len(<<"model">>) = 1 /\ <<"model">>[1] = "model"
    OBVIOUS
  <2>5. \A i \in 1 .. 1 : SubSeq(name, 1, 1)[i] = <<"model">>[i]
    BY <2>2, <2>4
  <2>. QED BY <2>1, <2>2, <2>3, <2>4, <2>5, SeqEqual
<1>6. Len(<<"model">>) = 1
  OBVIOUS
<1>. QED BY <1>1, <1>5, <1>6 DEF Source!HasPrefix

LEMMA MetadataIsShort ==
  ~ Source!HasPrefix(Metadata, DiffusionModel)
<1>1. Len(Metadata) = 1 /\ Len(DiffusionModel) = 2
  BY DEF Metadata, DiffusionModel
<1>. QED BY <1>1 DEF Source!HasPrefix

LEMMA StripPrefixStep ==
  ASSUME SourceInv, Source!StripPrefix
  PROVE  SourceInv'
<1>1. /\ reading = "naming" /\ reading' = "detecting" /\ found' = Source!Named(found)
      /\ UNCHANGED <<file, entry>>
  BY DEF Source!StripPrefix
<1>2. Source!Keys(found) = AllNames \ {Metadata}
  BY <1>1 DEF SourceInv, NameInv
<1>3. found \in Seq(TensorType)
  BY DEF SourceInv, PlaceInv
<1>4. PlaceInv'
  BY <1>1, NamedKeeps DEF SourceInv, PlaceInv
<1>5. AllLieInFile'
  <2>1. \A i \in DOMAIN found' : LiesInFile(found'[i])
    BY <1>1, NamedKeeps
  <2>. QED BY <1>1, <2>1 DEF AllLieInFile, LiesInFile
<1>6. EntriesDiffer' => DistinctKeys(found)'
  <2>1. EntriesDiffer' <=> EntriesDiffer
    BY <1>1 DEF EntriesDiffer
  <2>2. DistinctKeys(found)' <=> DistinctKeys(found')
    BY DEF DistinctKeys
  <2>. QED BY <1>1, <2>1, <2>2, NamedKeeps
<1>7. DecoderGate \in AllNames => DecoderGate \in Source!Keys(found)
  BY <1>2 DEF Metadata, SourceInv, PlaceInv, Source!SourceConstants
<1>8. DecoderGate \in AllNames => Source!Keys(found') = AllNames \ {Metadata}
  <2>1. DecoderGate \in Source!Keys(found) => Source!Named(found) = found
    BY DEF Source!Named
  <2>. QED BY <1>1, <1>2, <1>7, <2>1
<1>9. ASSUME DecoderGate \notin AllNames,
             {name \in AllNames : Source!HasPrefix(name, DiffusionModel)} # {}
      PROVE  Source!Keys(found') =
               {Behind(name, DiffusionModel) :
                  name \in {k \in AllNames : Source!HasPrefix(k, DiffusionModel)}}
  <2>1. PICK name \in Source!Keys(found) : Source!HasPrefix(name, DiffusionModel)
    BY <1>2, <1>9, MetadataIsShort
  <2>2. PICK i \in DOMAIN found : name = found[i].key
    BY <2>1 DEF Source!Keys
  <2>3. name \in Seq(STRING)
    <3>1. found[i] \in TensorType
      BY <1>3
    <3>. QED BY <2>2, <3>1 DEF TensorType
  <2>4. Source!Some(found, DiffusionModel) /\ Source!Some(found, <<"model">>)
    BY <2>1, <2>2, <2>3, LongerPrefix DEF Source!Some
  <2>5. DecoderGate \notin Source!Keys(found)
    BY <1>2, <1>9
  <2>6. Source!Wrapper(found) = DiffusionModel
    BY <2>4 DEF Source!Wrapper, DiffusionModel
  <2>7. Source!Named(found) = Source!Unwrapped(found, DiffusionModel)
    BY <2>4, <2>5, <2>6 DEF Source!Named
  <2>8. Source!Keys(Source!Unwrapped(found, DiffusionModel)) =
          {Behind(k, DiffusionModel) :
             k \in {l \in Source!Keys(found) : Source!HasPrefix(l, DiffusionModel)}}
    <3>1. Len(DiffusionModel) = 2
      BY DEF DiffusionModel
    <3>2. UnwrappedWell(Source!Unwrapped(found, DiffusionModel), found, DiffusionModel)
      BY <1>3, <3>1, UnwrappedKeys
    <3>. QED BY <3>2 DEF UnwrappedWell
  <2>9. {l \in Source!Keys(found) : Source!HasPrefix(l, DiffusionModel)}
          = {k \in AllNames : Source!HasPrefix(k, DiffusionModel)}
    BY <1>2, MetadataIsShort
  <2>. QED BY <1>1, <2>7, <2>8, <2>9
<1>10. Source!Keys(found)' = Source!Keys(found') /\ AllNames' = AllNames
  BY <1>1 DEF Source!Keys, AllNames
<1>11. WrappedIsTaken'
  BY <1>9, <1>10 DEF WrappedIsTaken
<1>12. DecoderIsWhole'
  BY <1>8, <1>10 DEF DecoderIsWhole
<1>13. NameInv'
  BY <1>1, <1>6, <1>11, <1>12 DEF NameInv
<1>. QED BY <1>4, <1>5, <1>13 DEF SourceInv

LEMMA SourceStep == SourceInv /\ [Source!Next]_Source!vars => SourceInv'
<1>. SUFFICES ASSUME SourceInv, [Source!Next]_Source!vars PROVE SourceInv'
  OBVIOUS
<1>1. CASE UNCHANGED Source!vars
  BY <1>1, StillSteps DEF Source!vars
<1>2. CASE Source!ReadHeader
  BY <1>2, ReadHeaderStep
<1>3. CASE Source!SkipMetadata
  BY <1>3, SkipMetadataStep
<1>4. CASE Source!AcceptTensor
  BY <1>4, AcceptTensorStep
<1>5. CASE Source!EndHeader
  BY <1>5, EndHeaderStep
<1>6. CASE Source!StripPrefix
  BY <1>6, StripPrefixStep
<1>7. CASE Source!RefuseHeader \/ Source!RefuseTensor \/ Source!RefuseArch
  BY <1>7, StillSteps DEF Source!RefuseHeader, Source!RefuseTensor, Source!RefuseArch, Source!Fail
<1>8. CASE Source!DetectArch
  BY <1>8, StillSteps DEF Source!DetectArch
<1>. QED BY <1>1, <1>2, <1>3, <1>4, <1>5, <1>6, <1>7, <1>8 DEF Source!Next

(* The invariant is inductive. *)
THEOREM SourceIsSafe == Source!Spec => []SourceInv
BY SourceInit, SourceStep, ReadersAssumption, PTL DEF Source!Spec

(* Whatever sums and products of the header wrap in the program's words,   *)
(* the bytes of an accepted tensor lie in the file and are as many as its  *)
(* shape and type ask for.                                                 *)
THEOREM TensorsLieInTheirFile == Source!Spec => []AcceptedLiesInFile
<1>1. SourceInv => AcceptedLiesInFile
  BY DEF SourceInv, AllLieInFile, LiesInFile, Source!AcceptedLiesInFile, AcceptedLiesInFile
<1>. QED BY <1>1, SourceIsSafe, PTL

(* strip_prefix makes no two names one, takes a wrapped model whole and    *)
(* alone, and leaves a decoder as it is.                                   *)
THEOREM StrippingKeepsNames == Source!Spec => []NamesAreKept
<1>1. ASSUME SourceInv PROVE NamesAreKept
  <2>1. Source!NamesStayDistinct
    BY <1>1 DEF SourceInv, NameInv, Source!NamesStayDistinct, EntriesDiffer, DistinctKeys
  <2>2. reading = "done" => WrappedIsTaken /\ DecoderIsWhole
    BY <1>1 DEF SourceInv, NameInv
  <2>3. Source!WrappedModelIsTaken
    BY <2>2 DEF WrappedIsTaken, Source!WrappedModelIsTaken, AllNames, DiffusionModel, Behind
  <2>4. Source!DecoderStaysWhole
    BY <2>2 DEF DecoderIsWhole, Source!DecoderStaysWhole, AllNames, Metadata
  <2>. QED BY <2>1, <2>3, <2>4 DEF Source!NamesAreKept, NamesAreKept
<1>. QED BY <1>1, SourceIsSafe, PTL

=============================================================================
