--------------------------- MODULE IqTables_proofs --------------------------
(***************************************************************************)
(* What kernels rely on of the tables of the IQ types.                     *)
(*                                                                         *)
(* They are there: a host makes the first call for a table alone, frees    *)
(* the tables only between calls, and does not reach a kernel before a     *)
(* call of libgguf_quantize_chunk has built its table.  Then for any       *)
(* number of callers, types and rounds of building and freeing, kernels    *)
(* read only finished tables of their own type, and no array is lost.      *)
(*                                                                         *)
(* They are right: a table fits its memory and leads every code to the     *)
(* nearest points of the grid, for every lattice and grid.                 *)
(***************************************************************************)
EXTENDS IqTables, Kernels, FiniteSetTheorems, SequenceTheorems, TLAPS

Coordinated == ~ Uncoordinated /\ ~ ColdFused

Building == {"grid", "map", "index", "neighbours", "fill"}

Active(c) == call[c].step \notin {"idle", "plain"}

(* The pointer refers to a live array of the recipe, filled so far. *)
Holds(s, p, state, t) ==
  LET i == slot[s][p]
  IN  /\ i \in 1 .. Len(array)
      /\ array[i].state = state
      /\ ~ array[i].freed
      /\ array[i].recipe = Recipe(t)

Whole(s, t) == \A p \in Pointers : Holds(s, p, "complete", t)

Empty(s) == slot[s] = NoPointers

(* How far a builder has come with its slot. *)
Progress(c) ==
  LET s == MySlot(c)
      t == call[c].type
  IN  /\ At(c, "test") => Empty(s) \/ Whole(s, t)
      /\ At(c, "grid") => Empty(s)
      /\ At(c, "map") => slot[s].map = Null
      /\ At(c, "index") => Holds(s, "map", "raw", t)
      /\ At(c, "neighbours") => Holds(s, "map", "indexed", t)
      /\ At(c, "fill") => Holds(s, "map", "indexed", t) /\ Holds(s, "neighbours", "raw", t)
      /\ call[c].step \in Building \ {"grid"} => Holds(s, "grid", "complete", t)
      /\ call[c].step \in Building \ {"grid", "fill"} => slot[s].neighbours = Null
      /\ call[c].step \in {"index", "neighbours", "fill"} => own[c].map = slot[s].map
      /\ At(c, "fill") => own[c].neighbours = slot[s].neighbours
      /\ call[c].step \in {"kernel", "encode"} => Whole(s, t)
      /\ At(c, "encode") => read[c] = slot[s]

CallInv ==
  /\ \A c \in Callers : Active(c) => call[c].type \in IqTypes
  /\ \A c \in Callers : Active(c) => Progress(c)
  /\ toFree # <<>> => \A c \in Callers : At(c, "idle")

(* A slot is empty, finished, or in the hands of one builder. *)
SlotInv ==
  \A t \in IqTypes :
    \/ Empty(SlotOf(t))
    \/ Whole(SlotOf(t), t)
    \/ \E c \in Callers : call[c].step \in Building /\ MySlot(c) = SlotOf(t)

(* Two calls share a slot only when it is finished. *)
SharedInv ==
  \A c, d \in Callers :
    c # d /\ Active(c) /\ Active(d) /\ MySlot(c) = MySlot(d) => Finished(MySlot(c))

(* No array is referred to from two slots. *)
DistinctInv ==
  \A r, s \in Slots, p, q \in Pointers :
    slot[r][p] # Null /\ slot[r][p] = slot[s][q] => r = s

IInv == TypeOK /\ CallInv /\ SlotInv /\ SharedInv /\ DistinctInv /\ NothingLeaks

-----------------------------------------------------------------------------
(* Slots and recipes: types that share a slot share its recipe. *)
LEMMA SlotFacts ==
  /\ \A t \in IqTypes : SlotOf(t) \in Slots
  /\ \A t, u \in IqTypes : SlotOf(t) = SlotOf(u) => Recipe(t) = Recipe(u)
  /\ "none" \notin IqTypes
<1>1. \A t \in IqTypes : SlotOf(t) \in Slots
  BY DEF Slots
<1>2. \A t, u \in IqTypes : SlotOf(t) = SlotOf(u) => Recipe(t) = Recipe(u)
  BY DEF SlotOf, Recipe, IqTypes, Iq2Types, Iq3Types
<1>3. "none" \notin IqTypes
  BY DEF IqTypes, Iq2Types, Iq3Types
<1>. QED BY <1>1, <1>2, <1>3

LEMMA FreeOrderType == FreeOrder \in Seq(Slots)
<1>1. \A t \in {"IQ2_XXS", "IQ2_XS", "IQ2_S", "IQ1_S", "IQ1_M", "IQ3_XXS", "IQ3_S"} :
        SlotOf(t) \in Slots
  BY SlotFacts DEF IqTypes, Iq2Types, Iq3Types
<1>. QED BY <1>1 DEF FreeOrder

LEMMA PointerNames ==
  /\ Pointers = {"grid", "map", "neighbours"}
  /\ \A f : f \in PointerTypes =>
       f \in [Pointers -> Int] /\ \A p \in Pointers :
         f[p] = Null \/ (f[p] \in 1 .. Len(array) /\ array[f[p]].holds = p)
BY DEF Pointers, PointerTypes, ArraysOf, Null

(* An active caller has a slot, and its record is that of a slot. *)
LEMMA ActiveFacts ==
  ASSUME IInv, NEW c \in Callers, Active(c)
  PROVE  /\ call[c].type \in IqTypes
         /\ MySlot(c) \in Slots
         /\ slot[MySlot(c)] \in PointerTypes
         /\ Progress(c)
         /\ toFree = <<>>
<1>1. call[c].type \in IqTypes /\ Progress(c)
  BY DEF IInv, CallInv
<1>2. MySlot(c) \in Slots
  BY <1>1, SlotFacts DEF MySlot
<1>3. slot[MySlot(c)] \in PointerTypes
  BY <1>2 DEF IInv, TypeOK
<1>4. toFree = <<>>
  BY DEF IInv, CallInv, Active, At
<1>. QED BY <1>1, <1>2, <1>3, <1>4

(* A slot whose neighbours are complete is complete. *)
LEMMA FinishedIsWhole ==
  ASSUME IInv, NEW t \in IqTypes, Finished(SlotOf(t))
  PROVE  Whole(SlotOf(t), t)
<1>1. ~ Empty(SlotOf(t))
  BY DEF Finished, Empty, NoPointers, Pointers, Null
<1>2. ASSUME NEW c \in Callers, call[c].step \in Building, MySlot(c) = SlotOf(t)
      PROVE  FALSE
  <2>1. Active(c)
    BY <1>2 DEF Active, Building
  <2>2. Progress(c)
    BY <2>1, ActiveFacts
  <2>. QED BY <1>1, <1>2, <2>2 DEF Progress, Building, Finished, Holds, At
<1>. QED BY <1>1, <1>2 DEF IInv, SlotInv

-----------------------------------------------------------------------------
(* Steps that leave the tables alone. *)

(* A caller that does not move has the progress it had. *)
LEMMA OthersProgress ==
  ASSUME UNCHANGED <<slot, array>>, NEW d \in Callers, call'[d] = call[d],
         own'[d] = own[d], read'[d] = read[d], Progress(d)
  PROVE  Progress(d)'
BY ZenonT(60) DEF Progress, At, MySlot, Empty, Whole, Holds

LEMMA SameTables ==
  ASSUME UNCHANGED <<slot, array>>
  PROVE  /\ \A s : Empty(s)' = Empty(s) /\ Finished(s)' = Finished(s)
         /\ \A s, t : Whole(s, t)' = Whole(s, t)
         /\ DistinctInv => DistinctInv'
         /\ NothingLeaks => NothingLeaks'
         /\ PointerTypes' = PointerTypes
<1>1. \A s : Empty(s)' = Empty(s) /\ Finished(s)' = Finished(s)
  BY DEF Empty, Finished
<1>2. \A s, t : Whole(s, t)' = Whole(s, t)
  BY DEF Whole, Holds
<1>3. DistinctInv => DistinctInv'
  BY DEF DistinctInv
<1>4. NothingLeaks => NothingLeaks'
  BY DEF NothingLeaks
<1>5. PointerTypes' = PointerTypes
  BY DEF PointerTypes, ArraysOf
<1>. QED BY <1>1, <1>2, <1>3, <1>4, <1>5

(* One caller moves and the tables stay: what it must be shown to keep. *)
LEMMA OneMoves ==
  ASSUME IInv, TypeOK', UNCHANGED <<slot, array>>, NEW c \in Callers,
         \A d \in Callers \ {c} : call'[d] = call[d] /\ own'[d] = own[d] /\ read'[d] = read[d],
         toFree' = <<>>,
         Active(c)' => call'[c].type \in IqTypes /\ Progress(c)',
         call[c].step \in Building => call'[c].step \in Building /\ call'[c].type = call[c].type,
         \A d \in Callers \ {c} :
           Active(c)' /\ Active(d) /\ MySlot(d) = MySlot(c)' => Finished(MySlot(d))
  PROVE  IInv'
<1>1. \A d \in Callers \ {c} : Active(d)' = Active(d) /\ MySlot(d)' = MySlot(d)
  BY DEF Active, MySlot
<1>2. CallInv'
  <2>1. ASSUME NEW d \in Callers \ {c}, Active(d)'
        PROVE  call'[d].type \in IqTypes /\ Progress(d)'
    BY <1>1, <2>1, OthersProgress DEF IInv, CallInv
  <2>. QED BY <2>1 DEF CallInv
<1>3. SlotInv'
  <2>1. SUFFICES ASSUME NEW t \in IqTypes
                 PROVE  \/ Empty(SlotOf(t))
                        \/ Whole(SlotOf(t), t)
                        \/ \E d \in Callers : call'[d].step \in Building /\ SlotOf(call'[d].type) = SlotOf(t)
    BY SameTables DEF SlotInv, MySlot
  <2>2. CASE \E d \in Callers : call[d].step \in Building /\ MySlot(d) = SlotOf(t)
    BY <2>2, <1>1 DEF MySlot
  <2>. QED BY <2>2 DEF IInv, SlotInv
<1>4. SharedInv'
  BY <1>1, SameTables DEF SharedInv, IInv
<1>5. DistinctInv' /\ NothingLeaks'
  BY SameTables DEF IInv
<1>. QED BY <1>2, <1>3, <1>4, <1>5 DEF IInv

LEMMA EnterKeeps ==
  ASSUME Coordinated, IInv, NEW c \in Callers, NEW t \in Types, NEW first \in {"test", "kernel"},
         first = "kernel" => Ready(t), Enter(c, t, first)
  PROVE  IInv'
<1>1. /\ toFree = <<>> /\ toFree' = <<>> /\ call[c].step = "idle"
      /\ UNCHANGED <<slot, array, own, read>>
      /\ Quiet \/ Ready(t)
  BY DEF Enter, MayCall, Coordinated, Quiet, At
<1>2. /\ \A d \in Callers \ {c} : call'[d] = call[d]
      /\ call'[c].type = t
      /\ call'[c].step = IF t \in IqTypes THEN first ELSE "plain"
  BY DEF Enter, IInv, TypeOK
<1>3. TypeOK'
  <2>1. call' \in [Callers -> [step : Steps, type : Types \union {"none"}]]
    BY DEF Enter, IInv, TypeOK, Steps
  <2>. QED BY <1>1, <2>1, SameTables DEF IInv, TypeOK
<1>4. Active(c)' => t \in IqTypes
  BY <1>2 DEF Active
<1>5. ASSUME t \in IqTypes
      PROVE  Progress(c)'
  <2>1. Empty(SlotOf(t)) \/ Whole(SlotOf(t), t)
    <3>1. CASE Ready(t)
      BY <3>1, <1>5, FinishedIsWhole DEF Ready
    <3>2. CASE Quiet
      BY <3>2, <1>5 DEF Quiet, IInv, SlotInv, Building, At
    <3>. QED BY <1>1, <3>1, <3>2
  <2>2. first = "kernel" => Whole(SlotOf(t), t)
    BY <1>5, FinishedIsWhole DEF Ready
  <2>. QED BY <1>1, <1>2, <1>5, <2>1, <2>2, SameTables DEF Progress, At, MySlot, Building
<1>6. ASSUME t \in IqTypes, NEW d \in Callers \ {c}, Active(d), MySlot(d) = MySlot(c)'
      PROVE  Finished(MySlot(d))
  BY <1>1, <1>2, <1>6 DEF Quiet, Active, At, Ready, MySlot
<1>. QED BY <1>1, <1>2, <1>3, <1>4, <1>5, <1>6, OneMoves DEF Building

(* The same for an active caller that goes on with its call. *)
LEMMA GoesOn ==
  ASSUME IInv, UNCHANGED <<slot, array, own, toFree>>, NEW c \in Callers, Active(c),
         call[c].step \notin Building, NEW step \in Steps \ {"idle", "plain"}, Goto(c, step),
         read' \in [Callers -> PointerTypes],
         \A d \in Callers \ {c} : read'[d] = read[d],
         Progress(c)'
  PROVE  IInv'
<1>1. /\ \A d \in Callers \ {c} : call'[d] = call[d]
      /\ call'[c].type = call[c].type /\ call'[c].step = step
      /\ call' \in [Callers -> [step : Steps, type : Types \union {"none"}]]
  BY DEF Goto, IInv, TypeOK
<1>2. TypeOK'
  BY <1>1, SameTables DEF IInv, TypeOK
<1>3. \A d \in Callers \ {c} : Active(d) /\ MySlot(d) = MySlot(c)' => Finished(MySlot(d))
  BY <1>1 DEF IInv, SharedInv, MySlot
<1>. QED BY <1>1, <1>2, <1>3, ActiveFacts, OneMoves

LEMMA TestGridKeeps ==
  ASSUME IInv, NEW c \in Callers, TestGrid(c)
  PROVE  IInv'
<1>1. Active(c) /\ call[c].step = "test" /\ UNCHANGED <<slot, array, own, read, toFree>>
  BY DEF TestGrid, At, Active
<1>2. /\ Progress(c) /\ slot[MySlot(c)] \in PointerTypes
      /\ Empty(MySlot(c)) \/ Whole(MySlot(c), call[c].type)
  BY <1>1, ActiveFacts DEF Progress, At
<1>3. PICK step \in {"grid", "kernel"} :
        /\ Goto(c, step)
        /\ step = "grid" => MustBuild(c)
        /\ step = "kernel" => ~ MustBuild(c)
  BY DEF TestGrid
<1>4. call'[c].type = call[c].type /\ call'[c].step = step
  BY <1>3 DEF Goto, IInv, TypeOK
<1>5. Progress(c)'
  <2>1. step = "grid" => Empty(MySlot(c))
    BY <1>2, <1>3 DEF MustBuild, Whole, Holds, Pointers, Null
  <2>2. step = "kernel" => Whole(MySlot(c), call[c].type)
    BY <1>2, <1>3 DEF MustBuild, Empty, NoPointers, Pointers
  <2>. QED BY <1>1, <1>4, <2>1, <2>2, SameTables DEF Progress, At, MySlot, Building
<1>. QED BY <1>1, <1>3, <1>5, GoesOn DEF Building, Steps, IInv, TypeOK

LEMMA LoadPointersKeeps ==
  ASSUME IInv, NEW c \in Callers, LoadPointers(c)
  PROVE  IInv'
<1>1. Active(c) /\ call[c].step = "kernel" /\ UNCHANGED <<slot, array, own, toFree>>
  BY DEF LoadPointers, At, Active
<1>2. /\ Progress(c) /\ slot[MySlot(c)] \in PointerTypes
      /\ Whole(MySlot(c), call[c].type)
  BY <1>1, ActiveFacts DEF Progress, At
<1>3. /\ read' \in [Callers -> PointerTypes]
      /\ \A d \in Callers \ {c} : read'[d] = read[d]
      /\ read'[c] = slot[MySlot(c)]
  BY <1>2 DEF LoadPointers, IInv, TypeOK
<1>4. Goto(c, "encode") /\ call'[c].type = call[c].type /\ call'[c].step = "encode"
  BY DEF LoadPointers, Goto, IInv, TypeOK
<1>5. Progress(c)'
  BY <1>1, <1>2, <1>3, <1>4, SameTables DEF Progress, At, MySlot, Building
<1>. QED BY <1>1, <1>3, <1>4, <1>5, GoesOn DEF Building, Steps

LEMMA NextRowKeeps ==
  ASSUME IInv, NEW c \in Callers, NextRow(c)
  PROVE  IInv'
<1>1. Active(c) /\ call[c].step = "encode" /\ UNCHANGED <<slot, array, own, read, toFree>>
  BY DEF NextRow, At, Active
<1>2. Progress(c) /\ Whole(MySlot(c), call[c].type)
  BY <1>1, ActiveFacts DEF Progress, At
<1>3. Goto(c, "kernel") /\ call'[c].type = call[c].type /\ call'[c].step = "kernel"
  BY DEF NextRow, Goto, IInv, TypeOK
<1>4. Progress(c)'
  BY <1>1, <1>2, <1>3, SameTables DEF Progress, At, MySlot, Building
<1>5. read' \in [Callers -> PointerTypes]
  BY <1>1 DEF IInv, TypeOK
<1>. QED BY <1>1, <1>3, <1>4, <1>5, GoesOn DEF Building, Steps

LEMMA LeaveKeeps ==
  ASSUME IInv, NEW c \in Callers, PlainReturn(c) \/ Return(c)
  PROVE  IInv'
<1>1. call[c].step \in {"plain", "encode"} /\ UNCHANGED <<slot, array, toFree>>
  BY DEF PlainReturn, Return, At
<1>2. /\ \A d \in Callers \ {c} : call'[d] = call[d] /\ own'[d] = own[d] /\ read'[d] = read[d]
      /\ call'[c].step = "idle"
      /\ call' \in [Callers -> [step : Steps, type : Types \union {"none"}]]
  BY DEF PlainReturn, Return, Idle, Steps, IInv, TypeOK
<1>3. own' \in [Callers -> PointerTypes] /\ read' \in [Callers -> PointerTypes]
  <2>1. NoPointers \in PointerTypes
    BY DEF NoPointers, PointerTypes, Null, IInv, TypeOK
  <2>. QED BY <2>1 DEF PlainReturn, Return, IInv, TypeOK
<1>4. TypeOK'
  BY <1>1, <1>2, <1>3, SameTables DEF IInv, TypeOK
<1>5. toFree = <<>>
  BY <1>1 DEF IInv, CallInv, At
<1>. QED BY <1>1, <1>2, <1>4, <1>5, OneMoves DEF Active, Building

-----------------------------------------------------------------------------
(* Steps of a builder. *)

(* No other call works with the slot that is being built. *)
LEMMA BuilderIsAlone ==
  ASSUME IInv, NEW c \in Callers, call[c].step \in Building
  PROVE  /\ Active(c)
         /\ \A d \in Callers \ {c} : Active(d) => MySlot(d) # MySlot(c)
<1>1. Active(c)
  BY DEF Active, Building
<1>2. Progress(c)
  BY <1>1, ActiveFacts
<1>3. ~ Finished(MySlot(c))
  BY <1>2 DEF Progress, Building, Finished, Holds, Empty, NoPointers, Pointers, At
<1>. QED BY <1>1, <1>3 DEF IInv, SharedInv

(* A builder's step that leaves the other slots and their arrays alone. *)
LEMMA BuilderMoves ==
  ASSUME IInv, TypeOK', NEW c \in Callers, call[c].step \in Building,
         Len(array') >= Len(array),
         \A s \in Slots \ {MySlot(c)} :
           /\ slot'[s] = slot[s]
           /\ \A p \in Pointers : slot[s][p] # Null => array'[slot[s][p]] = array[slot[s][p]],
         \A d \in Callers \ {c} : call'[d] = call[d] /\ own'[d] = own[d] /\ read'[d] = read[d],
         toFree' = toFree,
         call'[c].type = call[c].type, call'[c].step \in Building \union {"kernel"},
         Progress(c)', DistinctInv', NothingLeaks'
  PROVE  IInv'
<1>1. /\ Active(c) /\ call[c].type \in IqTypes /\ MySlot(c) \in Slots /\ toFree = <<>>
      /\ \A d \in Callers \ {c} : Active(d) => MySlot(d) # MySlot(c)
  BY BuilderIsAlone, ActiveFacts
<1>2. /\ Len(array) \in Nat /\ Len(array') \in Nat
  BY DEF IInv, TypeOK
<1>3. \A d \in Callers \ {c} : Active(d)' = Active(d) /\ MySlot(d)' = MySlot(d)
  BY DEF Active, MySlot
<1>4. ASSUME NEW s \in Slots \ {MySlot(c)}
      PROVE  /\ Empty(s) => Empty(s)'
             /\ Finished(s) => Finished(s)'
             /\ \A p \in Pointers : \A state, t : Holds(s, p, state, t) => Holds(s, p, state, t)'
  <2>1. Empty(s) => Empty(s)'
    BY DEF Empty
  <2>2. Finished(s) => Finished(s)'
    BY DEF Finished, Pointers
  <2>3. ASSUME NEW p \in Pointers, NEW state, NEW t, Holds(s, p, state, t)
        PROVE  Holds(s, p, state, t)'
    <3>1. slot'[s][p] = slot[s][p] /\ slot[s][p] \in 1 .. Len(array)
      BY <2>3 DEF Holds
    <3>2. array'[slot[s][p]] = array[slot[s][p]]
      BY <1>2, <3>1 DEF Null
    <3>. QED BY <1>2, <2>3, <3>1, <3>2 DEF Holds
  <2>. QED BY <2>1, <2>2, <2>3
<1>5. \A s \in Slots \ {MySlot(c)} : \A t : Whole(s, t) => Whole(s, t)'
  BY <1>4 DEF Whole
<1>6. CallInv'
  <2>1. ASSUME NEW d \in Callers \ {c}, Active(d)
        PROVE  Progress(d)'
    <3>1. /\ Progress(d) /\ MySlot(d) \in Slots \ {MySlot(c)}
          /\ slot'[MySlot(d)] = slot[MySlot(d)]
      BY <1>1, <2>1, ActiveFacts
    <3>2. PICK s \in Slots \ {MySlot(c)} : s = MySlot(d)
      BY <3>1
    <3>3. /\ Empty(s) => Empty(s)'
          /\ \A p \in Pointers : \A state, t : Holds(s, p, state, t) => Holds(s, p, state, t)'
          /\ \A t : Whole(s, t) => Whole(s, t)'
      BY <1>4, <1>5
    <3>4. MySlot(d)' = s /\ call'[d] = call[d] /\ own'[d] = own[d] /\ read'[d] = read[d]
      BY <1>3, <3>2
    <3>5. {"grid", "map", "neighbours"} \subseteq Pointers
      BY DEF Pointers
    <3>. QED BY <3>1, <3>2, <3>3, <3>4, <3>5 DEF Progress, At
  <2>2. \A d \in Callers \ {c} : Active(d) => call[d].type \in IqTypes
    BY DEF IInv, CallInv
  <2>. QED BY <1>1, <1>3, <2>1, <2>2 DEF CallInv
<1>7. SlotInv'
  <2>1. SUFFICES ASSUME NEW t \in IqTypes
                 PROVE  \/ Empty(SlotOf(t))'
                        \/ Whole(SlotOf(t), t)'
                        \/ \E d \in Callers : call'[d].step \in Building /\ MySlot(d)' = SlotOf(t)
    BY DEF SlotInv
  <2>2. MySlot(c)' = MySlot(c)
    BY DEF MySlot
  <2>3. CASE SlotOf(t) = MySlot(c) /\ call'[c].step \in Building
    BY <2>2, <2>3
  <2>4. CASE SlotOf(t) = MySlot(c) /\ call'[c].step = "kernel"
    <3>1. Whole(MySlot(c), call[c].type)'
      BY <2>2, <2>4 DEF Progress, At, MySlot
    <3>2. Recipe(t) = Recipe(call[c].type)
      BY <1>1, <2>4, SlotFacts DEF MySlot
    <3>3. slot'[SlotOf(t)] = slot'[MySlot(c)'] /\ Recipe(call[c].type)' = Recipe(t)
      BY <2>2, <2>4, <3>2 DEF Recipe
    <3>. QED BY <2>2, <2>4, <3>1, <3>2, <3>3 DEF Whole, Holds
  <2>5. CASE SlotOf(t) # MySlot(c)
    <3>1. SlotOf(t) \in Slots \ {MySlot(c)}
      BY <2>5, SlotFacts
    <3>2. CASE \E d \in Callers : call[d].step \in Building /\ MySlot(d) = SlotOf(t)
      BY <1>3, <2>5, <3>2
    <3>. QED BY <1>4, <1>5, <3>1, <3>2 DEF IInv, SlotInv
  <2>. QED BY <2>3, <2>4, <2>5
<1>8. SharedInv'
  <2>1. SUFFICES ASSUME NEW d \in Callers, NEW e \in Callers, d # e, Active(d)', Active(e)',
                        MySlot(d)' = MySlot(e)'
                 PROVE  Finished(MySlot(d))'
    BY DEF SharedInv
  <2>2. MySlot(c)' = MySlot(c)
    BY DEF MySlot
  <2>3. d # c /\ e # c
    BY <1>1, <1>3, <2>1, <2>2
  <2>4. Active(d) /\ Active(e) /\ MySlot(d) = MySlot(e) /\ MySlot(d) \in Slots \ {MySlot(c)}
    BY <1>1, <1>3, <2>1, <2>3, ActiveFacts
  <2>5. Finished(MySlot(d))
    BY <2>1, <2>4 DEF IInv, SharedInv
  <2>6. \A s \in Slots \ {MySlot(c)} : Finished(s) => Finished(s)'
    BY <1>4
  <2>7. slot'[MySlot(d)'] = slot'[MySlot(d)]
    BY <1>3, <2>3
  <2>. QED BY <2>4, <2>5, <2>6, <2>7 DEF Finished
<1>. QED BY <1>6, <1>7, <1>8 DEF IInv

(* A new array takes the place of a pointer that was null. *)
LEMMA AllocateKeeps ==
  ASSUME IInv, NEW c \in Callers, call[c].step \in Building, NEW p \in Pointers,
         slot[MySlot(c)][p] = Null, NEW state \in {"raw", "complete"}, Allocate(c, p, state),
         NEW step \in Building, Goto(c, step), UNCHANGED <<read, toFree>>
  PROVE  /\ TypeOK' /\ DistinctInv' /\ NothingLeaks'
         /\ Len(array') >= Len(array)
         /\ \A s \in Slots \ {MySlot(c)} :
              /\ slot'[s] = slot[s]
              /\ \A q \in Pointers : slot[s][q] # Null => array'[slot[s][q]] = array[slot[s][q]]
         /\ \A d \in Callers \ {c} : call'[d] = call[d] /\ own'[d] = own[d] /\ read'[d] = read[d]
         /\ call'[c].type = call[c].type /\ call'[c].step = step /\ MySlot(c)' = MySlot(c)
         /\ Holds(MySlot(c), p, state, call[c].type)'
         /\ own'[c][p] = slot'[MySlot(c)][p]
         /\ \A q \in Pointers \ {p} :
              /\ slot'[MySlot(c)][q] = slot[MySlot(c)][q]
              /\ own'[c][q] = own[c][q]
              /\ \A w, t : Holds(MySlot(c), q, w, t) => Holds(MySlot(c), q, w, t)'
<1>. DEFINE id == Len(array) + 1
            made == [holds |-> p, state |-> state, freed |-> FALSE, recipe |-> Recipe(call[c].type)]
            Arrays == [holds : Pointers, state : {"raw", "indexed", "complete"},
                       freed : BOOLEAN, recipe : {Recipe(t) : t \in IqTypes}]
<1>1. /\ call[c].type \in IqTypes /\ MySlot(c) \in Slots /\ slot[MySlot(c)] \in PointerTypes
      /\ array \in Seq(Arrays) /\ Len(array) \in Nat
  BY BuilderIsAlone, ActiveFacts DEF IInv, TypeOK
<1>2. /\ array' = Append(array, made)
      /\ slot' = [slot EXCEPT ![MySlot(c)] = [@ EXCEPT ![p] = id]]
      /\ own' = [own EXCEPT ![c][p] = id]
  BY DEF Allocate, WithPointer
<1>3. made \in Arrays
  BY <1>1
<1>4. /\ array' \in Seq(Arrays) /\ Len(array') = id /\ array'[id] = made
      /\ \A i \in 1 .. Len(array) : array'[i] = array[i]
  BY <1>1, <1>2, <1>3
<1>5. PointerTypes \subseteq PointerTypes'
  <2>1. \A q \in Pointers : ArraysOf(q) \subseteq ArraysOf(q)'
    BY <1>1, <1>4 DEF ArraysOf
  <2>. QED BY <1>1, <1>4, <2>1 DEF PointerTypes
<1>6. ASSUME NEW f \in PointerTypes PROVE [f EXCEPT ![p] = id] \in PointerTypes'
  <2>1. id \in ArraysOf(p)'
    BY <1>1, <1>4 DEF ArraysOf
  <2>2. \A q \in Pointers : ArraysOf(q) \subseteq ArraysOf(q)'
    BY <1>1, <1>4 DEF ArraysOf
  <2>3. PICK g : g = [f EXCEPT ![p] = id]
    OBVIOUS
  <2>4. /\ f \in [Pointers -> 0 .. Len(array)]
        /\ \A q \in Pointers : f[q] \in {Null} \union ArraysOf(q)
    BY DEF PointerTypes
  <2>5. g \in [Pointers -> 0 .. Len(array')]
    <3>1. id \in 0 .. Len(array') /\ 0 .. Len(array) \subseteq 0 .. Len(array')
      BY <1>1, <1>4
    <3>. QED BY <2>3, <2>4, <3>1
  <2>6. ASSUME NEW q \in Pointers PROVE g[q] \in {Null} \union ArraysOf(q)'
    <3>1. g[q] = IF q = p THEN id ELSE f[q]
      BY <2>3, <2>4
    <3>. QED BY <2>1, <2>2, <2>4, <3>1
  <2>7. g \in PointerTypes'
    BY <2>5, <2>6 DEF PointerTypes
  <2>. QED BY <2>3, <2>7
<1>7. /\ \A d \in Callers \ {c} : call'[d] = call[d] /\ own'[d] = own[d] /\ read'[d] = read[d]
      /\ call'[c].type = call[c].type /\ call'[c].step = step /\ MySlot(c)' = MySlot(c)
      /\ call' \in [Callers -> [step : Steps, type : Types \union {"none"}]]
  BY <1>2 DEF Goto, IInv, TypeOK, Building, Steps, MySlot
<1>8. /\ slot' \in [Slots -> PointerTypes'] /\ own' \in [Callers -> PointerTypes']
      /\ \A s \in Slots \ {MySlot(c)} : slot'[s] = slot[s]
      /\ slot'[MySlot(c)] = [slot[MySlot(c)] EXCEPT ![p] = id]
      /\ own'[c] = [own[c] EXCEPT ![p] = id]
  BY <1>1, <1>2, <1>5, <1>6 DEF IInv, TypeOK
<1>9. TypeOK'
  BY <1>4, <1>5, <1>7, <1>8 DEF IInv, TypeOK
<1>10. /\ \A s \in Slots, q \in Pointers :
            /\ slot[s][q] # Null => slot[s][q] \in 1 .. Len(array)
            /\ slot'[s][q] = IF s = MySlot(c) /\ q = p THEN id ELSE slot[s][q]
       /\ \A q \in Pointers : own'[c][q] = IF q = p THEN id ELSE own[c][q]
  BY <1>1, <1>8, PointerNames, SMTT(30) DEF IInv, TypeOK
<1>11. DistinctInv'
  BY <1>1, <1>10 DEF DistinctInv, IInv
<1>12. NothingLeaks'
  <2>1. SUFFICES ASSUME NEW i \in 1 .. id, ~ array'[i].freed
                 PROVE  \E s \in Slots, q \in Pointers : slot'[s][q] = i
    BY <1>4 DEF NothingLeaks
  <2>2. CASE i = id
    BY <1>1, <1>10, <2>2
  <2>3. CASE i \in 1 .. Len(array)
    <3>1. PICK s \in Slots, q \in Pointers : slot[s][q] = i
      BY <1>4, <2>1, <2>3 DEF IInv, NothingLeaks
    <3>2. i # Null
      BY <2>3 DEF Null
    <3>. QED BY <1>10, <3>1, <3>2
  <2>. QED BY <1>1, <2>2, <2>3
<1>13. \A s \in Slots \ {MySlot(c)}, q \in Pointers :
         slot[s][q] # Null => array'[slot[s][q]] = array[slot[s][q]]
  BY <1>4, <1>10
<1>14. Holds(MySlot(c), p, state, call[c].type)'
  BY <1>1, <1>4, <1>7, <1>10 DEF Holds, Recipe
<1>15. ASSUME NEW q \in Pointers \ {p}
       PROVE  /\ slot'[MySlot(c)][q] = slot[MySlot(c)][q]
              /\ own'[c][q] = own[c][q]
              /\ \A w, t : Holds(MySlot(c), q, w, t) => Holds(MySlot(c), q, w, t)'
  <2>1. slot'[MySlot(c)][q] = slot[MySlot(c)][q] /\ own'[c][q] = own[c][q]
    BY <1>1, <1>10, <1>15
  <2>2. ASSUME NEW w, NEW t, Holds(MySlot(c), q, w, t)
        PROVE  Holds(MySlot(c), q, w, t)'
    <3>1. slot[MySlot(c)][q] \in 1 .. Len(array)
      BY <2>2 DEF Holds
    <3>2. array'[slot[MySlot(c)][q]] = array[slot[MySlot(c)][q]]
      BY <1>4, <3>1
    <3>. QED BY <1>1, <1>4, <1>7, <2>1, <2>2, <3>1, <3>2 DEF Holds
  <2>. QED BY <2>1, <2>2
<1>16. Len(array') >= Len(array) /\ own'[c][p] = slot'[MySlot(c)][p]
  BY <1>1, <1>4, <1>10
<1>. HIDE DEF id, made, Arrays
<1>. QED BY <1>7, <1>8, <1>9, <1>11, <1>12, <1>13, <1>14, <1>15, <1>16

(* The arrays of the builder's slot that W names are filled further. *)
FilledFurther(c, W, state) ==
  [i \in 1 .. Len(array) |->
     IF \E p \in W : i = slot[MySlot(c)][p] THEN [array[i] EXCEPT !.state = state]
     ELSE array[i]]

LEMMA FillKeeps ==
  ASSUME IInv, NEW c \in Callers, call[c].step \in Building,
         UNCHANGED <<slot, own, read, toFree>>,
         NEW step \in Building \union {"kernel"}, Goto(c, step),
         NEW W \in SUBSET Pointers,
         \A p \in W : slot[MySlot(c)][p] # Null,
         NEW state \in {"indexed", "complete"},
         array' = FilledFurther(c, W, state)
  PROVE  /\ TypeOK' /\ DistinctInv' /\ NothingLeaks'
         /\ Len(array') >= Len(array)
         /\ \A s \in Slots \ {MySlot(c)} :
              /\ slot'[s] = slot[s]
              /\ \A q \in Pointers : slot[s][q] # Null => array'[slot[s][q]] = array[slot[s][q]]
         /\ \A d \in Callers \ {c} : call'[d] = call[d] /\ own'[d] = own[d] /\ read'[d] = read[d]
         /\ call'[c].type = call[c].type /\ call'[c].step = step /\ MySlot(c)' = MySlot(c)
         /\ \A p \in W : \A w, t : Holds(MySlot(c), p, w, t) => Holds(MySlot(c), p, state, t)'
         /\ \A p \in Pointers \ W : \A w, t : Holds(MySlot(c), p, w, t) => Holds(MySlot(c), p, w, t)'
<1>. DEFINE Arrays == [holds : Pointers, state : {"raw", "indexed", "complete"},
                       freed : BOOLEAN, recipe : {Recipe(t) : t \in IqTypes}]
            Filled(i) == \E p \in W : i = slot[MySlot(c)][p]
<1>1. /\ MySlot(c) \in Slots /\ slot[MySlot(c)] \in PointerTypes
      /\ array \in Seq(Arrays) /\ Len(array) \in Nat
      /\ \A i \in 1 .. Len(array) : array[i] \in Arrays
  <2>1. array \in Seq(Arrays)
    BY DEF IInv, TypeOK
  <2>. HIDE DEF Arrays
  <2>2. Len(array) \in Nat /\ \A i \in 1 .. Len(array) : array[i] \in Arrays
    BY <2>1
  <2>. QED BY <2>1, <2>2, BuilderIsAlone, ActiveFacts
<1>2. /\ array' \in [1 .. Len(array) -> Arrays]
      /\ \A i \in 1 .. Len(array) :
           /\ array'[i].holds = array[i].holds
           /\ array'[i].freed = array[i].freed
           /\ array'[i].recipe = array[i].recipe
           /\ array'[i].state = IF Filled(i) THEN state ELSE array[i].state
           /\ ~ Filled(i) => array'[i] = array[i]
  BY <1>1 DEF FilledFurther
<1>3. array' \in Seq(Arrays) /\ Len(array') = Len(array)
  BY <1>1, <1>2
<1>4. PointerTypes' = PointerTypes
  <2>1. \A q \in Pointers : ArraysOf(q)' = ArraysOf(q)
    BY <1>1, <1>2, <1>3 DEF ArraysOf
  <2>. QED BY <1>3, <2>1 DEF PointerTypes
<1>5. /\ \A d \in Callers \ {c} : call'[d] = call[d] /\ own'[d] = own[d] /\ read'[d] = read[d]
      /\ call'[c].type = call[c].type /\ call'[c].step = step /\ MySlot(c)' = MySlot(c)
      /\ call' \in [Callers -> [step : Steps, type : Types \union {"none"}]]
  BY DEF Goto, IInv, TypeOK, Building, Steps, MySlot
<1>6. TypeOK'
  BY <1>3, <1>4, <1>5 DEF IInv, TypeOK
<1>7. DistinctInv' /\ NothingLeaks'
  BY <1>1, <1>2, <1>3 DEF DistinctInv, NothingLeaks, IInv
<1>8. \A s \in Slots \ {MySlot(c)}, q \in Pointers :
        slot[s][q] # Null => array'[slot[s][q]] = array[slot[s][q]]
  <2>1. SUFFICES ASSUME NEW s \in Slots \ {MySlot(c)}, NEW q \in Pointers, slot[s][q] # Null
                 PROVE  slot[s][q] \in 1 .. Len(array) /\ ~ Filled(slot[s][q])
    BY <1>2
  <2>2. slot[s][q] \in 1 .. Len(array)
    BY <2>1, PointerNames DEF IInv, TypeOK
  <2>. QED BY <1>1, <2>1, <2>2 DEF IInv, DistinctInv
<1>9. \A p \in W : \A w, t : Holds(MySlot(c), p, w, t) => Holds(MySlot(c), p, state, t)'
  BY <1>2, <1>3, <1>5 DEF Holds
<1>10. \A p \in Pointers \ W : slot[MySlot(c)][p] # Null => ~ Filled(slot[MySlot(c)][p])
  BY <1>1, PointerNames
<1>11. ASSUME NEW p \in Pointers \ W, NEW w, NEW t, Holds(MySlot(c), p, w, t)
       PROVE  Holds(MySlot(c), p, w, t)'
  <2>1. slot[MySlot(c)][p] \in 1 .. Len(array)
    BY <1>11 DEF Holds
  <2>2. array'[slot[MySlot(c)][p]] = array[slot[MySlot(c)][p]]
    BY <1>1, <1>2, <1>10, <2>1 DEF Null
  <2>. QED BY <1>3, <1>5, <1>11, <2>1, <2>2 DEF Holds
<1>12. Len(array') >= Len(array)
  BY <1>1, <1>3
<1>. HIDE DEF Arrays, Filled
<1>. QED BY <1>5, <1>6, <1>7, <1>8, <1>9, <1>11, <1>12

LEMMA BuildGridKeeps ==
  ASSUME IInv, NEW c \in Callers, BuildGrid(c)
  PROVE  IInv'
<1>1. call[c].step = "grid" /\ Allocate(c, "grid", "complete") /\ Goto(c, "map")
      /\ UNCHANGED <<read, toFree>>
  BY DEF BuildGrid, At
<1>2. Empty(MySlot(c))
  BY <1>1, BuilderIsAlone, ActiveFacts DEF Progress, At, Building
<1>3. /\ slot[MySlot(c)]["grid"] = Null /\ slot[MySlot(c)]["map"] = Null
      /\ slot[MySlot(c)]["neighbours"] = Null
      /\ "grid" \in Pointers
      /\ {"map", "neighbours"} \subseteq Pointers \ {"grid"}
  BY <1>2 DEF Empty, NoPointers, Pointers
<1>4. /\ Holds(MySlot(c), "grid", "complete", call[c].type)'
      /\ slot'[MySlot(c)]["map"] = Null /\ slot'[MySlot(c)]["neighbours"] = Null
      /\ call'[c].step = "map" /\ MySlot(c)' = MySlot(c)
  BY <1>1, <1>3, AllocateKeeps DEF Building
<1>5. Progress(c)'
  BY <1>4 DEF Progress, At, Building
<1>. QED BY <1>1, <1>3, <1>5, AllocateKeeps, BuilderMoves DEF Building

LEMMA AllocateMapKeeps ==
  ASSUME IInv, NEW c \in Callers, AllocateMap(c)
  PROVE  IInv'
<1>1. call[c].step = "map" /\ Allocate(c, "map", "raw") /\ Goto(c, "index")
      /\ UNCHANGED <<read, toFree>>
  BY DEF AllocateMap, At
<1>2. /\ Holds(MySlot(c), "grid", "complete", call[c].type)
      /\ slot[MySlot(c)]["map"] = Null /\ slot[MySlot(c)]["neighbours"] = Null
  BY <1>1, BuilderIsAlone, ActiveFacts DEF Progress, At, Building
<1>3. "map" \in Pointers /\ {"grid", "neighbours"} \subseteq Pointers \ {"map"}
  BY DEF Pointers
<1>4. /\ Holds(MySlot(c), "map", "raw", call[c].type)'
      /\ Holds(MySlot(c), "grid", "complete", call[c].type)'
      /\ slot'[MySlot(c)]["neighbours"] = Null
      /\ own'[c]["map"] = slot'[MySlot(c)]["map"]
      /\ call'[c].step = "index" /\ MySlot(c)' = MySlot(c)
  <2>1. PICK t : t = call[c].type
    OBVIOUS
  <2>2. Holds(MySlot(c), "grid", "complete", t)' /\ call'[c].type = t
    BY <1>1, <1>2, <1>3, <2>1, AllocateKeeps DEF Building
  <2>. QED BY <1>1, <1>2, <1>3, <2>2, AllocateKeeps, ZenonT(60) DEF Building, Holds
<1>5. Progress(c)'
  BY <1>4 DEF Progress, At, Building
<1>. QED BY <1>1, <1>2, <1>3, <1>5, AllocateKeeps, BuilderMoves DEF Building

LEMMA AllocateNeighboursKeeps ==
  ASSUME IInv, NEW c \in Callers, AllocateNeighbours(c)
  PROVE  IInv'
<1>1. call[c].step = "neighbours" /\ Allocate(c, "neighbours", "raw") /\ Goto(c, "fill")
      /\ UNCHANGED <<read, toFree>>
  BY DEF AllocateNeighbours, At
<1>2. /\ Holds(MySlot(c), "grid", "complete", call[c].type)
      /\ Holds(MySlot(c), "map", "indexed", call[c].type)
      /\ slot[MySlot(c)]["neighbours"] = Null
      /\ own[c]["map"] = slot[MySlot(c)]["map"]
  BY <1>1, BuilderIsAlone, ActiveFacts DEF Progress, At, Building
<1>3. "neighbours" \in Pointers /\ {"grid", "map"} \subseteq Pointers \ {"neighbours"}
  BY DEF Pointers
<1>4. /\ Holds(MySlot(c), "neighbours", "raw", call[c].type)'
      /\ Holds(MySlot(c), "grid", "complete", call[c].type)'
      /\ Holds(MySlot(c), "map", "indexed", call[c].type)'
      /\ own'[c]["map"] = slot'[MySlot(c)]["map"]
      /\ own'[c]["neighbours"] = slot'[MySlot(c)]["neighbours"]
      /\ call'[c].step = "fill" /\ MySlot(c)' = MySlot(c)
  <2>1. PICK t : t = call[c].type
    OBVIOUS
  <2>2. /\ Holds(MySlot(c), "grid", "complete", t)'
        /\ Holds(MySlot(c), "map", "indexed", t)'
        /\ call'[c].type = t
    BY <1>1, <1>2, <1>3, <2>1, AllocateKeeps DEF Building
  <2>. QED BY <1>1, <1>2, <1>3, <2>2, AllocateKeeps DEF Building, Holds
<1>5. Progress(c)'
  BY <1>4 DEF Progress, At, Building
<1>. QED BY <1>1, <1>2, <1>3, <1>5, AllocateKeeps, BuilderMoves DEF Building

LEMMA ArrayIsAFunction ==
  TypeOK => Len(array) \in Nat /\ array = [i \in 1 .. Len(array) |-> array[i]]
<1>. DEFINE Arrays == [holds : Pointers, state : {"raw", "indexed", "complete"},
                       freed : BOOLEAN, recipe : {Recipe(t) : t \in IqTypes}]
<1>1. TypeOK => array \in Seq(Arrays)
  BY DEF TypeOK
<1>. HIDE DEF Arrays
<1>. QED BY <1>1

LEMMA IndexMapKeeps ==
  ASSUME IInv, NEW c \in Callers, IndexMap(c)
  PROVE  IInv'
<1>1. call[c].step = "index" /\ Goto(c, "neighbours") /\ UNCHANGED <<slot, own, read, toFree>>
  BY DEF IndexMap, At
<1>2. /\ Holds(MySlot(c), "grid", "complete", call[c].type)
      /\ Holds(MySlot(c), "map", "raw", call[c].type)
      /\ slot[MySlot(c)]["neighbours"] = Null
      /\ own[c]["map"] = slot[MySlot(c)]["map"]
  BY <1>1, BuilderIsAlone, ActiveFacts DEF Progress, At, Building
<1>. DEFINE W == {"map"}
<1>3. /\ "map" \in Pointers /\ W \in SUBSET Pointers /\ "grid" \in Pointers \ W
      /\ slot[MySlot(c)]["map"] \in 1 .. Len(array)
      /\ \A p \in W : slot[MySlot(c)][p] # Null
  BY <1>2 DEF Pointers, Holds, Null
<1>4. array' = FilledFurther(c, W, "indexed")
  <2>1. array' = [array EXCEPT ![slot[MySlot(c)]["map"]].state = "indexed"]
    BY <1>2 DEF IndexMap
  <2>2. array = [i \in 1 .. Len(array) |-> array[i]]
    BY ArrayIsAFunction DEF IInv
  <2>. QED BY <1>3, <2>1, <2>2 DEF FilledFurther
<1>5. PICK t : t = call[c].type
  OBVIOUS
<1>6. /\ Holds(MySlot(c), "grid", "complete", t)'
      /\ Holds(MySlot(c), "map", "indexed", t)'
      /\ call'[c].type = t /\ call'[c].step = "neighbours" /\ MySlot(c)' = MySlot(c)
  <2>. HIDE DEF W
  <2>1. "map" \in W
    BY DEF W
  <2>. QED BY <1>1, <1>2, <1>3, <1>4, <1>5, <2>1, FillKeeps DEF Building
<1>7. Progress(c)'
  BY <1>1, <1>2, <1>6 DEF Progress, At, Building, Holds
<1>. HIDE DEF W
<1>. QED BY <1>1, <1>3, <1>4, <1>7, FillKeeps, BuilderMoves DEF Building

LEMMA FillNeighboursKeeps ==
  ASSUME IInv, NEW c \in Callers, FillNeighbours(c)
  PROVE  IInv'
<1>1. call[c].step = "fill" /\ Goto(c, "kernel") /\ UNCHANGED <<slot, own, read, toFree>>
  BY DEF FillNeighbours, At
<1>2. /\ Holds(MySlot(c), "grid", "complete", call[c].type)
      /\ Holds(MySlot(c), "map", "indexed", call[c].type)
      /\ Holds(MySlot(c), "neighbours", "raw", call[c].type)
      /\ own[c]["map"] = slot[MySlot(c)]["map"]
      /\ own[c]["neighbours"] = slot[MySlot(c)]["neighbours"]
  BY <1>1, BuilderIsAlone, ActiveFacts DEF Progress, At, Building
<1>. DEFINE W == {"map", "neighbours"}
<1>3. /\ W \in SUBSET Pointers /\ Pointers = W \union {"grid"} /\ "grid" \notin W
      /\ slot[MySlot(c)]["map"] \in 1 .. Len(array)
      /\ slot[MySlot(c)]["neighbours"] \in 1 .. Len(array)
      /\ \A p \in W : slot[MySlot(c)][p] # Null
  BY <1>2 DEF Pointers, Holds, Null
<1>4. array' = FilledFurther(c, W, "complete")
  <2>1. array' = [array EXCEPT ![slot[MySlot(c)]["map"]].state = "complete",
                               ![slot[MySlot(c)]["neighbours"]].state = "complete"]
    BY <1>2 DEF FillNeighbours
  <2>2. array = [i \in 1 .. Len(array) |-> array[i]]
    BY ArrayIsAFunction DEF IInv
  <2>. QED BY <1>3, <2>1, <2>2 DEF FilledFurther
<1>5. PICK t : t = call[c].type
  OBVIOUS
<1>6. /\ \A p \in Pointers : Holds(MySlot(c), p, "complete", t)'
      /\ call'[c].type = t /\ call'[c].step = "kernel" /\ MySlot(c)' = MySlot(c)
  <2>1. {"map", "neighbours"} = W
    OBVIOUS
  <2>. HIDE DEF W
  <2>2. /\ \A p \in W : Holds(MySlot(c), p, "complete", t)'
        /\ Holds(MySlot(c), "grid", "complete", t)'
        /\ call'[c].type = t /\ call'[c].step = "kernel" /\ MySlot(c)' = MySlot(c)
    BY <1>1, <1>2, <1>3, <1>4, <1>5, <2>1, FillKeeps DEF Building
  <2>. QED BY <1>3, <2>2
<1>7. Progress(c)'
  BY <1>6 DEF Progress, At, Building, Whole, Holds
<1>. HIDE DEF W
<1>. QED BY <1>1, <1>3, <1>4, <1>7, FillKeeps, BuilderMoves DEF Building

-----------------------------------------------------------------------------
(* Tables are freed while no call runs. *)
LEMMA FreeSlotKeeps ==
  ASSUME IInv, FreeSlot
  PROVE  IInv'
<1>. DEFINE f == Head(toFree)
            Arrays == [holds : Pointers, state : {"raw", "indexed", "complete"},
                       freed : BOOLEAN, recipe : {Recipe(t) : t \in IqTypes}]
<1>1. /\ toFree \in Seq(Slots) /\ toFree # <<>>
      /\ f \in Slots /\ Tail(toFree) \in Seq(Slots)
      /\ \A c \in Callers : call[c].step = "idle"
      /\ UNCHANGED <<call, own, read>>
  BY DEF FreeSlot, IInv, TypeOK, CallInv, At
<1>2. /\ array \in Seq(Arrays) /\ Len(array) \in Nat
      /\ \A i \in 1 .. Len(array) : array[i] \in Arrays
      /\ DOMAIN array = 1 .. Len(array)
  <2>1. array \in Seq(Arrays)
    BY DEF IInv, TypeOK
  <2>. HIDE DEF Arrays
  <2>. QED BY <2>1
<1>3. /\ array' \in [1 .. Len(array) -> Arrays]
      /\ \A i \in 1 .. Len(array) :
           /\ array'[i].holds = array[i].holds
           /\ array'[i].recipe = array[i].recipe
           /\ array'[i].state = array[i].state
           /\ array'[i].freed <=> array[i].freed \/ i \in FreedWith(f)
  BY <1>2 DEF FreeSlot
<1>4. array' \in Seq(Arrays) /\ Len(array') = Len(array)
  BY <1>2, <1>3
<1>5. PointerTypes' = PointerTypes
  <2>1. \A q \in Pointers : ArraysOf(q)' = ArraysOf(q)
    BY <1>2, <1>3, <1>4 DEF ArraysOf
  <2>. QED BY <1>4, <2>1 DEF PointerTypes
<1>6. NoPointers \in PointerTypes
  BY <1>2 DEF NoPointers, PointerTypes, Null
<1>7. \A t \in IqTypes : Empty(SlotOf(t)) \/ Whole(SlotOf(t), t)
  BY <1>1 DEF IInv, SlotInv, Building
<1>8. /\ slot'[f] = NoPointers
      /\ \A s \in Slots \ {f} : slot'[s] = slot[s]
      /\ slot' \in [Slots -> PointerTypes]
  <2>1. PICK t \in IqTypes : f = SlotOf(t)
    BY <1>1 DEF Slots
  <2>2. PointersAfterFree(f) = NoPointers
    BY <1>7, <2>1 DEF PointersAfterFree, Empty, Whole, Holds, Pointers, Null
  <2>. QED BY <1>1, <1>6, <2>2 DEF FreeSlot, IInv, TypeOK
<1>9. TypeOK'
  BY <1>1, <1>4, <1>5, <1>8 DEF IInv, TypeOK, FreeSlot
<1>10. CallInv' /\ SharedInv'
  BY <1>1 DEF CallInv, SharedInv, Active, At
<1>11. DistinctInv'
  BY <1>1, <1>8 DEF IInv, DistinctInv, NoPointers
<1>12. \A s \in Slots \ {f}, p \in Pointers : slot[s][p] # Null => slot[s][p] \notin FreedWith(f)
  BY <1>1 DEF FreedWith, IInv, DistinctInv
<1>13. SlotInv'
  <2>1. SUFFICES ASSUME NEW t \in IqTypes
                 PROVE  Empty(SlotOf(t))' \/ Whole(SlotOf(t), t)'
    BY DEF SlotInv
  <2>2. CASE SlotOf(t) = f
    BY <1>8, <2>2 DEF Empty
  <2>3. CASE SlotOf(t) # f
    <3>1. SlotOf(t) \in Slots \ {f}
      BY <2>3, SlotFacts
    <3>2. CASE Empty(SlotOf(t))
      BY <1>8, <3>1, <3>2 DEF Empty
    <3>3. CASE Whole(SlotOf(t), t)
      <4>1. ASSUME NEW p \in Pointers
            PROVE  Holds(SlotOf(t), p, "complete", t)'
        <5>1. Holds(SlotOf(t), p, "complete", t)
          BY <3>3 DEF Whole
        <5>2. slot[SlotOf(t)][p] \in 1 .. Len(array) /\ slot[SlotOf(t)][p] # Null
          BY <5>1 DEF Holds, Null
        <5>. QED BY <1>3, <1>4, <1>8, <1>12, <3>1, <5>1, <5>2 DEF Holds
      <4>. QED BY <4>1 DEF Whole
    <3>. QED BY <1>7, <3>2, <3>3
  <2>. QED BY <2>2, <2>3
<1>14. NothingLeaks'
  <2>1. SUFFICES ASSUME NEW i \in 1 .. Len(array), ~ array[i].freed, i \notin FreedWith(f)
                 PROVE  \E s \in Slots, p \in Pointers : slot'[s][p] = i
    BY <1>3, <1>4 DEF NothingLeaks
  <2>2. PICK s \in Slots, p \in Pointers : slot[s][p] = i
    BY <2>1 DEF IInv, NothingLeaks
  <2>3. s # f
    <3>1. slot[f].grid = Null => Empty(f)
      <4>1. PICK t \in IqTypes : f = SlotOf(t)
        BY <1>1 DEF Slots
      <4>. QED BY <1>7, <4>1 DEF Whole, Holds, Pointers, Null
    <3>2. i # Null
      BY <2>1 DEF Null
    <3>. QED BY <2>1, <2>2, <3>1, <3>2 DEF FreedWith, Empty, NoPointers
  <2>. QED BY <1>8, <2>2, <2>3
<1>. QED BY <1>9, <1>10, <1>11, <1>13, <1>14 DEF IInv

LEMMA BeginFreeKeeps ==
  ASSUME Coordinated, IInv, BeginFree
  PROVE  IInv'
<1>1. /\ UNCHANGED <<slot, array, call, own, read>> /\ toFree' \in Seq(Slots)
      /\ \A c \in Callers : At(c, "idle")
  BY FreeOrderType DEF BeginFree, Coordinated, Quiet
<1>2. TypeOK'
  BY <1>1, SameTables DEF IInv, TypeOK
<1>3. CallInv' /\ SharedInv'
  BY <1>1 DEF CallInv, SharedInv, Active, At
<1>4. SlotInv'
  BY <1>1, SameTables DEF IInv, SlotInv, MySlot
<1>. QED BY <1>1, <1>2, <1>3, <1>4, SameTables DEF IInv

-----------------------------------------------------------------------------
LEMMA InitHolds == Init => IInv
<1>. SUFFICES ASSUME Init PROVE IInv
  OBVIOUS
<1>1. Len(array) = 0 /\ \A c \in Callers : call[c].step = "idle"
  BY DEF Init, Idle
<1>2. TypeOK
  <2>1. NoPointers \in PointerTypes
    BY <1>1 DEF NoPointers, PointerTypes, Null
  <2>. QED BY <2>1 DEF Init, TypeOK, Idle, Steps
<1>3. CallInv /\ SharedInv
  BY <1>1 DEF CallInv, SharedInv, Active, Init
<1>4. SlotInv /\ DistinctInv
  BY SlotFacts DEF SlotInv, DistinctInv, Init, Empty, NoPointers
<1>5. NothingLeaks
  BY <1>1 DEF NothingLeaks
<1>. QED BY <1>2, <1>3, <1>4, <1>5 DEF IInv

LEMMA StepHolds == Coordinated /\ IInv /\ [Next]_vars => IInv'
<1>. SUFFICES ASSUME Coordinated, IInv, [Next]_vars PROVE IInv'
  OBVIOUS
<1>1. ASSUME NEW c \in Callers, NEW t \in Types, QuantizeChunk(c, t)
      PROVE  IInv'
  BY <1>1, EnterKeeps DEF QuantizeChunk
<1>2. ASSUME NEW c \in Callers, NEW t \in Types, FusedChunk(c, t)
      PROVE  IInv'
  BY <1>2, EnterKeeps DEF FusedChunk, Coordinated
<1>3. ASSUME NEW c \in Callers, CallerStep(c)
      PROVE  IInv'
  BY <1>3, LeaveKeeps, TestGridKeeps, BuildGridKeeps, AllocateMapKeeps, IndexMapKeeps,
     AllocateNeighboursKeeps, FillNeighboursKeeps, LoadPointersKeeps, NextRowKeeps
     DEF CallerStep
<1>4. CASE UNCHANGED vars
  <2>1. UNCHANGED <<slot, array, call, own, read, toFree>>
    BY <1>4 DEF vars
  <2>2. TypeOK' /\ SharedInv'
    BY <2>1, SameTables DEF IInv, TypeOK, SharedInv, Active, MySlot
  <2>3. CallInv'
    BY <2>1, OthersProgress DEF IInv, CallInv, Active, At
  <2>4. SlotInv'
    BY <2>1, SameTables DEF IInv, SlotInv, MySlot
  <2>. QED BY <2>1, <2>2, <2>3, <2>4, SameTables DEF IInv
<1>. QED BY <1>1, <1>2, <1>3, <1>4, BeginFreeKeeps, FreeSlotKeeps DEF Next

THEOREM InvariantHolds == Coordinated /\ Spec => []IInv
<1>1. Coordinated /\ IInv /\ [Next]_vars => IInv'
  BY StepHolds
<1>2. CASE Coordinated
  BY <1>1, <1>2, InitHolds, PTL DEF Spec
<1>. QED BY <1>2

(* The globals and the callers' locals keep their types, whatever the      *)
(* number of callers, types and rounds: a pointer refers to an array of    *)
(* its own kind or is null.                                                *)
THEOREM TypeCorrect == Coordinated /\ Spec => []TypeOK
<1>1. IInv => TypeOK
  BY DEF IInv
<1>. QED BY <1>1, InvariantHolds, PTL

(* No kernel reads a table that is unfinished, freed or made for another   *)
(* type, when the host keeps first calls and frees to themselves.          *)
THEOREM KernelsReadFinishedTables == Coordinated /\ Spec => []ReadsFinishedTables
<1>1. IInv => ReadsFinishedTables
  <2>1. SUFFICES ASSUME IInv, NEW c \in Callers, At(c, "encode"), NEW p \in Pointers
                 PROVE  Usable(read[c][p], call[c].type)
    BY DEF ReadsFinishedTables
  <2>2. Active(c)
    BY <2>1 DEF At, Active
  <2>3. read[c] = slot[MySlot(c)] /\ Holds(MySlot(c), p, "complete", call[c].type)
    BY <2>1, <2>2, ActiveFacts DEF Progress, At, Whole
  <2>. QED BY <2>3 DEF Holds, Usable, Null
<1>. QED BY <1>1, InvariantHolds, PTL

(* Under the same discipline every array that has been allocated and not   *)
(* freed is still referred to by a global, and so is freed at exit.        *)
THEOREM NoArrayIsLost == Coordinated /\ Spec => []NothingLeaks
<1>1. IInv => NothingLeaks
  BY DEF IInv
<1>. QED BY <1>1, InvariantHolds, PTL

-----------------------------------------------------------------------------
(* How a table is computed, for every lattice, grid and number of          *)
(* distances.  What is defined by recursion is reasoned about by the       *)
(* lemmas of RowPartition_proofs. *)

Numbers == INSTANCE RowPartition_proofs

-----------------------------------------------------------------------------
(* How the neighbours are ranked, for distances D of n grid points. *)

Below(D, n, j) == {i \in 0 .. n - 1 : D[i] < D[j] \/ (D[i] = D[j] /\ i < j)}

(* Every one has a place of its own, and the nearer ones have the first. *)
IsRanking(rank, D, n) ==
  /\ rank \in [0 .. n - 1 -> 0 .. n - 1]
  /\ \A j \in 0 .. n - 1 : rank[j] = Cardinality(Below(D, n, j))
  /\ \A i, j \in 0 .. n - 1 : i # j => rank[i] # rank[j]
  /\ \A i, j \in 0 .. n - 1 : D[i] < D[j] => rank[i] < rank[j]
  /\ \A r \in 0 .. n - 1 : \E j \in 0 .. n - 1 : rank[j] = r

LEMMA NearerIsBefore ==
  ASSUME NEW n \in Nat, NEW D \in [0 .. n - 1 -> Nat],
         NEW i \in 0 .. n - 1, NEW j \in 0 .. n - 1, i \in Below(D, n, j)
  PROVE  /\ IsFiniteSet(Below(D, n, i)) /\ IsFiniteSet(Below(D, n, j))
         /\ Cardinality(Below(D, n, i)) \in Nat /\ Cardinality(Below(D, n, j)) \in Nat
         /\ Cardinality(Below(D, n, i)) < Cardinality(Below(D, n, j))
<1>1. Below(D, n, i) \subseteq 0 .. n - 1 /\ Below(D, n, j) \subseteq 0 .. n - 1
  BY DEF Below
<1>2. IsFiniteSet(0 .. n - 1)
  BY FS_Interval
<1>3. /\ IsFiniteSet(Below(D, n, i)) /\ IsFiniteSet(Below(D, n, j))
      /\ Cardinality(Below(D, n, i)) \in Nat /\ Cardinality(Below(D, n, j)) \in Nat
  BY <1>1, <1>2, FS_Subset, FS_CardinalityType
<1>4. Below(D, n, i) \subseteq Below(D, n, j)
  <2>. SUFFICES ASSUME NEW k \in Below(D, n, i) PROVE k \in Below(D, n, j)
    OBVIOUS
  <2>1. D[i] \in Nat /\ D[j] \in Nat /\ k \in 0 .. n - 1 /\ D[k] \in Nat
    BY <1>1
  <2>2. D[k] < D[i] \/ (D[k] = D[i] /\ k < i)
    BY DEF Below
  <2>3. D[i] < D[j] \/ (D[i] = D[j] /\ i < j)
    BY DEF Below
  <2>4. D[k] < D[j] \/ (D[k] = D[j] /\ k < j)
    BY <2>1, <2>2, <2>3
  <2>. QED BY <2>1, <2>4 DEF Below
<1>5. i \notin Below(D, n, i)
  BY DEF Below
<1>6. Cardinality(Below(D, n, i)) <= Cardinality(Below(D, n, j))
  BY <1>3, <1>4, FS_Subset
<1>7. Cardinality(Below(D, n, i)) # Cardinality(Below(D, n, j))
  <2>. SUFFICES ASSUME Cardinality(Below(D, n, j)) = Cardinality(Below(D, n, i)) PROVE FALSE
    OBVIOUS
  <2>1. Below(D, n, j) = Below(D, n, i)
    BY <1>3, <1>4, FS_Subset
  <2>. QED BY <1>5, <2>1
<1>. QED BY <1>3, <1>6, <1>7

LEMMA RankingExists ==
  ASSUME NEW n \in Nat, NEW D \in [0 .. n - 1 -> Nat]
  PROVE  \E rank : IsRanking(rank, D, n)
<1>. DEFINE rank == [j \in 0 .. n - 1 |-> Cardinality(Below(D, n, j))]
<1>1. IsFiniteSet(0 .. n - 1) /\ Cardinality(0 .. n - 1) = n
  BY FS_Interval
<1>2. ASSUME NEW j \in 0 .. n - 1 PROVE Cardinality(Below(D, n, j)) \in 0 .. n - 1
  <2>1. Below(D, n, j) \subseteq (0 .. n - 1) \ {j}
    BY DEF Below
  <2>2. IsFiniteSet((0 .. n - 1) \ {j}) /\ Cardinality((0 .. n - 1) \ {j}) = n - 1
    <3>1. Cardinality((0 .. n - 1) \ {j}) = Cardinality(0 .. n - 1) - 1
      BY <1>1, FS_RemoveElement
    <3>. QED BY <1>1, <3>1, FS_RemoveElement
  <2>3. IsFiniteSet(Below(D, n, j)) /\ Cardinality(Below(D, n, j)) <= n - 1
    BY <2>1, <2>2, FS_Subset
  <2>4. Cardinality(Below(D, n, j)) \in Nat
    BY <2>3, FS_CardinalityType
  <2>. QED BY <2>3, <2>4
<1>3. /\ rank \in [0 .. n - 1 -> 0 .. n - 1]
      /\ \A j \in 0 .. n - 1 : rank[j] = Cardinality(Below(D, n, j))
  BY <1>2
<1>. HIDE DEF rank
<1>4. \A i, j \in 0 .. n - 1 : i \in Below(D, n, j) => rank[i] < rank[j]
  BY <1>3, NearerIsBefore
<1>5. \A i, j \in 0 .. n - 1 : D[i] < D[j] => rank[i] < rank[j]
  BY <1>4 DEF Below
<1>6. ASSUME NEW i \in 0 .. n - 1, NEW j \in 0 .. n - 1, i # j PROVE rank[i] # rank[j]
  <2>1. D[i] \in Nat /\ D[j] \in Nat /\ rank[i] \in Nat /\ rank[j] \in Nat
    BY <1>3
  <2>2. i \in Below(D, n, j) \/ j \in Below(D, n, i)
    BY <1>6, <2>1 DEF Below
  <2>3. rank[i] < rank[j] \/ rank[j] < rank[i]
    BY <1>4, <2>2
  <2>. QED BY <2>1, <2>3
<1>7. rank \in Injection(0 .. n - 1, 0 .. n - 1)
  BY <1>3, <1>6 DEF Injection, IsInjective
<1>8. rank \in Surjection(0 .. n - 1, 0 .. n - 1)
  BY <1>1, <1>7, FS_Injection
<1>9. \A r \in 0 .. n - 1 : \E j \in 0 .. n - 1 : rank[j] = r
  BY <1>8 DEF Surjection
<1>. QED BY <1>3, <1>5, <1>6, <1>9 DEF IsRanking

(* The numbers of all points, the nearest first. *)
IsSorted(s, D, n) ==
  /\ s \in [1 .. n -> 0 .. n - 1]
  /\ \A j \in 0 .. n - 1 : \E m \in 1 .. n : s[m] = j
  /\ \A l, m \in 1 .. n : l < m => s[l] # s[m] /\ D[s[l]] <= D[s[m]]

LEMMA SortingSorts ==
  ASSUME NEW n \in Nat, NEW D \in [0 .. n - 1 -> Nat], NEW s,
         s = [m \in 1 .. n |-> CHOOSE j \in 0 .. n - 1 : Cardinality(Below(D, n, j)) = m - 1]
  PROVE  IsSorted(s, D, n)
<1>1. PICK rank : IsRanking(rank, D, n)
  BY RankingExists
<1>2. /\ rank \in [0 .. n - 1 -> 0 .. n - 1]
      /\ \A j \in 0 .. n - 1 : rank[j] = Cardinality(Below(D, n, j))
      /\ \A i, j \in 0 .. n - 1 : i # j => rank[i] # rank[j]
      /\ \A i, j \in 0 .. n - 1 : D[i] < D[j] => rank[i] < rank[j]
      /\ \A r \in 0 .. n - 1 : \E j \in 0 .. n - 1 : rank[j] = r
  BY <1>1 DEF IsRanking
<1>3. ASSUME NEW m \in 1 .. n PROVE s[m] \in 0 .. n - 1 /\ rank[s[m]] = m - 1
  <2>1. s[m] = CHOOSE j \in 0 .. n - 1 : Cardinality(Below(D, n, j)) = m - 1
    OBVIOUS
  <2>2. m - 1 \in 0 .. n - 1
    OBVIOUS
  <2>3. \E j \in 0 .. n - 1 : Cardinality(Below(D, n, j)) = m - 1
    BY <1>2, <2>2
  <2>4. s[m] \in 0 .. n - 1 /\ Cardinality(Below(D, n, s[m])) = m - 1
    BY <2>1, <2>3
  <2>. QED BY <1>2, <2>4
<1>4. s \in [1 .. n -> 0 .. n - 1]
  <2>1. s = [m \in 1 .. n |-> s[m]]
    OBVIOUS
  <2>. QED BY <1>3, <2>1
<1>5. ASSUME NEW j \in 0 .. n - 1 PROVE \E m \in 1 .. n : s[m] = j
  <2>1. PICK m \in 1 .. n : m = rank[j] + 1
    <3>1. PICK r \in 0 .. n - 1 : r = rank[j]
      BY <1>2
    <3>2. r + 1 \in 1 .. n
      OBVIOUS
    <3>. QED BY <3>1, <3>2
  <2>2. m - 1 = rank[j]
    <3>1. PICK r \in 0 .. n - 1 : r = rank[j]
      BY <1>2
    <3>2. m = r + 1
      BY <2>1, <3>1
    <3>3. m - 1 = r
      BY <3>2
    <3>. QED BY <3>1, <3>3
  <2>3. s[m] \in 0 .. n - 1 /\ rank[s[m]] = rank[j]
    BY <1>3, <2>2
  <2>. QED BY <1>2, <2>3
<1>6. ASSUME NEW l \in 1 .. n, NEW m \in 1 .. n, l < m
      PROVE  s[l] # s[m] /\ D[s[l]] <= D[s[m]]
  <2>1. /\ s[l] \in 0 .. n - 1 /\ s[m] \in 0 .. n - 1
        /\ rank[s[l]] = l - 1 /\ rank[s[m]] = m - 1
    BY <1>3
  <2>2. D[s[l]] \in Nat /\ D[s[m]] \in Nat
    BY <2>1
  <2>3. ~ (D[s[m]] < D[s[l]])
    <3>. SUFFICES ASSUME D[s[m]] < D[s[l]] PROVE FALSE
      OBVIOUS
    <3>1. rank[s[m]] < rank[s[l]]
      BY <1>2, <2>1
    <3>. QED BY <1>6, <2>1, <3>1
  <2>4. s[l] # s[m]
    <3>1. l - 1 # m - 1
      BY <1>6
    <3>. QED BY <2>1, <3>1
  <2>. QED BY <2>2, <2>3, <2>4
<1>. QED BY <1>4, <1>5, <1>6 DEF IsSorted

LEMMA LargestExists ==
  ASSUME NEW n \in Nat, NEW T \in SUBSET (0 .. n), 0 \in T
  PROVE  \E x \in T : \A y \in T : x >= y
<1>. SUFFICES ASSUME \A x \in T : \E y \in T : ~ (x >= y) PROVE FALSE
  OBVIOUS
<1>. DEFINE U == {k \in 0 .. n : \A y \in T : y <= n - k}
<1>1. 0 \in U
  OBVIOUS
<1>2. ASSUME NEW k \in 0 .. n - 1, k \in U PROVE k + 1 \in U
  <2>1. \A y \in T : y \in Int /\ y <= n - k
    BY <1>2
  <2>2. n - k \notin T
    BY <2>1
  <2>3. \A y \in T : y <= n - (k + 1)
    BY <2>1, <2>2
  <2>. QED BY <2>3
<1>3. n \in U
  <2>. HIDE DEF U
  <2>. QED BY <1>1, <1>2, Numbers!InductionUpTo
<1>4. \A y \in T : y <= 0
  BY <1>3
<1>. QED BY <1>4

(* The distances of the first k points. *)
Shells(E, k) == {E[m] : m \in 1 .. k}

LEMMA ShellsAreFinite ==
  ASSUME NEW n \in Nat, NEW E \in [1 .. n -> Nat], NEW k \in 0 .. n
  PROVE  IsFiniteSet(Shells(E, k)) /\ Cardinality(Shells(E, k)) \in Nat
<1>. DEFINE f == [m \in 1 .. k |-> E[m]]
<1>1. f \in Surjection(1 .. k, Shells(E, k))
  BY DEF Surjection, Shells
<1>2. IsFiniteSet(1 .. k)
  BY FS_Interval
<1>. HIDE DEF f
<1>3. IsFiniteSet(Shells(E, k))
  BY <1>1, <1>2, FS_Surjection
<1>. QED BY <1>3, FS_CardinalityType

LEMMA ShellsGrow ==
  ASSUME NEW n \in Nat, NEW E \in [1 .. n -> Nat], NEW k \in 0 .. n - 1
  PROVE  Cardinality(Shells(E, k + 1)) =
           IF E[k + 1] \in Shells(E, k) THEN Cardinality(Shells(E, k))
           ELSE Cardinality(Shells(E, k)) + 1
<1>1. Shells(E, k + 1) = Shells(E, k) \union {E[k + 1]}
  <2>1. 1 .. k + 1 = 1 .. k \union {k + 1}
    OBVIOUS
  <2>. QED BY <2>1 DEF Shells
<1>2. IsFiniteSet(Shells(E, k))
  BY ShellsAreFinite
<1>. QED BY <1>1, <1>2, FS_AddElement

(* The longest beginning of an ascending sequence with no more than w      *)
(* values ends between two values, and has w of them if there are as many. *)
Ascends(E, n) == E \in [1 .. n -> Nat] /\ \A l, m \in 1 .. n : l < m => E[l] <= E[m]

IsLongest(E, n, w, c) ==
  /\ Cardinality(Shells(E, c)) <= w
  /\ \A m \in 0 .. n : Cardinality(Shells(E, m)) <= w => c >= m

IsBetweenShells(E, n, w, c) ==
  /\ c # 0
  /\ \A l \in 1 .. c, m \in c + 1 .. n : E[l] < E[m]
  /\ Cardinality(Shells(E, c)) =
       IF w <= Cardinality(Shells(E, n)) THEN w ELSE Cardinality(Shells(E, n))

LEMMA CutIsBetweenShells ==
  ASSUME NEW n \in Nat \ {0}, NEW w \in Nat \ {0}, NEW E, Ascends(E, n),
         NEW c \in 0 .. n, IsLongest(E, n, w, c)
  PROVE  IsBetweenShells(E, n, w, c)
<1>0. /\ E \in [1 .. n -> Nat] /\ \A l, m \in 1 .. n : l < m => E[l] <= E[m]
      /\ Cardinality(Shells(E, c)) <= w
      /\ \A m \in 0 .. n : Cardinality(Shells(E, m)) <= w => c >= m
  BY DEF Ascends, IsLongest
<1>1. c # 0
  <2>1. Shells(E, 1) = {E[1]}
    BY DEF Shells
  <2>2. Cardinality(Shells(E, 1)) = 1
    BY <2>1, FS_Singleton
  <2>. QED BY <1>0, <2>2
<1>2. CASE c = n
  <2>1. Cardinality(Shells(E, n)) <= w /\ Cardinality(Shells(E, n)) \in Nat
    BY <1>0, <1>2, ShellsAreFinite
  <2>2. c + 1 .. n = {}
    BY <1>2
  <2>3. Cardinality(Shells(E, c)) = Cardinality(Shells(E, n))
    BY <1>2
  <2>4. PICK x \in Nat : x = Cardinality(Shells(E, n))
    BY <2>1
  <2>5. x = IF w <= x THEN w ELSE x
    BY <2>1, <2>4
  <2>. QED BY <1>1, <2>2, <2>3, <2>4, <2>5 DEF IsBetweenShells
<1>3. CASE c # n
  <2>1. c \in 0 .. n - 1 /\ c + 1 \in 0 .. n /\ c + 1 \in 1 .. n
    BY <1>3
  <2>2. PICK x \in Nat : x = Cardinality(Shells(E, c))
    BY <1>0, ShellsAreFinite
  <2>3. PICK y \in Nat : y = Cardinality(Shells(E, c + 1))
    BY <1>0, <2>1, ShellsAreFinite
  <2>4. ~ (y <= w)
    BY <1>0, <2>1, <2>3
  <2>5. E[c + 1] \notin Shells(E, c) /\ x = w
    <3>1. y = IF E[c + 1] \in Shells(E, c) THEN x ELSE x + 1
      BY <1>0, <2>1, <2>2, <2>3, ShellsGrow
    <3>. QED BY <1>0, <2>2, <2>4, <3>1
  <2>6. ASSUME NEW l \in 1 .. c, NEW m \in c + 1 .. n PROVE E[l] < E[m]
    <3>1. /\ l \in 1 .. n /\ m \in 1 .. n /\ l < c + 1 /\ c + 1 <= m
          /\ E[l] \in Nat /\ E[m] \in Nat /\ E[c + 1] \in Nat
      BY <1>0, <2>1
    <3>2. E[l] <= E[c + 1]
      BY <1>0, <2>1, <3>1
    <3>3. E[c + 1] <= E[m]
      <4>1. c + 1 = m \/ c + 1 < m
        BY <3>1
      <4>2. CASE c + 1 = m
        BY <3>1, <4>2
      <4>3. CASE c + 1 < m
        BY <1>0, <2>1, <3>1, <4>3
      <4>. QED BY <4>1, <4>2, <4>3
    <3>4. E[l] # E[c + 1]
      BY <2>5 DEF Shells
    <3>. QED BY <3>1, <3>2, <3>3, <3>4
  <2>7. w <= Cardinality(Shells(E, n))
    <3>1. Shells(E, c) \subseteq Shells(E, n)
      BY DEF Shells
    <3>2. IsFiniteSet(Shells(E, n))
      BY <1>0, ShellsAreFinite
    <3>3. Cardinality(Shells(E, c)) <= Cardinality(Shells(E, n))
      BY <3>1, <3>2, FS_Subset
    <3>. QED BY <2>2, <2>5, <3>3
  <2>. QED BY <1>1, <2>2, <2>5, <2>6, <2>7 DEF IsBetweenShells
<1>. QED BY <1>2, <1>3

-----------------------------------------------------------------------------
(* Distances of a code's grid points are natural numbers. *)

Weights == Tables!Weight \in [0 .. Dim -> Nat \ {0}]

LEMMA WeightsArePositive == Weights
<1>1. Dim \in Nat /\ Levels \in Nat \ {0}
  BY KernelsAssumption DEF Tables!NeighbourConstants
<1>. DEFINE Upto(h) == h = [k \in 0 .. Dim |-> IF k = 0 THEN 1 ELSE h[k - 1] * Levels]
            h == CHOOSE h : Upto(h)
<1>2. PICK g : /\ g \in [0 .. Dim -> Nat \ {0}] /\ g[0] = 1
               /\ \A i \in 1 .. Dim : g[i] = g[i - 1] * Levels
  <2>. DEFINE S == Nat \ {0}
              step == [x \in S \X (1 .. Dim) |-> x[1] * Levels]
  <2>0. \A x \in S : x * Levels \in S
    BY <1>1
  <2>1. step \in [S \X (1 .. Dim) -> S]
    BY <2>0
  <2>2. \A x \in S, i \in 1 .. Dim : step[<<x, i>>] = x * Levels
    OBVIOUS
  <2>3. 1 \in S
    OBVIOUS
  <2>. HIDE DEF step, S
  <2>4. PICK g : Numbers!Steps(g, Dim, S, 1, step)
    BY <1>1, <2>1, <2>3, Numbers!RecursionUpTo
  <2>5. g \in [0 .. Dim -> S] /\ g[0] = 1 /\ \A i \in 1 .. Dim : g[i] = step[<<g[i - 1], i>>]
    BY <2>4 DEF Numbers!Steps
  <2>6. \A i \in 1 .. Dim : i - 1 \in 0 .. Dim
    BY <1>1
  <2>7. \A i \in 1 .. Dim : g[i - 1] \in S
    BY <2>5, <2>6
  <2>8. \A i \in 1 .. Dim : step[<<g[i - 1], i>>] = g[i - 1] * Levels
    BY <2>2, <2>7
  <2>9. \A i \in 1 .. Dim : g[i] = g[i - 1] * Levels
    BY <2>5, <2>8
  <2>10. g \in [0 .. Dim -> Nat \ {0}] /\ g[0] = 1
    BY <2>5 DEF S
  <2>. QED BY <2>9, <2>10
<1>3. Upto(g)
  <2>1. g = [k \in 0 .. Dim |-> g[k]]
    BY <1>2
  <2>2. \A k \in 0 .. Dim : k = 0 \/ k \in 1 .. Dim
    BY <1>1
  <2>. QED BY <1>2, <2>1, <2>2
<1>4. Upto(h)
  BY <1>3
<1>5. Tables!Weight = h
  BY DEF Tables!Weight
<1>. HIDE DEF h
<1>6. ASSUME NEW k \in 0 .. Dim PROVE h[k] = g[k]
  <2>1. \A i \in 1 .. Dim : i \in 0 .. Dim /\ i # 0
    OBVIOUS
  <2>2. \A i \in 1 .. Dim : h[i] = h[i - 1] * Levels
    BY <1>4, <2>1
  <2>3. h[0] = 1
    BY <1>1, <1>4
  <2>. HIDE DEF Upto
  <2>4. Numbers!StepAlike(h, g, Dim)
    BY <1>2, <2>2, <2>3 DEF Numbers!StepAlike
  <2>. QED BY <1>1, <2>4, Numbers!SameUpTo
<1>7. DOMAIN h = 0 .. Dim /\ h = [k \in DOMAIN h |-> h[k]]
  BY <1>4
<1>8. h = g
  BY <1>2, <1>6, <1>7
<1>. QED BY <1>2, <1>5, <1>8 DEF Weights

LEMMA PositionIsInteger ==
  ASSUME NEW code \in Nat, NEW k \in 0 .. Dim
  PROVE  Tables!Pos(code, k) \in Int
<1>1. PICK w \in Nat \ {0} : w = Tables!Weight[k]
  BY WeightsArePositive DEF Weights
<1>2. PICK q \in Nat : q = code \div w
  <2>1. code \div w \in Nat
    OBVIOUS
  <2>. QED BY <2>1
<1>3. PICK v \in Nat \ {0} : v = Levels
  BY KernelsAssumption DEF Tables!NeighbourConstants
<1>4. PICK l \in Nat : l = q % v
  <2>1. q % v \in Nat
    OBVIOUS
  <2>. QED BY <2>1
<1>5. Tables!Pos(code, k) = 2 * l + 1
  BY <1>1, <1>2, <1>3, <1>4 DEF Tables!Pos, Tables!Level
<1>. QED BY <1>5

LEMMA SquareIsNatural ==
  ASSUME NEW a \in Int, NEW b \in Int
  PROVE  (a - b) * (a - b) \in Nat
<1>1. PICK c \in Int : c = a - b
  OBVIOUS
<1>2. c * c \in Nat
  OBVIOUS
<1>. QED BY <1>1, <1>2

LEMMA DistanceIsNatural ==
  ASSUME NEW a \in Nat, NEW b \in Nat
  PROVE  Tables!Distance(a, b) \in Nat
<1>1. Dim \in Nat
  BY KernelsAssumption DEF Tables!NeighbourConstants
<1>. DEFINE square(k) == (Tables!Pos(a, k - 1) - Tables!Pos(b, k - 1))
                          * (Tables!Pos(a, k - 1) - Tables!Pos(b, k - 1))
            Upto(h) == h = [k \in 0 .. Dim |-> IF k = 0 THEN 0 ELSE h[k - 1] + square(k)]
            h == CHOOSE h : Upto(h)
<1>2. \A k \in 1 .. Dim : square(k) \in Nat
  <2>1. \A k \in 1 .. Dim : k - 1 \in 0 .. Dim
    BY <1>1
  <2>2. \A k \in 1 .. Dim : Tables!Pos(a, k - 1) \in Int /\ Tables!Pos(b, k - 1) \in Int
    BY <2>1, PositionIsInteger
  <2>. QED BY <2>2, SquareIsNatural
<1>3. Tables!Distance(a, b) = h[Dim]
  BY DEF Tables!Distance
<1>. HIDE DEF square
<1>4. PICK g : /\ g \in [0 .. Dim -> Nat] /\ g[0] = 0
               /\ \A i \in 1 .. Dim : g[i] = g[i - 1] + square(i)
  <2>. DEFINE step == [x \in Nat \X (1 .. Dim) |-> x[1] + square(x[2])]
  <2>1. step \in [Nat \X (1 .. Dim) -> Nat]
    BY <1>2
  <2>2. \A x \in Nat, i \in 1 .. Dim : step[<<x, i>>] = x + square(i)
    OBVIOUS
  <2>. HIDE DEF step
  <2>3. PICK g : Numbers!Steps(g, Dim, Nat, 0, step)
    BY <1>1, <2>1, Numbers!RecursionUpTo
  <2>4. g \in [0 .. Dim -> Nat] /\ g[0] = 0 /\ \A i \in 1 .. Dim : g[i] = step[<<g[i - 1], i>>]
    BY <2>3 DEF Numbers!Steps
  <2>5. \A i \in 1 .. Dim : g[i - 1] \in Nat
    <3>1. \A i \in 1 .. Dim : i - 1 \in 0 .. Dim
      BY <1>1
    <3>. QED BY <2>4, <3>1
  <2>. QED BY <2>2, <2>4, <2>5
<1>5. Upto(g)
  <2>1. g = [k \in 0 .. Dim |-> g[k]]
    BY <1>4
  <2>2. \A k \in 0 .. Dim : k = 0 \/ k \in 1 .. Dim
    BY <1>1
  <2>. QED BY <1>4, <2>1, <2>2
<1>6. Upto(h)
  BY <1>5
<1>. HIDE DEF h
<1>7. h[Dim] = g[Dim]
  <2>1. \A i \in 1 .. Dim : i \in 0 .. Dim /\ i # 0
    OBVIOUS
  <2>2. \A i \in 1 .. Dim : h[i] = h[i - 1] + square(i)
    BY <1>6, <2>1
  <2>3. h[0] = 0
    BY <1>1, <1>6
  <2>. HIDE DEF Upto
  <2>4. Numbers!StepAlike(h, g, Dim)
    BY <1>4, <2>2, <2>3 DEF Numbers!StepAlike
  <2>. QED BY <1>1, <2>4, Numbers!SameUpTo
<1>. QED BY <1>1, <1>3, <1>4, <1>7

-----------------------------------------------------------------------------
(* The neighbours of a code. *)

GridIsThere == grid \in Seq(Tables!Codes) /\ grid # <<>>

DistancesOf(code) == [j \in 0 .. Len(grid) - 1 |-> Tables!Distance(Tables!Point(j), code)]

(* As LookupIsNearest says it of the candidates. *)
AreNearest(r, code) ==
  LET found == Tables!ToSet(r)
      all == Tables!GridNumbers
      dist(j) == Tables!Distance(Tables!Point(j), code)
  IN  /\ r \in Seq(all)
      /\ found # {} /\ found \subseteq all
      /\ Len(r) = Tables!Cardinality(found)
      /\ \A j \in found, k \in all \ found : dist(j) < dist(k)
      /\ Tables!Cardinality({dist(j) : j \in found}) =
           Tables!Min({NWant, Tables!Cardinality({dist(j) : j \in all})})

LEMMA GridFacts ==
  ASSUME GridIsThere, NEW code \in Tables!Codes
  PROVE  /\ Len(grid) \in Nat \ {0}
         /\ Tables!GridNumbers = 0 .. Len(grid) - 1
         /\ \A j \in 0 .. Len(grid) - 1 : Tables!Distance(Tables!Point(j), code) \in Nat
         /\ code \in Nat
<1>1. Tables!Codes \subseteq Nat
  <2>1. MapSize \in Int
    BY KernelsAssumption DEF Tables!NeighbourConstants
  <2>. QED BY <2>1 DEF Tables!Codes
<1>2. PICK n \in Nat \ {0} : n = Len(grid) /\ DOMAIN grid = 1 .. n
  <2>1. Len(grid) \in Nat /\ DOMAIN grid = 1 .. Len(grid)
    BY DEF GridIsThere
  <2>2. Len(grid) # 0
    BY DEF GridIsThere
  <2>. QED BY <2>1, <2>2
<1>3. Tables!GridNumbers = 0 .. Len(grid) - 1
  BY DEF Tables!GridNumbers, Tables!GridSize
<1>4. ASSUME NEW j \in 0 .. n - 1 PROVE Tables!Distance(Tables!Point(j), code) \in Nat
  <2>1. j + 1 \in 1 .. n
    OBVIOUS
  <2>2. grid[j + 1] \in Tables!Codes
    BY <1>2, <2>1 DEF GridIsThere
  <2>3. Tables!Point(j) \in Nat
    BY <1>1, <2>2 DEF Tables!Point
  <2>. QED BY <1>1, <2>3, DistanceIsNatural
<1>. QED BY <1>1, <1>2, <1>3, <1>4

LEMMA SortedIsSorted ==
  ASSUME GridIsThere, NEW code \in Tables!Codes
  PROVE  /\ DistancesOf(code) \in [0 .. Len(grid) - 1 -> Nat]
         /\ IsSorted(Tables!Sorted(code), DistancesOf(code), Len(grid))
<1>1. PICK n \in Nat \ {0} : n = Len(grid)
  BY GridFacts
<1>2. PICK D : D = DistancesOf(code)
  OBVIOUS
<1>3. /\ D \in [0 .. n - 1 -> Nat]
      /\ \A j \in 0 .. n - 1 : D[j] = Tables!Distance(Tables!Point(j), code)
  BY <1>1, <1>2, GridFacts DEF DistancesOf
<1>4. \A i, j \in 0 .. n - 1 :
        Tables!Before(code, i, j) <=> D[i] < D[j] \/ (D[i] = D[j] /\ i < j)
  BY <1>3 DEF Tables!Before
<1>5. Tables!GridNumbers = 0 .. n - 1 /\ Tables!GridSize = n
  BY <1>1, GridFacts DEF Tables!GridSize
<1>6. ASSUME NEW j \in 0 .. n - 1
      PROVE  {i \in Tables!GridNumbers : Tables!Before(code, i, j)} = Below(D, n, j)
  BY <1>4, <1>5 DEF Below
<1>7. \A S : Tables!Cardinality(S) = Cardinality(S)
  BY DEF Tables!Cardinality, Cardinality
<1>8. \A j \in 0 .. n - 1 :
        Tables!Cardinality({i \in Tables!GridNumbers : Tables!Before(code, i, j)})
          = Cardinality(Below(D, n, j))
  BY <1>6, <1>7
<1>. DEFINE Old(m) == CHOOSE j \in Tables!GridNumbers :
              Tables!Cardinality({i \in Tables!GridNumbers : Tables!Before(code, i, j)}) = m - 1
            New(m) == CHOOSE j \in 0 .. n - 1 : Cardinality(Below(D, n, j)) = m - 1
<1>9. \A m : Old(m) = New(m)
  BY <1>5, <1>8
<1>10. Tables!Sorted(code) = [m \in 1 .. n |-> New(m)]
  <2>1. Tables!Sorted(code) = [m \in 1 .. Tables!GridSize |-> Old(m)]
    BY DEF Tables!Sorted
  <2>. HIDE DEF Old, New
  <2>. QED BY <1>5, <1>9, <2>1
<1>11. IsSorted(Tables!Sorted(code), D, n)
  BY <1>3, <1>10, SortingSorts
<1>. QED BY <1>1, <1>2, <1>3, <1>11

LEMMA SmallerOfTwo ==
  ASSUME NEW a \in Nat, NEW b \in Nat
  PROVE  Tables!Min({a, b}) = IF a <= b THEN a ELSE b
<1>. DEFINE Smallest(x) == \A y \in {a, b} : x <= y
            S == {a, b}
<1>1. Tables!Min(S) = CHOOSE x \in S : Smallest(x)
  BY DEF Tables!Min
<1>2. \E x \in S : Smallest(x)
  OBVIOUS
<1>3. PICK x : x \in S /\ Smallest(x) /\ x = Tables!Min(S)
  <2>. HIDE DEF S, Smallest
  <2>. QED BY <1>1, <1>2
<1>. QED BY <1>3

LEMMA LargestOfThem ==
  ASSUME NEW n \in Nat, NEW T \in SUBSET (0 .. n), 0 \in T
  PROVE  Tables!Max(T) \in T /\ \A y \in T : Tables!Max(T) >= y
<1>1. \E x \in T : \A y \in T : x >= y
  BY LargestExists
<1>. QED BY <1>1 DEF Tables!Max

(* Nearest takes the beginning of the sorted points that ends where one    *)
(* distance more would begin. *)
IsCut(r, s, E, n, c) == r = SubSeq(s, 1, c) /\ IsLongest(E, n, NWant, c)

LEMMA NearestIsCut ==
  ASSUME GridIsThere, NEW code \in Tables!Codes, NEW n, n = Len(grid),
         NEW s, s = Tables!Sorted(code), NEW D, D = DistancesOf(code),
         NEW E, \A m \in 1 .. n : E[m] = D[s[m]]
  PROVE  \E c \in 0 .. n : IsCut(Tables!Nearest(code), s, E, n, c)
<1>1. /\ n \in Nat \ {0} /\ Tables!GridSize = n
      /\ \A j \in 0 .. n - 1 : D[j] = Tables!Distance(Tables!Point(j), code)
  BY GridFacts DEF Tables!GridSize, DistancesOf
<1>2. s \in [1 .. n -> 0 .. n - 1]
  BY SortedIsSorted DEF IsSorted
<1>3. ASSUME NEW k \in 0 .. n
      PROVE  {Tables!Distance(Tables!Point(s[m]), code) : m \in 1 .. k} = Shells(E, k)
  <2>1. ASSUME NEW m \in 1 .. k PROVE E[m] = Tables!Distance(Tables!Point(s[m]), code)
    <3>1. m \in 1 .. n
      BY <1>1
    <3>2. s[m] \in 0 .. n - 1
      BY <1>2, <3>1
    <3>. QED BY <1>1, <3>1, <3>2
  <2>. QED BY <2>1 DEF Shells
<1>4. \A S : Tables!Cardinality(S) = Cardinality(S)
  BY DEF Tables!Cardinality, Cardinality
<1>5. \A k \in 0 .. n : Tables!InShells(code, s, k) <=> Cardinality(Shells(E, k)) <= NWant
  BY <1>3, <1>4 DEF Tables!InShells
<1>. DEFINE T == {m \in 0 .. n : Tables!InShells(code, s, m)}
            c == Tables!Max(T)
<1>6. Tables!Nearest(code) = SubSeq(s, 1, c)
  BY <1>1 DEF Tables!Nearest
<1>7. 0 \in T
  <2>1. Shells(E, 0) = {}
    BY DEF Shells
  <2>2. Cardinality(Shells(E, 0)) = 0
    BY <2>1, FS_EmptySet
  <2>3. 0 <= NWant
    BY KernelsAssumption DEF Tables!NeighbourConstants
  <2>. QED BY <1>1, <1>5, <2>2, <2>3
<1>8. c \in T /\ \A y \in T : c >= y
  <2>. HIDE DEF T
  <2>1. T \in SUBSET (0 .. n)
    BY DEF T
  <2>. QED BY <1>1, <1>7, <2>1, LargestOfThem
<1>9. PICK k : k = c
  OBVIOUS
<1>. HIDE DEF c
<1>10. /\ k \in 0 .. n /\ Tables!InShells(code, s, k)
       /\ \A m \in 0 .. n : Tables!InShells(code, s, m) => k >= m
  BY <1>8, <1>9
<1>. QED BY <1>5, <1>6, <1>9, <1>10 DEF IsCut, IsLongest

LEMMA NearestIsNearest ==
  ASSUME GridIsThere, NEW code \in Tables!Codes
  PROVE  AreNearest(Tables!Nearest(code), code)
<1>1. PICK n \in Nat \ {0} : n = Len(grid)
  BY GridFacts
<1>2. PICK s, D : s = Tables!Sorted(code) /\ D = DistancesOf(code)
  OBVIOUS
<1>3. D \in [0 .. n - 1 -> Nat] /\ IsSorted(s, D, n)
  BY <1>1, <1>2, SortedIsSorted
<1>4. /\ s \in [1 .. n -> 0 .. n - 1]
      /\ \A j \in 0 .. n - 1 : \E m \in 1 .. n : s[m] = j
      /\ \A l, m \in 1 .. n : l < m => s[l] # s[m] /\ D[s[l]] <= D[s[m]]
  BY <1>3 DEF IsSorted
<1>5. PICK E : E = [m \in 1 .. n |-> D[s[m]]]
  OBVIOUS
<1>6. E \in [1 .. n -> Nat] /\ \A l, m \in 1 .. n : l < m => E[l] <= E[m]
  BY <1>3, <1>4, <1>5
<1>7. PICK c \in 0 .. n : IsCut(Tables!Nearest(code), s, E, n, c)
  <2>1. \A m \in 1 .. n : E[m] = D[s[m]]
    BY <1>5
  <2>. QED BY <1>1, <1>2, <2>1, NearestIsCut
<1>8. /\ Tables!Nearest(code) = SubSeq(s, 1, c)
      /\ c # 0
      /\ \A l \in 1 .. c, m \in c + 1 .. n : E[l] < E[m]
      /\ Cardinality(Shells(E, c)) =
           IF NWant <= Cardinality(Shells(E, n)) THEN NWant ELSE Cardinality(Shells(E, n))
  <2>1. NWant \in Nat \ {0}
    BY KernelsAssumption DEF Tables!NeighbourConstants
  <2>2. Ascends(E, n)
    BY <1>6 DEF Ascends
  <2>3. IsBetweenShells(E, n, NWant, c)
    BY <1>7, <2>1, <2>2, CutIsBetweenShells DEF IsCut
  <2>. QED BY <1>7, <2>3 DEF IsCut, IsBetweenShells
<1>9. PICK r : r = Tables!Nearest(code)
  OBVIOUS
<1>10. /\ r \in Seq(0 .. n - 1) /\ Len(r) = c /\ DOMAIN r = 1 .. c
       /\ \A m \in 1 .. c : r[m] = s[m]
  <2>1. \A m \in 1 .. c : s[m] \in 0 .. n - 1
    BY <1>4
  <2>2. SubSeq(s, 1, c) \in Seq(0 .. n - 1)
    BY <2>1, SubSeqProperties
  <2>3. Len(SubSeq(s, 1, c)) = IF 1 <= c THEN c - 1 + 1 ELSE 0
    BY <2>1, SubSeqProperties
  <2>4. \A i \in 1 .. c - 1 + 1 : SubSeq(s, 1, c)[i] = s[1 + i - 1]
    BY <2>1, SubSeqProperties
  <2>5. Len(r) = c
    BY <1>8, <1>9, <2>3
  <2>6. \A m \in 1 .. c : m \in 1 .. c - 1 + 1 /\ 1 + m - 1 = m
    OBVIOUS
  <2>. QED BY <1>8, <1>9, <2>2, <2>4, <2>5, <2>6
<1>11. PICK found : found = Tables!ToSet(r)
  OBVIOUS
<1>12. found = {s[m] : m \in 1 .. c}
  BY <1>10, <1>11 DEF Tables!ToSet
<1>13. PICK all : all = Tables!GridNumbers /\ all = 0 .. n - 1
  BY <1>1, GridFacts
<1>14. \A j \in all : D[j] = Tables!Distance(Tables!Point(j), code)
  BY <1>1, <1>2, <1>13 DEF DistancesOf
<1>15. found \subseteq all /\ found # {} /\ s[1] \in found
  <2>1. \A m \in 1 .. c : s[m] \in all
    BY <1>4, <1>13
  <2>2. 1 \in 1 .. c
    BY <1>8
  <2>. QED BY <1>12, <2>1, <2>2
<1>16. \A S : Tables!Cardinality(S) = Cardinality(S)
  BY DEF Tables!Cardinality, Cardinality
<1>17. Len(r) = Cardinality(found)
  <2>. DEFINE f == [m \in 1 .. c |-> s[m]]
  <2>1. IsFiniteSet(1 .. c) /\ Cardinality(1 .. c) = c
    BY FS_Interval
  <2>2. f \in Surjection(1 .. c, found)
    BY <1>12 DEF Surjection
  <2>3. \A l, m \in 1 .. c : l # m => f[l] # f[m]
    <3>1. \A l, m \in 1 .. c : l < m => s[l] # s[m]
      BY <1>4
    <3>. QED BY <3>1
  <2>4. f \in Injection(1 .. c, found)
    BY <2>2, <2>3 DEF Surjection, Injection, IsInjective
  <2>. HIDE DEF f
  <2>5. Cardinality(found) = Cardinality(1 .. c)
    BY <2>1, <2>2, <2>4, FS_Surjection
  <2>. QED BY <1>10, <2>1, <2>5
<1>18. ASSUME NEW j \in found, NEW k \in all \ found PROVE D[j] < D[k]
  <2>1. PICK l \in 1 .. c : j = s[l]
    BY <1>12
  <2>2. PICK m \in 1 .. n : k = s[m]
    BY <1>4, <1>13
  <2>3. m \in c + 1 .. n
    <3>1. m \notin 1 .. c
      BY <1>12, <2>2
    <3>. QED BY <3>1
  <2>4. E[l] < E[m]
    BY <1>8, <2>3
  <2>5. l \in 1 .. n
    OBVIOUS
  <2>. QED BY <1>5, <2>1, <2>2, <2>4, <2>5
<1>19. {D[j] : j \in found} = Shells(E, c) /\ {D[j] : j \in all} = Shells(E, n)
  <2>1. \A m \in 1 .. n : E[m] = D[s[m]]
    BY <1>5
  <2>2. \A m \in 1 .. c : E[m] = D[s[m]]
    BY <2>1
  <2>3. {D[j] : j \in found} = Shells(E, c)
    BY <1>12, <2>2 DEF Shells
  <2>4. \A m \in 1 .. n : s[m] \in all
    BY <1>4, <1>13
  <2>5. \A j \in all : \E m \in 1 .. n : j = s[m]
    BY <1>4, <1>13
  <2>6. {D[j] : j \in all} = Shells(E, n)
    BY <2>1, <2>4, <2>5 DEF Shells
  <2>. QED BY <2>3, <2>6
<1>. DEFINE dist(j) == Tables!Distance(Tables!Point(j), code)
<1>20. \A j \in all : dist(j) = D[j]
  BY <1>14
<1>. HIDE DEF dist
<1>21. {dist(j) : j \in found} = Shells(E, c) /\ {dist(j) : j \in all} = Shells(E, n)
  BY <1>15, <1>19, <1>20
<1>22. \A j \in found, k \in all \ found : dist(j) < dist(k)
  BY <1>15, <1>18, <1>20
<1>23. Cardinality(Shells(E, c)) = Tables!Min({NWant, Cardinality(Shells(E, n))})
  <2>1. NWant \in Nat
    BY KernelsAssumption DEF Tables!NeighbourConstants
  <2>2. n \in 0 .. n
    OBVIOUS
  <2>3. Cardinality(Shells(E, n)) \in Nat
    BY <1>6, <2>2, ShellsAreFinite
  <2>. QED BY <1>8, <2>1, <2>3, SmallerOfTwo
<1>24. Tables!Cardinality({dist(j) : j \in found}) =
         Tables!Min({NWant, Tables!Cardinality({dist(j) : j \in all})})
  BY <1>16, <1>21, <1>23
<1>25. AreNearest(r, code)
  <2>1. r \in Seq(all) /\ Len(r) = Tables!Cardinality(found)
    BY <1>10, <1>13, <1>16, <1>17
  <2>. QED BY <1>11, <1>13, <1>15, <1>22, <1>24, <2>1 DEF AreNearest, dist
<1>. QED BY <1>9, <1>25

-----------------------------------------------------------------------------
(* What the two passes over the codes do. *)

OnGrid(c) == \E j \in Tables!GridNumbers : Tables!Point(j) = c

(* The map of the first loop. *)
Indexed(c) ==
  IF OnGrid(c) THEN CHOOSE j \in Tables!GridNumbers : Tables!Point(j) = c ELSE -1

(* Elements that a code needs in the array of neighbours, and those that   *)
(* the codes below one need. *)
Needs(c) == IF OnGrid(c) THEN 0 ELSE Tables!RecordSize(c)

AreSizes(g) ==
  /\ g \in [0 .. MapSize -> Nat]
  /\ g[0] = 0
  /\ \A c \in Tables!Codes : g[c + 1] = g[c] + Needs(c)

Sizes == CHOOSE g : AreSizes(g)

Filled(c) == pass \in {"fill", "done"} /\ c < nextCode /\ ~ OnGrid(c)

RecordIs(c) ==
  LET r == Tables!Nearest(c)
      begin == Tables!RecordAt(c)
  IN  /\ map[c] < 0
      /\ begin \in Nat
      /\ begin + 1 + Len(r) <= Len(neighbours)
      /\ neighbours[begin + 1] = Len(r)
      /\ \A m \in 1 .. Len(r) : neighbours[begin + 1 + m] = r[m]

PassInv ==
  /\ GridIsThere
  /\ nextCode \in 0 .. MapSize
  /\ neighbours \in Seq(Nat)
  /\ pass \in {"index", "count", "fill", "done"}
  /\ pass = "done" => nextCode = MapSize
  /\ pass \in {"index", "count"} => neighbours = <<>>
  /\ pass = "index" => nextCode = 0 /\ needed = 0
  /\ pass = "count" => needed = Sizes[nextCode]
  /\ pass \in {"fill", "done"} => needed = Sizes[MapSize] /\ Len(neighbours) = Sizes[nextCode]

MapInv ==
  pass # "index" =>
    /\ map \in [Tables!Codes -> Int]
    /\ \A c \in Tables!Codes : IF Filled(c) THEN RecordIs(c) ELSE map[c] = Indexed(c)

TablesInv == PassInv /\ MapInv

LEMMA CodesAreNumbers == MapSize \in Nat \ {0} /\ Tables!Codes = 0 .. MapSize - 1
<1>1. MapSize \in Nat \ {0}
  BY KernelsAssumption DEF Tables!NeighbourConstants
<1>. QED BY <1>1 DEF Tables!Codes

LEMMA NearestIsRecord ==
  ASSUME GridIsThere, NEW c \in Tables!Codes
  PROVE  Tables!Nearest(c) \in Seq(Nat) /\ Len(Tables!Nearest(c)) \in Nat \ {0}
<1>1. PICK r : r = Tables!Nearest(c)
  OBVIOUS
<1>2. r \in Seq(Tables!GridNumbers) /\ Tables!ToSet(r) # {}
  BY <1>1, NearestIsNearest DEF AreNearest
<1>3. Tables!GridNumbers \subseteq Nat
  BY GridFacts
<1>4. r \in Seq(Nat)
  BY <1>2, <1>3, SeqMonotonic
<1>5. Len(r) # 0
  BY <1>2, <1>4 DEF Tables!ToSet
<1>. QED BY <1>1, <1>4, <1>5

LEMMA IndexedFacts ==
  ASSUME GridIsThere, NEW c \in Tables!Codes
  PROVE  /\ Indexed(c) \in Int
         /\ Indexed(c) >= 0 <=> OnGrid(c)
         /\ OnGrid(c) => Indexed(c) \in Tables!GridNumbers /\ Tables!Point(Indexed(c)) = c
<1>1. Tables!GridNumbers \subseteq Nat
  BY GridFacts
<1>2. CASE OnGrid(c)
  <2>1. PICK i : i = CHOOSE j \in Tables!GridNumbers : Tables!Point(j) = c
    OBVIOUS
  <2>2. i \in Tables!GridNumbers /\ Tables!Point(i) = c
    BY <1>2, <2>1 DEF OnGrid
  <2>3. Indexed(c) = i
    BY <1>2, <2>1 DEF Indexed
  <2>. QED BY <1>1, <1>2, <2>2, <2>3
<1>3. CASE ~ OnGrid(c)
  BY <1>3 DEF Indexed
<1>. QED BY <1>2, <1>3

LEMMA NeedsAreNatural ==
  ASSUME GridIsThere, NEW c \in Tables!Codes
  PROVE  Needs(c) \in Nat
<1>1. PICK k \in Nat : k = Len(Tables!Nearest(c))
  BY NearestIsRecord
<1>2. Tables!RecordSize(c) = 1 + k
  BY <1>1 DEF Tables!RecordSize
<1>. QED BY <1>2 DEF Needs

LEMMA SizesAreSums ==
  ASSUME GridIsThere
  PROVE  AreSizes(Sizes)
<1>1. PICK n \in Nat : n = MapSize /\ Tables!Codes = 0 .. n - 1
  BY CodesAreNumbers
<1>. DEFINE step == [x \in Nat \X (1 .. n) |-> x[1] + Needs(x[2] - 1)]
<1>2. \A i \in 1 .. n : Needs(i - 1) \in Nat
  <2>1. \A i \in 1 .. n : i - 1 \in 0 .. n - 1
    OBVIOUS
  <2>. QED BY <1>1, <2>1, NeedsAreNatural
<1>3. /\ step \in [Nat \X (1 .. n) -> Nat]
      /\ \A x \in Nat, i \in 1 .. n : step[<<x, i>>] = x + Needs(i - 1)
  BY <1>2
<1>. HIDE DEF step
<1>4. PICK g : Numbers!Steps(g, n, Nat, 0, step)
  BY <1>3, Numbers!RecursionUpTo
<1>5. g \in [0 .. n -> Nat] /\ g[0] = 0 /\ \A i \in 1 .. n : g[i] = step[<<g[i - 1], i>>]
  BY <1>4 DEF Numbers!Steps
<1>6. ASSUME NEW c \in 0 .. n - 1 PROVE g[c + 1] = g[c] + Needs(c)
  <2>1. c + 1 \in 1 .. n /\ (c + 1) - 1 = c /\ g[c] \in Nat
    BY <1>5
  <2>2. g[c + 1] = step[<<g[c], c + 1>>]
    BY <1>5, <2>1
  <2>3. step[<<g[c], c + 1>>] = g[c] + Needs((c + 1) - 1)
    BY <1>3, <2>1
  <2>. QED BY <2>1, <2>2, <2>3
<1>7. AreSizes(g)
  BY <1>1, <1>5, <1>6 DEF AreSizes
<1>. QED BY <1>7 DEF Sizes

LEMMA SizesGrow ==
  ASSUME GridIsThere, NEW k \in 0 .. MapSize
  PROVE  Sizes[k] <= Sizes[MapSize]
<1>1. PICK n \in Nat : n = MapSize /\ Tables!Codes = 0 .. n - 1
  BY CodesAreNumbers
<1>2. PICK g : g = Sizes
  OBVIOUS
<1>3. g \in [0 .. n -> Nat] /\ \A c \in 0 .. n - 1 : g[c + 1] = g[c] + Needs(c)
  BY <1>1, <1>2, SizesAreSums DEF AreSizes
<1>. DEFINE T == {d \in 0 .. n - k : g[k] <= g[k + d]}
<1>4. n - k \in Nat /\ k \in Nat
  BY <1>1
<1>5. 0 \in T
  <2>1. k + 0 = k /\ g[k] \in Nat
    BY <1>1, <1>3
  <2>. QED BY <1>4, <2>1
<1>6. ASSUME NEW d \in 0 .. (n - k) - 1, d \in T PROVE d + 1 \in T
  <2>1. k + d \in 0 .. n - 1 /\ k + (d + 1) = (k + d) + 1 /\ d + 1 \in 0 .. n - k
    BY <1>4
  <2>2. g[k + (d + 1)] = g[k + d] + Needs(k + d)
    BY <1>3, <2>1
  <2>3. Needs(k + d) \in Nat
    BY <1>1, <2>1, NeedsAreNatural
  <2>4. g[k] \in Nat /\ g[k + d] \in Nat /\ g[k] <= g[k + d]
    BY <1>1, <1>3, <1>6, <2>1
  <2>5. g[k] <= g[k + (d + 1)]
    BY <2>2, <2>3, <2>4
  <2>. QED BY <2>1, <2>5
<1>7. n - k \in T
  <2>. HIDE DEF T
  <2>. QED BY <1>4, <1>5, <1>6, Numbers!InductionUpTo
<1>8. k + (n - k) = n
  BY <1>4
<1>. QED BY <1>1, <1>2, <1>7, <1>8

LEMMA SameGrid ==
  ASSUME UNCHANGED grid
  PROVE  /\ \A c : OnGrid(c)' <=> OnGrid(c)
         /\ \A c : Tables!Nearest(c)' = Tables!Nearest(c)
         /\ \A c : Indexed(c)' = Indexed(c)
         /\ Sizes' = Sizes
         /\ GridIsThere' <=> GridIsThere
<1>1. \A c : OnGrid(c)' <=> OnGrid(c)
  BY DEF OnGrid, Tables!Point, Tables!GridNumbers, Tables!GridSize
<1>2. \A c : Tables!Nearest(c)' = Tables!Nearest(c)
  <2>1. \A c : Tables!Sorted(c)' = Tables!Sorted(c)
    BY DEF Tables!Sorted, Tables!Before, Tables!Point, Tables!GridNumbers, Tables!GridSize
  <2>2. \A c, s, n : Tables!InShells(c, s, n)' <=> Tables!InShells(c, s, n)
    BY DEF Tables!InShells, Tables!Point
  <2>. QED BY <2>1, <2>2 DEF Tables!Nearest, Tables!GridSize, Tables!Max
<1>3. \A c : Needs(c)' = Needs(c)
  BY <1>1, <1>2 DEF Needs, Tables!RecordSize
<1>4. Sizes' = Sizes
  BY <1>3 DEF Sizes, AreSizes, Tables!Codes
<1>5. \A c : Indexed(c)' = Indexed(c)
  BY <1>1 DEF Indexed, Tables!Point, Tables!GridNumbers, Tables!GridSize
<1>. QED BY <1>1, <1>2, <1>4, <1>5 DEF GridIsThere, Tables!Codes

LEMMA SameRecords ==
  ASSUME UNCHANGED <<grid, map, neighbours>>, NEW c
  PROVE  RecordIs(c)' <=> RecordIs(c)
BY SameGrid DEF RecordIs, Tables!RecordAt

LEMMA TablesInit == Tables!Init => TablesInv
<1>. SUFFICES ASSUME Tables!Init PROVE TablesInv
  OBVIOUS
<1>1. /\ pass = "index" /\ nextCode = 0 /\ needed = 0 /\ neighbours = <<>>
  BY DEF Tables!Init
<1>2. GridIsThere
  <2>1. PICK n \in 1 .. MaxGrid : grid \in [1 .. n -> Tables!Codes]
    BY DEF Tables!Init
  <2>2. n \in Nat \ {0}
    OBVIOUS
  <2>3. grid \in Seq(Tables!Codes) /\ Len(grid) = n
    BY <2>1, <2>2
  <2>. QED BY <2>2, <2>3 DEF GridIsThere
<1>3. nextCode \in 0 .. MapSize
  BY <1>1, CodesAreNumbers
<1>. QED BY <1>1, <1>2, <1>3 DEF TablesInv, PassInv, MapInv

LEMMA IndexGridStep == TablesInv /\ Tables!IndexGrid => TablesInv'
<1>. SUFFICES ASSUME TablesInv, Tables!IndexGrid PROVE TablesInv'
  OBVIOUS
<1>1. /\ pass = "index" /\ pass' = "count" /\ UNCHANGED <<grid, needed, neighbours, nextCode>>
      /\ nextCode = 0 /\ needed = 0 /\ neighbours = <<>> /\ nextCode \in 0 .. MapSize
      /\ GridIsThere
  BY DEF Tables!IndexGrid, TablesInv, PassInv
<1>2. map' = [c \in Tables!Codes |-> Indexed(c)]
  BY DEF Tables!IndexGrid, Indexed, OnGrid
<1>3. Sizes[0] = 0
  BY <1>1, SizesAreSums DEF AreSizes
<1>4. PassInv'
  BY <1>1, <1>3, SameGrid DEF PassInv
<1>5. Tables!Codes' = Tables!Codes
  BY DEF Tables!Codes
<1>6. \A c \in Tables!Codes : Indexed(c) \in Int
  BY <1>1, IndexedFacts
<1>7. map' \in [Tables!Codes -> Int] /\ \A c \in Tables!Codes : map'[c] = Indexed(c)
  <2>. HIDE DEF Indexed
  <2>. QED BY <1>2, <1>6
<1>8. \A c : ~ Filled(c)'
  BY <1>1 DEF Filled
<1>9. MapInv'
  BY <1>1, <1>5, <1>7, <1>8, SameGrid DEF MapInv
<1>. QED BY <1>4, <1>9 DEF TablesInv

LEMMA CountStep == TablesInv /\ Tables!Count => TablesInv'
<1>. SUFFICES ASSUME TablesInv, Tables!Count PROVE TablesInv'
  OBVIOUS
<1>1. /\ pass = "count" /\ pass' = "count" /\ UNCHANGED <<grid, map, neighbours>>
      /\ nextCode < MapSize /\ nextCode' = nextCode + 1
      /\ nextCode \in 0 .. MapSize /\ needed = Sizes[nextCode] /\ neighbours = <<>>
      /\ GridIsThere
  BY DEF Tables!Count, TablesInv, PassInv
<1>2. nextCode \in Tables!Codes /\ nextCode' \in 0 .. MapSize
  BY <1>1, CodesAreNumbers
<1>3. \A c : ~ Filled(c) /\ ~ Filled(c)'
  BY <1>1 DEF Filled
<1>4. map[nextCode] = Indexed(nextCode)
  BY <1>1, <1>2, <1>3 DEF TablesInv, MapInv
<1>5. map[nextCode] >= 0 <=> OnGrid(nextCode)
  BY <1>1, <1>2, <1>4, IndexedFacts
<1>6. Sizes[nextCode + 1] = Sizes[nextCode] + Needs(nextCode) /\ Sizes[nextCode] \in Nat
  BY <1>1, <1>2, SizesAreSums DEF AreSizes
<1>7. needed' = Sizes[nextCode + 1]
  <2>1. CASE OnGrid(nextCode)
    <3>1. Needs(nextCode) = 0 /\ needed' = needed
      BY <1>5, <2>1 DEF Needs, Tables!Count
    <3>. QED BY <1>1, <1>6, <3>1
  <2>2. CASE ~ OnGrid(nextCode)
    <3>1. Needs(nextCode) = Tables!RecordSize(nextCode)
      BY <2>2 DEF Needs
    <3>2. needed' = needed + Tables!RecordSize(nextCode)
      BY <1>5, <2>2 DEF Tables!Count
    <3>. QED BY <1>1, <1>6, <3>1, <3>2
  <2>. QED BY <2>1, <2>2
<1>8. PassInv'
  BY <1>1, <1>2, <1>7, SameGrid DEF TablesInv, PassInv
<1>9. MapInv'
  BY <1>1, <1>3, SameGrid DEF TablesInv, MapInv, Tables!Codes
<1>. QED BY <1>8, <1>9 DEF TablesInv

LEMMA AllocateStep == TablesInv /\ Tables!Allocate => TablesInv'
<1>. SUFFICES ASSUME TablesInv, Tables!Allocate PROVE TablesInv'
  OBVIOUS
<1>1. /\ pass = "count" /\ pass' = "fill" /\ UNCHANGED <<grid, map, needed, neighbours>>
      /\ nextCode = MapSize /\ nextCode' = 0
      /\ needed = Sizes[nextCode] /\ neighbours = <<>> /\ GridIsThere
  BY DEF Tables!Allocate, TablesInv, PassInv
<1>2. Sizes[0] = 0 /\ 0 \in 0 .. MapSize
  BY <1>1, SizesAreSums, CodesAreNumbers DEF AreSizes
<1>3. PassInv'
  BY <1>1, <1>2, SameGrid DEF TablesInv, PassInv
<1>4. \A c \in Tables!Codes : ~ Filled(c) /\ ~ Filled(c)'
  BY <1>1, CodesAreNumbers DEF Filled
<1>5. MapInv'
  BY <1>1, <1>4, SameGrid DEF TablesInv, MapInv, Tables!Codes
<1>. QED BY <1>3, <1>5 DEF TablesInv

IsAppended(t, s, r) ==
  /\ t \in Seq(Nat)
  /\ Len(t) = (Len(s) + 1) + Len(r)
  /\ \A i \in 1 .. Len(s) : t[i] = s[i]
  /\ t[Len(s) + 1] = Len(r)
  /\ \A m \in 1 .. Len(r) : t[(Len(s) + 1) + m] = r[m]

LEMMA RecordIsAppended ==
  ASSUME NEW s \in Seq(Nat), NEW r \in Seq(Nat), NEW t, t = s \o <<Len(r)>> \o r
  PROVE  IsAppended(t, s, r)
<1>1. PICK k \in Nat : k = Len(s)
  OBVIOUS
<1>2. PICK l \in Nat : l = Len(r)
  OBVIOUS
<1>3. PICK u : u = s \o <<l>>
  OBVIOUS
<1>4. <<l>> \in Seq(Nat) /\ Len(<<l>>) = 1 /\ <<l>>[1] = l
  OBVIOUS
<1>5. /\ u \in Seq(Nat) /\ Len(u) = k + 1
      /\ \A i \in 1 .. k + 1 : u[i] = IF i <= k THEN s[i] ELSE <<l>>[i - k]
  BY <1>1, <1>3, <1>4, ConcatProperties
<1>6. t = u \o r
  BY <1>2, <1>3
<1>7. /\ t \in Seq(Nat) /\ Len(t) = (k + 1) + l
      /\ \A i \in 1 .. (k + 1) + l : t[i] = IF i <= k + 1 THEN u[i] ELSE r[i - (k + 1)]
  <2>1. u \o r \in Seq(Nat) /\ Len(u \o r) = Len(u) + Len(r)
    BY <1>5, ConcatProperties
  <2>2. \A i \in 1 .. Len(u) + Len(r) :
          (u \o r)[i] = IF i <= Len(u) THEN u[i] ELSE r[i - Len(u)]
    BY <1>5, ConcatProperties
  <2>. QED BY <1>2, <1>5, <1>6, <2>1, <2>2
<1>8. ASSUME NEW i \in 1 .. k PROVE t[i] = s[i]
  <2>1. i \in 1 .. k + 1 /\ i \in 1 .. (k + 1) + l /\ i <= k /\ i <= k + 1
    OBVIOUS
  <2>. QED BY <1>5, <1>7, <2>1
<1>9. t[k + 1] = l
  <2>1. k + 1 \in 1 .. k + 1 /\ k + 1 \in 1 .. (k + 1) + l /\ ~ (k + 1 <= k) /\ (k + 1) - k = 1
    OBVIOUS
  <2>2. t[k + 1] = u[k + 1]
    BY <1>7, <2>1, SMTT(30)
  <2>3. u[k + 1] = <<l>>[(k + 1) - k]
    BY <1>5, <2>1
  <2>. QED BY <1>4, <2>1, <2>2, <2>3
<1>10. ASSUME NEW m \in 1 .. l PROVE t[(k + 1) + m] = r[m]
  <2>1. /\ (k + 1) + m \in 1 .. (k + 1) + l /\ ~ ((k + 1) + m <= k + 1)
        /\ ((k + 1) + m) - (k + 1) = m
    OBVIOUS
  <2>. QED BY <1>7, <2>1
<1>. QED BY <1>1, <1>2, <1>7, <1>8, <1>9, <1>10 DEF IsAppended

LEMMA FillStep == TablesInv /\ Tables!Fill => TablesInv'
<1>. SUFFICES ASSUME TablesInv, Tables!Fill PROVE TablesInv'
  OBVIOUS
<1>1. /\ pass = "fill" /\ pass' = "fill" /\ UNCHANGED <<grid, needed>>
      /\ nextCode < MapSize /\ nextCode' = nextCode + 1
      /\ nextCode \in 0 .. MapSize /\ GridIsThere /\ neighbours \in Seq(Nat)
      /\ needed = Sizes[MapSize] /\ Len(neighbours) = Sizes[nextCode]
      /\ map \in [Tables!Codes -> Int]
      /\ \A c \in Tables!Codes : IF Filled(c) THEN RecordIs(c) ELSE map[c] = Indexed(c)
  BY DEF Tables!Fill, TablesInv, PassInv, MapInv
<1>2. PICK z \in Tables!Codes : z = nextCode
  BY <1>1, CodesAreNumbers
<1>3. nextCode' \in 0 .. MapSize /\ Tables!Codes' = Tables!Codes /\ Tables!Codes \subseteq Nat
  BY <1>1, CodesAreNumbers DEF Tables!Codes
<1>4. ~ Filled(z) /\ map[z] = Indexed(z)
  BY <1>1, <1>2, <1>3 DEF Filled
<1>5. map[z] >= 0 <=> OnGrid(z)
  BY <1>1, <1>4, IndexedFacts
<1>6. \A c \in Tables!Codes : c # z => (Filled(c)' <=> Filled(c))
  BY <1>1, <1>2, <1>3, SameGrid DEF Filled
<1>7. Filled(z)' <=> ~ OnGrid(z)
  BY <1>1, <1>2, <1>3, SameGrid DEF Filled
<1>8. PICK r : r = Tables!Nearest(z) /\ r \in Seq(Nat)
  BY <1>1, NearestIsRecord
<1>9. Sizes[z + 1] = Sizes[z] + Needs(z) /\ Sizes[z] \in Nat
  <2>1. z \in 0 .. MapSize
    BY <1>1, <1>2
  <2>. QED BY <1>1, <2>1, SizesAreSums DEF AreSizes
<1>10. CASE OnGrid(z)
  <2>1. UNCHANGED <<map, neighbours>>
    BY <1>2, <1>5, <1>10 DEF Tables!Fill
  <2>2. Needs(z) = 0
    BY <1>10 DEF Needs
  <2>3. Len(neighbours') = Sizes[nextCode']
    BY <1>1, <1>2, <1>9, <2>1, <2>2
  <2>4. PassInv'
    BY <1>1, <1>3, <2>1, <2>3, SameGrid DEF PassInv
  <2>5. \A c \in Tables!Codes : IF Filled(c)' THEN RecordIs(c)' ELSE map'[c] = Indexed(c)'
    BY <1>1, <1>4, <1>6, <1>7, <1>10, <2>1, SameGrid, SameRecords
  <2>6. MapInv'
    BY <1>1, <1>3, <2>1, <2>5 DEF MapInv
  <2>. QED BY <2>4, <2>6 DEF TablesInv
<1>11. CASE ~ OnGrid(z)
  <2>1. /\ map' = [map EXCEPT ![z] = Tables!Offset(Len(neighbours))]
        /\ neighbours' = neighbours \o <<Len(r)>> \o r
    BY <1>2, <1>5, <1>8, <1>11 DEF Tables!Fill
  <2>2. PICK k \in Nat : k = Len(neighbours)
    BY <1>1
  <2>3. PICK l \in Nat : l = Len(r)
    BY <1>8
  <2>4. PICK t : t = neighbours'
    OBVIOUS
  <2>5. /\ t \in Seq(Nat) /\ Len(t) = (k + 1) + l
        /\ \A i \in 1 .. k : t[i] = neighbours[i]
        /\ t[k + 1] = l
        /\ \A m \in 1 .. l : t[(k + 1) + m] = r[m]
    <3>1. t = neighbours \o <<Len(r)>> \o r
      BY <2>1, <2>4
    <3>2. neighbours \in Seq(Nat)
      BY <1>1
    <3>3. IsAppended(t, neighbours, r)
      BY <1>8, <3>1, <3>2, RecordIsAppended
    <3>. QED BY <2>2, <2>3, <3>3 DEF IsAppended
  <2>6. Needs(z) = 1 + l
    BY <1>8, <1>11, <2>3 DEF Needs, Tables!RecordSize
  <2>7. Len(neighbours') = Sizes[nextCode']
    <3>1. PICK x \in Nat : x = Sizes[z]
      BY <1>9
    <3>2. Sizes[z + 1] = x + (1 + l) /\ k = x
      BY <1>1, <1>2, <1>9, <2>2, <2>6, <3>1
    <3>. QED BY <1>1, <1>2, <2>4, <2>5, <3>2
  <2>8. PassInv'
    BY <1>1, <1>3, <2>4, <2>5, <2>7, SameGrid DEF PassInv
  <2>9. Tables!Offset(k) \in Int /\ Tables!Offset(k) < 0 /\ 0 - Tables!Offset(k) - 1 = k
    BY DEF Tables!Offset
  <2>10. /\ map' \in [Tables!Codes -> Int] /\ map'[z] = Tables!Offset(k)
         /\ \A c \in Tables!Codes : c # z => map'[c] = map[c]
    BY <1>1, <2>1, <2>2, <2>9
  <2>11. RecordIs(z)'
    <3>1. Tables!RecordAt(z)' = k /\ Tables!Nearest(z)' = r
      BY <1>1, <1>8, <2>9, <2>10, SameGrid DEF Tables!RecordAt
    <3>2. k + 1 + l <= Len(t)
      BY <2>5
    <3>. QED BY <2>3, <2>4, <2>5, <2>9, <2>10, <3>1, <3>2 DEF RecordIs
  <2>12. ASSUME NEW c \in Tables!Codes, c # z, RecordIs(c) PROVE RecordIs(c)'
    <3>1. PICK q : q = Tables!Nearest(c) /\ q = Tables!Nearest(c)'
      BY <1>1, SameGrid
    <3>2. PICK b : b = Tables!RecordAt(c) /\ b = Tables!RecordAt(c)'
      BY <2>10, <2>12 DEF Tables!RecordAt
    <3>3. PICK n \in Nat : n = Len(q)
      BY <1>1, <3>1, NearestIsRecord
    <3>4. /\ map[c] < 0 /\ b \in Nat /\ b + 1 + n <= k /\ neighbours[b + 1] = n
          /\ \A m \in 1 .. n : neighbours[b + 1 + m] = q[m]
      BY <2>2, <2>12, <3>1, <3>2, <3>3 DEF RecordIs
    <3>5. b + 1 \in 1 .. k /\ \A m \in 1 .. n : b + 1 + m \in 1 .. k
      BY <3>4
    <3>6. t[b + 1] = n /\ \A m \in 1 .. n : t[b + 1 + m] = q[m]
      BY <2>5, <3>4, <3>5
    <3>7. b + 1 + n <= Len(t)
      BY <2>5, <3>4
    <3>. QED BY <2>4, <2>10, <2>12, <3>1, <3>2, <3>3, <3>4, <3>6, <3>7 DEF RecordIs
  <2>13. ASSUME NEW c \in Tables!Codes
         PROVE  IF Filled(c)' THEN RecordIs(c)' ELSE map'[c] = Indexed(c)'
    <3>1. CASE c = z
      BY <1>7, <1>11, <2>11, <3>1
    <3>2. CASE c # z
      BY <1>1, <1>6, <2>10, <2>12, <3>2, SameGrid
    <3>. QED BY <3>1, <3>2
  <2>14. MapInv'
    BY <1>1, <1>3, <2>10, <2>13 DEF MapInv
  <2>. QED BY <2>8, <2>14 DEF TablesInv
<1>. QED BY <1>10, <1>11

LEMMA FinishStep == TablesInv /\ Tables!Finish => TablesInv'
<1>. SUFFICES ASSUME TablesInv, Tables!Finish PROVE TablesInv'
  OBVIOUS
<1>1. /\ pass = "fill" /\ nextCode = MapSize /\ pass' = "done"
      /\ UNCHANGED <<grid, map, needed, neighbours, nextCode>>
  BY DEF Tables!Finish
<1>2. PassInv'
  BY <1>1, SameGrid DEF TablesInv, PassInv
<1>3. \A c : Filled(c)' <=> Filled(c)
  BY <1>1, SameGrid DEF Filled
<1>4. MapInv'
  BY <1>1, <1>3, SameGrid, SameRecords DEF TablesInv, MapInv, Tables!Codes
<1>. QED BY <1>2, <1>4 DEF TablesInv

(* TablesInv is inductive. *)
LEMMA TablesStep == TablesInv /\ [Tables!Next]_Tables!vars => TablesInv'
<1>. SUFFICES ASSUME TablesInv, [Tables!Next]_Tables!vars PROVE TablesInv'
  OBVIOUS
<1>1. CASE UNCHANGED Tables!vars
  <2>1. UNCHANGED <<grid, map, needed, neighbours, pass, nextCode>>
    BY <1>1 DEF Tables!vars
  <2>2. PassInv'
    BY <2>1, SameGrid DEF TablesInv, PassInv
  <2>3. \A c : Filled(c)' <=> Filled(c)
    BY <2>1, SameGrid DEF Filled
  <2>4. MapInv'
    BY <2>1, <2>3, SameGrid, SameRecords DEF TablesInv, MapInv, Tables!Codes
  <2>. QED BY <2>2, <2>4 DEF TablesInv
<1>2. CASE Tables!Next
  BY <1>2, IndexGridStep, CountStep, AllocateStep, FillStep, FinishStep DEF Tables!Next
<1>. QED BY <1>1, <1>2

(* The array of neighbours is filled up to its end and no further, in      *)
(* every lattice and for every grid. *)
LEMMA MemoryIsFilled == TablesInv => FillsWhatWasAllocated
<1>. SUFFICES ASSUME TablesInv PROVE FillsWhatWasAllocated
  OBVIOUS
<1>1. CASE pass = "fill"
  <2>1. Sizes[nextCode] <= Sizes[MapSize]
    BY SizesGrow DEF TablesInv, PassInv
  <2>. QED BY <1>1, <2>1
       DEF TablesInv, PassInv, FillsWhatWasAllocated, Tables!FillsWhatWasAllocated
<1>2. CASE pass # "fill"
  BY <1>2 DEF TablesInv, PassInv, FillsWhatWasAllocated, Tables!FillsWhatWasAllocated
<1>. QED BY <1>1, <1>2

(* The record of a code is what its lookup finds. *)
LEMMA CandidatesAreNearest ==
  ASSUME TablesInv, pass = "done", NEW code \in Tables!Codes, ~ OnGrid(code)
  PROVE  Tables!Candidates(code) = Tables!Nearest(code)
<1>1. /\ GridIsThere /\ neighbours \in Seq(Nat) /\ nextCode = MapSize
      /\ RecordIs(code)
  <2>1. Filled(code)
    BY CodesAreNumbers DEF Filled, TablesInv, PassInv
  <2>. QED BY <2>1 DEF TablesInv, PassInv, MapInv
<1>2. PICK r : r = Tables!Nearest(code) /\ r \in Seq(Nat)
  BY <1>1, NearestIsRecord
<1>3. PICK n \in Nat : n = Len(r)
  BY <1>2
<1>4. PICK k \in Nat : k = Len(neighbours) /\ DOMAIN neighbours = 1 .. k
  BY <1>1
<1>5. PICK b \in Nat : b = Tables!RecordAt(code)
  BY <1>1 DEF RecordIs
<1>6. /\ map[code] < 0 /\ b + 1 + n <= k /\ neighbours[b + 1] = n
      /\ \A m \in 1 .. n : neighbours[b + 1 + m] = r[m]
  BY <1>1, <1>2, <1>3, <1>4, <1>5 DEF RecordIs
<1>7. map[code] \in Int
  BY DEF TablesInv, MapInv
<1>8. PICK s : s = SubSeq(neighbours, b + 2, b + 1 + n)
  OBVIOUS
<1>9. Tables!Candidates(code) = s
  <2>1. ~ (map[code] >= 0)
    BY <1>6, <1>7
  <2>2. Tables!Candidates(code) =
          SubSeq(neighbours, Tables!RecordAt(code) + 2,
                 Tables!RecordAt(code) + 1 + neighbours[Tables!RecordAt(code) + 1])
    BY <2>1 DEF Tables!Candidates
  <2>3. Tables!Candidates(code) = SubSeq(neighbours, b + 2, b + 1 + neighbours[b + 1])
    BY <1>5, <2>2
  <2>. QED BY <1>6, <1>8, <2>3
<1>10. s \in Seq(Nat) /\ Len(s) = n /\ \A m \in 1 .. n : s[m] = neighbours[b + 1 + m]
  <2>1. \A i \in b + 2 .. b + 1 + n : neighbours[i] \in Nat
    <3>1. \A i \in b + 2 .. b + 1 + n : i \in 1 .. k
      BY <1>6
    <3>. QED BY <1>1, <1>4, <3>1
  <2>2. b + 2 \in Int /\ b + 1 + n \in Int
    OBVIOUS
  <2>3. s \in Seq(Nat)
    BY <1>8, <2>1, <2>2, SubSeqProperties
  <2>4. Len(s) = IF b + 2 <= b + 1 + n THEN (b + 1 + n) - (b + 2) + 1 ELSE 0
    BY <1>8, <2>1, <2>2, SubSeqProperties
  <2>5. \A i \in 1 .. (b + 1 + n) - (b + 2) + 1 : s[i] = neighbours[(b + 2) + i - 1]
    <3>1. PICK x \in Int, y \in Int : x = b + 2 /\ y = b + 1 + n
      BY <2>2
    <3>2. \A i \in 1 .. y - x + 1 : SubSeq(neighbours, x, y)[i] = neighbours[x + i - 1]
      BY <2>1, <3>1, SubSeqProperties
    <3>. QED BY <1>8, <3>1, <3>2
  <2>6. (b + 1 + n) - (b + 2) + 1 = n /\ \A i \in 1 .. n : (b + 2) + i - 1 = b + 1 + i
    OBVIOUS
  <2>7. Len(s) = n
    BY <2>4
  <2>8. \A m \in 1 .. n : s[m] = neighbours[(b + 2) + m - 1]
    BY <2>5, <2>6
  <2>. QED BY <2>3, <2>6, <2>7, <2>8
<1>11. s = r
  BY <1>2, <1>3, <1>6, <1>10, SeqEqual
<1>. QED BY <1>2, <1>9, <1>11

(* Of a finished table, a code of the grid is found as itself, and any     *)
(* other with the grid points at its NWant smallest distances. *)
LEMMA NearestAreFound == TablesInv => LookupIsNearest
<1>1. ASSUME TablesInv, pass = "done", NEW code \in Tables!Codes,
             \E j \in Tables!GridNumbers : Tables!Point(j) = code
      PROVE  \A j \in Tables!ToSet(Tables!Candidates(code)) : Tables!Point(j) = code
  <2>1. OnGrid(code)
    BY <1>1 DEF OnGrid
  <2>2. GridIsThere /\ map[code] = Indexed(code)
    BY <1>1, <2>1 DEF TablesInv, PassInv, MapInv, Filled
  <2>3. map[code] >= 0 /\ Tables!Point(map[code]) = code
    BY <2>1, <2>2, IndexedFacts
  <2>4. Tables!Candidates(code) = <<map[code]>>
    BY <2>3 DEF Tables!Candidates
  <2>5. Tables!ToSet(<<map[code]>>) = {map[code]}
    BY DEF Tables!ToSet
  <2>. QED BY <2>3, <2>4, <2>5
<1>2. ASSUME TablesInv, pass = "done", NEW code \in Tables!Codes,
             ~ \E j \in Tables!GridNumbers : Tables!Point(j) = code
      PROVE  AreNearest(Tables!Candidates(code), code)
  <2>1. ~ OnGrid(code)
    BY <1>2 DEF OnGrid
  <2>2. GridIsThere
    BY <1>2 DEF TablesInv, PassInv
  <2>. QED BY <1>2, <2>1, <2>2, CandidatesAreNearest, NearestIsNearest
<1>. SUFFICES ASSUME TablesInv PROVE Tables!LookupIsNearest
  BY DEF LookupIsNearest
<1>. QED BY <1>1, <1>2 DEF Tables!LookupIsNearest, AreNearest

-----------------------------------------------------------------------------
(* A behaviour that is not about a table leaves it idle. *)

TablesOrIdle == TablesInv \/ TablesIdle

LEMMA TablesHold == KernelsSpec => []TablesOrIdle
<1>1. KernelsInit => TablesOrIdle
  BY TablesInit DEF KernelsInit, TablesOrIdle
<1>2. TablesOrIdle /\ [KernelsNext]_<<tableVars, blockVars, ternaryVars>> => TablesOrIdle'
  <2> SUFFICES ASSUME TablesOrIdle, [KernelsNext]_<<tableVars, blockVars, ternaryVars>>
               PROVE  TablesOrIdle'
    OBVIOUS
  <2>1. Tables!Next \/ UNCHANGED tableVars
    BY DEF KernelsNext
  <2>2. UNCHANGED tableVars => UNCHANGED Tables!vars
    BY DEF Tables!vars, tableVars
  <2>3. ASSUME TablesIdle, UNCHANGED tableVars PROVE TablesIdle'
    BY <2>3 DEF TablesIdle, tableVars
  <2>4. TablesIdle => ~ Tables!Next
    BY DEF TablesIdle, Tables!Next, Tables!IndexGrid, Tables!Count, Tables!Allocate,
           Tables!Fill, Tables!Finish
  <2> QED
    BY <2>1, <2>2, <2>3, <2>4, TablesStep DEF TablesOrIdle
<1> QED
  BY <1>1, <1>2, PTL DEF KernelsSpec

(* iq2xs_init_impl and iq3xs_init_impl fill the array of neighbours up to  *)
(* its end and no further, in every lattice and for every grid.            *)
THEOREM TablesFillTheirMemory == KernelsSpec => []FillsWhatWasAllocated
<1>1. TablesIdle => FillsWhatWasAllocated
  BY DEF TablesIdle, FillsWhatWasAllocated, Tables!FillsWhatWasAllocated
<1>2. TablesOrIdle => FillsWhatWasAllocated
  BY <1>1, MemoryIsFilled DEF TablesOrIdle
<1> QED
  BY <1>2, TablesHold, PTL

(* Of a finished table, a code of the grid is found as itself, and any     *)
(* other with the grid points at its NWant smallest distances.             *)
THEOREM TablesFindTheNearest == KernelsSpec => []LookupIsNearest
<1>1. TablesIdle => LookupIsNearest
  BY DEF TablesIdle, LookupIsNearest, Tables!LookupIsNearest
<1>2. TablesOrIdle => LookupIsNearest
  BY <1>1, NearestAreFound DEF TablesOrIdle
<1> QED
  BY <1>2, TablesHold, PTL

=============================================================================
