------------------------------ MODULE IqTables ------------------------------
(***************************************************************************)
(* The lookup tables of the IQ quantizers (quantize/iq_tables.cpp): built  *)
(* by the first call of libgguf_quantize_chunk that needs them, kept in    *)
(* the globals iq2_data and iq3_data without any lock, read by the         *)
(* kernels through those globals, and freed by libgguf_quantize_free.      *)
(*                                                                         *)
(* Callers are threads of the host program: the Python binding releases    *)
(* the GIL around each call, so calls may overlap unless the host keeps    *)
(* them apart.  A caller reaches a kernel through libgguf_quantize_chunk,  *)
(* which builds the tables, or through the fused F16/BF16 path of the      *)
(* safetensors payload writer, which does not.                             *)
(*                                                                         *)
(* Each array is written through the local pointer of the caller that      *)
(* allocated it, so an array is named after its allocator and what the     *)
(* globals hold are those names.  Stores happen in program order.          *)
(***************************************************************************)
EXTENDS Integers, Sequences

CONSTANTS
  Callers,        (* threads that call the library                        *)
  Types,          (* the ggml types they quantize to                      *)
  ColdFused,      (* whether the payload writer may be the first to need  *)
                  (* a table                                              *)
  Uncoordinated,  (* whether the host lets calls and frees overlap freely *)
  MaxArrays       (* no call starts after so many arrays were allocated;  *)
                  (* bounds the instance                                  *)

Iq2Types == {"IQ2_XXS", "IQ2_XS", "IQ2_S", "IQ1_S", "IQ1_M"}
Iq3Types == {"IQ3_XXS", "IQ3_S"}
IqTypes == Iq2Types \union Iq3Types

ASSUME IqAssumption ==
  /\ ColdFused \in BOOLEAN
  /\ Uncoordinated \in BOOLEAN
  /\ MaxArrays \in Nat

(* Mutant: one slot for all types of one or two bits. *)
SlotOfFamily(t) == IF t \in Iq2Types THEN <<"iq2", 0>> ELSE <<"iq3", 0>>

(* iq2_data_index and iq3_data_index *)
SlotOf(t) ==
  CASE t = "IQ2_XXS"            -> <<"iq2", 0>>
    [] t = "IQ2_XS"             -> <<"iq2", 1>>
    [] t \in {"IQ1_S", "IQ1_M"} -> <<"iq2", 2>>
    [] t = "IQ2_S"              -> <<"iq2", 3>>
    [] t = "IQ3_XXS"            -> <<"iq3", 0>>
    [] OTHER                    -> <<"iq3", 1>>

Slots == {SlotOf(t) : t \in IqTypes}

(* What the tables of a type are made from: the number of its grid points  *)
(* and how many distances of neighbours are kept.                          *)
Recipe(t) ==
  CASE t = "IQ2_XXS"            -> [points |-> 256, nwant |-> 2]
    [] t = "IQ2_XS"             -> [points |-> 512, nwant |-> 2]
    [] t \in {"IQ1_S", "IQ1_M"} -> [points |-> 2048, nwant |-> 3]
    [] t = "IQ2_S"              -> [points |-> 1024, nwant |-> 1]
    [] t = "IQ3_XXS"            -> [points |-> 256, nwant |-> 2]
    [] OTHER                    -> [points |-> 512, nwant |-> 3]

Null == 0

VARIABLES
  slot,     (* iq2_data, iq3_data: which array each pointer refers to      *)
  array,    (* the arrays allocated so far: what they hold, whether freed  *)
  call,     (* what each caller is doing                                   *)
  own,      (* a builder's local pointers: grid, map and neighbours        *)
  read,     (* the pointers a kernel has loaded for its row                *)
  toFree    (* the slots a call of libgguf_quantize_free has still to free *)

vars == <<slot, array, call, own, read, toFree>>

Pointers == {"grid", "map", "neighbours"}
NoPointers == [p \in Pointers |-> Null]
Idle == [step |-> "idle", type |-> "none"]

Init ==
  /\ slot = [s \in Slots |-> NoPointers]
  /\ array = <<>>
  /\ call = [c \in Callers |-> Idle]
  /\ own = [c \in Callers |-> NoPointers]
  /\ read = [c \in Callers |-> NoPointers]
  /\ toFree = <<>>

At(c, step) == call[c].step = step

Goto(c, step) == call' = [call EXCEPT ![c].step = step]

MySlot(c) == SlotOf(call[c].type)

Quiet == toFree = <<>> /\ \A c \in Callers : At(c, "idle")

Finished(s) ==
  slot[s].neighbours # Null /\ array[slot[s].neighbours].state = "complete"

(* A host that coordinates its threads makes the first call for a table    *)
(* while no other is running, as the converter does, and frees the tables  *)
(* only between calls.  Calls that need no unfinished table may overlap.   *)
Ready(t) == t \in IqTypes => Finished(SlotOf(t))

MayCall(t) == Uncoordinated \/ Quiet \/ (toFree = <<>> /\ Ready(t))

-----------------------------------------------------------------------------
Enter(c, t, first) ==
  /\ At(c, "idle")
  /\ MayCall(t)
  /\ Len(array) <= MaxArrays
  /\ call' = [call EXCEPT ![c] =
                [step |-> IF t \in IqTypes THEN first ELSE "plain", type |-> t]]
  /\ UNCHANGED <<slot, array, own, read, toFree>>

(* libgguf_quantize_chunk: iq_tables_init comes first. *)
QuantizeChunk(c, t) == Enter(c, t, "test")

(* quantize_decoded_source_chunk_native calls the kernel as it is. *)
FusedChunk(c, t) == (ColdFused \/ Ready(t)) /\ Enter(c, t, "kernel")

(* A type without tables: encode and return. *)
PlainReturn(c) ==
  /\ At(c, "plain")
  /\ call' = [call EXCEPT ![c] = Idle]
  /\ UNCHANGED <<slot, array, own, read, toFree>>

(* Mutant: an unfinished slot is built by whoever meets it. *)
MustBuildAlways(c) == TRUE

(* iq2xs_init_impl and iq3xs_init_impl return early for a slot with a grid. *)
MustBuild(c) == slot[MySlot(c)].grid = Null

TestGrid(c) ==
  /\ At(c, "test")
  /\ Goto(c, IF MustBuild(c) THEN "grid" ELSE "kernel")
  /\ UNCHANGED <<slot, array, own, read, toFree>>

WithPointer(entry, p, id) == [entry EXCEPT ![p] = id]

(* A new array is published in the slot as soon as it is allocated. *)
Allocate(c, p, state) ==
  LET id == Len(array) + 1
  IN  /\ array' = Append(array, [holds |-> p, state |-> state, freed |-> FALSE,
                                 recipe |-> Recipe(call[c].type)])
      /\ slot' = [slot EXCEPT ![MySlot(c)] = WithPointer(@, p, id)]
      /\ own' = [own EXCEPT ![c][p] = id]

(* The grid is filled before it is published. *)
BuildGrid(c) ==
  /\ At(c, "grid")
  /\ Allocate(c, "grid", "complete")
  /\ Goto(c, "map")
  /\ UNCHANGED <<read, toFree>>

AllocateMap(c) ==
  /\ At(c, "map")
  /\ Allocate(c, "map", "raw")
  /\ Goto(c, "index")
  /\ UNCHANGED <<read, toFree>>

(* Every code is -1 or the number of its grid point. *)
IndexMap(c) ==
  /\ At(c, "index")
  /\ array' = [array EXCEPT ![own[c].map].state = "indexed"]
  /\ Goto(c, "neighbours")
  /\ UNCHANGED <<slot, own, read, toFree>>

AllocateNeighbours(c) ==
  /\ At(c, "neighbours")
  /\ Allocate(c, "neighbours", "raw")
  /\ Goto(c, "fill")
  /\ UNCHANGED <<read, toFree>>

(* The codes off the grid get the offsets of their neighbour lists. *)
FillNeighbours(c) ==
  /\ At(c, "fill")
  /\ array' = [array EXCEPT ![own[c].map].state = "complete",
                            ![own[c].neighbours].state = "complete"]
  /\ Goto(c, "kernel")
  /\ UNCHANGED <<slot, own, read, toFree>>

(* A kernel loads the three pointers at the start of each row. *)
LoadPointers(c) ==
  /\ At(c, "kernel")
  /\ read' = [read EXCEPT ![c] = slot[MySlot(c)]]
  /\ Goto(c, "encode")
  /\ UNCHANGED <<slot, array, own, toFree>>

(* A row is encoded; the next row, perhaps on another thread of the call,  *)
(* loads the pointers again.                                               *)
NextRow(c) ==
  /\ At(c, "encode")
  /\ Goto(c, "kernel")
  /\ UNCHANGED <<slot, array, own, read, toFree>>

Return(c) ==
  /\ At(c, "encode")
  /\ call' = [call EXCEPT ![c] = Idle]
  /\ read' = [read EXCEPT ![c] = NoPointers]
  /\ own' = [own EXCEPT ![c] = NoPointers]
  /\ UNCHANGED <<slot, array, toFree>>

(* libgguf_quantize_free goes through the types in this order. *)
FreeOrder ==
  <<SlotOf("IQ2_XXS"), SlotOf("IQ2_XS"), SlotOf("IQ2_S"), SlotOf("IQ1_S"),
    SlotOf("IQ1_M"), SlotOf("IQ3_XXS"), SlotOf("IQ3_S")>>

BeginFree ==
  /\ toFree = <<>>
  /\ Uncoordinated \/ Quiet
  /\ toFree' = FreeOrder
  /\ UNCHANGED <<slot, array, call, own, read>>

PointersAfterFree(s) == IF slot[s].grid = Null THEN slot[s] ELSE NoPointers

FreedWith(s) ==
  IF slot[s].grid = Null THEN {} ELSE {slot[s][p] : p \in Pointers}

(* iq2xs_free_impl and iq3xs_free_impl do nothing without a grid. *)
FreeSlot ==
  /\ toFree # <<>>
  /\ array' = [i \in DOMAIN array |->
                 [array[i] EXCEPT !.freed = @ \/ i \in FreedWith(Head(toFree))]]
  /\ slot' = [slot EXCEPT ![Head(toFree)] = PointersAfterFree(Head(toFree))]
  /\ toFree' = Tail(toFree)
  /\ UNCHANGED <<call, own, read>>

-----------------------------------------------------------------------------
CallerStep(c) ==
  \/ PlainReturn(c)
  \/ TestGrid(c)
  \/ BuildGrid(c)
  \/ AllocateMap(c)
  \/ IndexMap(c)
  \/ AllocateNeighbours(c)
  \/ FillNeighbours(c)
  \/ LoadPointers(c)
  \/ NextRow(c)
  \/ Return(c)

Next ==
  \/ \E c \in Callers, t \in Types : QuantizeChunk(c, t) \/ FusedChunk(c, t)
  \/ \E c \in Callers : CallerStep(c)
  \/ BeginFree
  \/ FreeSlot

Spec == Init /\ [][Next]_vars

-----------------------------------------------------------------------------
(* What a pointer may refer to. *)
ArraysOf(p) == {i \in 1 .. Len(array) : array[i].holds = p}

PointerTypes ==
  {f \in [Pointers -> 0 .. Len(array)] :
     \A p \in Pointers : f[p] \in {Null} \union ArraysOf(p)}

Steps ==
  {"idle", "plain", "test", "grid", "map", "index", "neighbours", "fill",
   "kernel", "encode"}

(* The types of the globals and of the callers' locals. *)
TypeOK ==
  /\ slot \in [Slots -> PointerTypes]
  /\ array \in Seq([holds : Pointers, state : {"raw", "indexed", "complete"},
                    freed : BOOLEAN, recipe : {Recipe(t) : t \in IqTypes}])
  /\ call \in [Callers -> [step : Steps, type : Types \union {"none"}]]
  /\ own \in [Callers -> PointerTypes]
  /\ read \in [Callers -> PointerTypes]
  /\ toFree \in Seq(Slots)

(* The assertions at the head of the kernels, "IQ tables are not           *)
(* initialized": none of the three pointers is null.                       *)
TablesInitialized ==
  \A c \in Callers : At(c, "encode") => \A p \in Pointers : read[c][p] # Null

Usable(i, t) ==
  i # Null /\ array[i].state = "complete" /\ ~ array[i].freed
           /\ array[i].recipe = Recipe(t)

(* Whatever a kernel reads while it encodes is finished, is not freed, and *)
(* was built for its own type although two types share a slot.             *)
ReadsFinishedTables ==
  \A c \in Callers : At(c, "encode") =>
    \A p \in Pointers : Usable(read[c][p], call[c].type)

(* Every array that has not been freed can still be reached, and so will   *)
(* be freed at exit.                                                       *)
NothingLeaks ==
  \A i \in 1 .. Len(array) : ~ array[i].freed =>
    \E s \in Slots, p \in Pointers : slot[s][p] = i

=============================================================================
