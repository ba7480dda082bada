---------------------------- MODULE IqNeighbours ----------------------------
(***************************************************************************)
(* How the tables of one IQ type are computed: iq2xs_init_impl and         *)
(* iq3xs_init_impl of quantize/iq_tables.cpp, which differ only in the     *)
(* length of a point and in the number of its levels.                      *)
(*                                                                         *)
(* A code is a point of the lattice.  The map gives the number of a code   *)
(* that is a grid point, and for any other code -(k + 1), where k is the   *)
(* index in the array of neighbours at which its record begins: a count    *)
(* followed by that many grid points, the nearest first.  A first pass     *)
(* over the codes sizes the array, a second one fills it.                  *)
(***************************************************************************)
EXTENDS Integers, Sequences, FiniteSetsExt, SequencesExt

CONSTANTS
  Dim,      (* coordinates of a point: 8 or 4 in the code                 *)
  Levels,   (* values that fit the bits of a coordinate: 4 or 8           *)
  MapSize,  (* kmap_size, no more than there are points                   *)
  NWant,    (* how many different distances are kept: 1, 2 or 3           *)
  MaxGrid   (* most points of a grid; bounds the instance                 *)

(* Codes are numbered as the code packs them, coordinate 0 lowest: what    *)
(* the level of coordinate k is worth.                                     *)
Weight ==
  LET upTo[k \in 0 .. Dim] == IF k = 0 THEN 1 ELSE upTo[k - 1] * Levels
  IN  upTo

NeighbourConstants ==
  /\ Dim \in Nat \ {0}
  /\ Levels \in Nat \ {0}
  /\ MapSize \in 1 .. Weight[Dim]
  /\ NWant \in Nat \ {0}
  /\ MaxGrid \in Nat \ {0}

Codes == 0 .. MapSize - 1

Level(code, k) == (code \div Weight[k]) % Levels

(* The stored coordinates are odd: pos[k] = 2 * l + 1. *)
Pos(code, k) == 2 * Level(code, k) + 1

(* d2 *)
Distance(a, b) ==
  LET upTo[k \in 0 .. Dim] ==
        IF k = 0 THEN 0
        ELSE upTo[k - 1] + (Pos(a, k - 1) - Pos(b, k - 1)) * (Pos(a, k - 1) - Pos(b, k - 1))
  IN  upTo[Dim]

VARIABLES
  grid,        (* the points of the grid, numbered from 0 in the code     *)
  map,         (* kmap                                                    *)
  needed,      (* num_neighbors + num_not_in_map                          *)
  neighbours,  (* kneighbors, as far as it is filled                      *)
  pass,        (* which loop over the codes is running                    *)
  next         (* its i                                                   *)

vars == <<grid, map, needed, neighbours, pass, next>>

Point(j) == grid[j + 1]

GridSize == Len(grid)

GridNumbers == 0 .. GridSize - 1

(* The order of iq2_compare_func: by distance, then by number. *)
Before(code, i, j) ==
  LET di == Distance(Point(i), code)
      dj == Distance(Point(j), code)
  IN  di < dj \/ (di = dj /\ i < j)

(* dist2 after qsort *)
Sorted(code) ==
  [m \in 1 .. GridSize |->
     CHOOSE j \in GridNumbers :
       Cardinality({i \in GridNumbers : Before(code, i, j)}) = m - 1]

(* Mutant: one distance too few is kept. *)
InShellsBelow(code, sorted, n) ==
  Cardinality({Distance(Point(sorted[m]), code) : m \in 1 .. n}) < NWant

(* The nearest n points lie at no more than NWant different distances. *)
InShells(code, sorted, n) ==
  Cardinality({Distance(Point(sorted[m]), code) : m \in 1 .. n}) <= NWant

(* The loop that counts nhave: it stops where a further distance begins. *)
Nearest(code) ==
  LET sorted == Sorted(code)
      n == Max({m \in 0 .. GridSize : InShells(code, sorted, m)})
  IN  SubSeq(sorted, 1, n)

Init ==
  /\ grid \in UNION {[1 .. n -> Codes] : n \in 1 .. MaxGrid}
  /\ \A m, n \in DOMAIN grid : m < n => grid[m] < grid[n]   \* kgrid is ascending
  /\ map = [c \in Codes |-> -1]
  /\ needed = 0
  /\ neighbours = <<>>
  /\ pass = "index"
  /\ next = 0

(* The grid points get their numbers. *)
IndexGrid ==
  /\ pass = "index"
  /\ map' = [c \in Codes |->
               IF \E j \in GridNumbers : Point(j) = c
                 THEN CHOOSE j \in GridNumbers : Point(j) = c ELSE -1]
  /\ pass' = "count"
  /\ UNCHANGED <<grid, needed, neighbours, next>>

(* Mutant: the count at the head of each record is forgotten. *)
RecordSizeBare(code) == Len(Nearest(code))

RecordSize(code) == 1 + Len(Nearest(code))

Count ==
  /\ pass = "count"
  /\ next < MapSize
  /\ needed' = IF map[next] >= 0 THEN needed ELSE needed + RecordSize(next)
  /\ next' = next + 1
  /\ UNCHANGED <<grid, map, neighbours, pass>>

Allocate ==
  /\ pass = "count"
  /\ next = MapSize
  /\ pass' = "fill"
  /\ next' = 0
  /\ UNCHANGED <<grid, map, needed, neighbours>>

Offset(counter) == -(counter + 1)

Fill ==
  /\ pass = "fill"
  /\ next < MapSize
  /\ IF map[next] >= 0
       THEN UNCHANGED <<map, neighbours>>
       ELSE /\ map' = [map EXCEPT ![next] = Offset(Len(neighbours))]
            /\ neighbours' = neighbours \o <<Len(Nearest(next))>> \o Nearest(next)
  /\ next' = next + 1
  /\ UNCHANGED <<grid, needed, pass>>

Finish ==
  /\ pass = "fill"
  /\ next = MapSize
  /\ pass' = "done"
  /\ UNCHANGED <<grid, map, needed, neighbours, next>>

Next == IndexGrid \/ Count \/ Allocate \/ Fill \/ Finish

Spec == Init /\ [][Next]_vars

-----------------------------------------------------------------------------
(* A kernel's lookup: neighbours = kneighbors - kmap[u] - 1, then a count   *)
(* and the candidates iq2_find_best_neighbour walks through.               *)
RecordAt(code) == 0 - map[code] - 1

Candidates(code) ==
  IF map[code] >= 0 THEN <<map[code]>>
  ELSE SubSeq(neighbours, RecordAt(code) + 2,
              RecordAt(code) + 1 + neighbours[RecordAt(code) + 1])

(* The second pass writes no more than the first one allocated, and in the *)
(* end exactly that.                                                       *)
FillsWhatWasAllocated ==
  /\ pass = "fill" => Len(neighbours) <= needed
  /\ pass = "done" => Len(neighbours) = needed

(* A code on the grid is found as itself, and the candidates of any other  *)
(* are the grid points at its NWant smallest distances: every one of them, *)
(* each once, and none that is farther than a point left out.              *)
LookupIsNearest ==
  pass = "done" =>
    \A code \in Codes :
      LET found == ToSet(Candidates(code))
          all   == GridNumbers
          dist(j) == Distance(Point(j), code)
      IN  IF \E j \in all : Point(j) = code
            THEN \A j \in found : Point(j) = code
            ELSE /\ found # {} /\ found \subseteq all
                 /\ Len(Candidates(code)) = Cardinality(found)
                 /\ \A j \in found, k \in all \ found : dist(j) < dist(k)
                 /\ Cardinality({dist(j) : j \in found}) =
                      Min({NWant, Cardinality({dist(j) : j \in all})})

=============================================================================
