------------------------- MODULE RowPartition_proofs -------------------------
(***************************************************************************)
(* The arithmetic facts the row split relies on, for every number of rows  *)
(* and of threads; and induction and recursion on numbers, for the proofs  *)
(* about definitions that are recursive.                                   *)
(***************************************************************************)
EXTENDS RowPartition, FiniteSetTheorems, TLAPS

(* The quotient lies between the two multiples that enclose the dividend. *)
LEMMA DivBounds ==
  ASSUME NEW n \in Nat, NEW a \in Nat \ {0}
  PROVE  /\ n \div a \in Nat
         /\ a * (n \div a) <= n
         /\ n < a * (n \div a) + a
BY Z3

(* A larger factor gives a larger product. *)
LEMMA TimesMonotone ==
  ASSUME NEW i \in Nat, NEW j \in Nat, NEW q \in Nat, i < j
  PROVE  i * q + q <= j * q
<1> DEFINE d == j - i - 1
<1>1. d \in Nat /\ j = i + 1 + d
  OBVIOUS
<1>2. d * q \in Nat
  BY <1>1
<1>3. j * q = i * q + q + d * q
  BY <1>1
<1> QED
  BY <1>2, <1>3

(* Rounding up: enough rows per thread for all of them, never more than    *)
(* there are, and at least one when there is one.                          *)
LEMMA RowsPerThreadBounds ==
  ASSUME NEW rows \in Nat, NEW active \in Nat \ {0}
  PROVE  /\ RowsPerThread(rows, active) \in Nat
         /\ rows <= active * RowsPerThread(rows, active)
         /\ RowsPerThread(rows, active) <= rows
         /\ rows > 0 => RowsPerThread(rows, active) > 0
<1> DEFINE n == rows + active - 1
           q == n \div active
<1>1. n \in Nat
  OBVIOUS
<1>2. /\ q \in Nat
      /\ active * q <= n
      /\ n < active * q + active
  BY <1>1, DivBounds
<1>3. active * q \in Nat
  BY <1>2
<1>4. rows <= active * q
  BY <1>2, <1>3
<1>5. rows > 0 => q > 0
  <2>1. q = 0 => active * q = 0
    OBVIOUS
  <2> QED
    BY <2>1, <1>2, <1>4
<1>6. q <= rows
  <2> SUFFICES ASSUME q > rows PROVE FALSE
    BY <1>2
  <2>1. rows * active + active <= q * active
    BY <1>2, TimesMonotone
  <2>2. rows <= rows * active
    <3>1. CASE active = 1
      BY <3>1
    <3>2. CASE active > 1
      <4>1. 1 * rows + rows <= active * rows
        BY <3>2, TimesMonotone
      <4> QED
        BY <4>1
    <3> QED
      BY <3>1, <3>2
  <2>3. q * active = active * q /\ rows * active \in Nat
    BY <1>2
  <2> QED
    BY <2>1, <2>2, <2>3, <1>2, <1>3
<1> QED
  BY <1>2, <1>4, <1>5, <1>6 DEF RowsPerThread

(* The types of the bounds of a range. *)
LEMMA RangeBounds ==
  ASSUME NEW rows \in Nat, NEW active \in Nat \ {0}, NEW id \in Nat
  PROVE  /\ RowBegin(id, rows, active) \in Nat
         /\ RowEnd(id, rows, active) \in Nat
         /\ RowEnd(id, rows, active) <= rows
         /\ RowEnd(id, rows, active) - RowBegin(id, rows, active)
              <= RowsPerThread(rows, active)
<1>1. PICK q \in Nat : q = RowsPerThread(rows, active)
  BY RowsPerThreadBounds
<1>2. PICK b \in Nat : b = id * q
  OBVIOUS
<1>3. /\ RowBegin(id, rows, active) = b
      /\ RowEnd(id, rows, active) = IF rows <= b + q THEN rows ELSE b + q
  BY <1>1, <1>2 DEF RowBegin, RowEnd, MinOf
<1> QED
  BY <1>1, <1>3

(* A range never leaves the block. *)
LEMMA RangeInBlock ==
  ASSUME NEW rows \in Nat, NEW active \in Nat \ {0}, NEW id \in Nat,
         NEW limit \in Nat, rows <= limit
  PROVE  RowsOf(id, rows, active) \subseteq 0 .. limit - 1
<1>1. /\ RowBegin(id, rows, active) \in Nat
      /\ RowEnd(id, rows, active) \in Nat
      /\ RowEnd(id, rows, active) <= rows
  BY RangeBounds
<1> QED
  BY <1>1 DEF RowsOf

(* No row belongs to two threads, and none lies outside the block.         *)
THEOREM RangesAreDisjoint ==
  ASSUME NEW rows \in Nat, NEW active \in Nat \ {0},
         NEW i \in Nat, NEW j \in Nat, i # j,
         NEW r \in RowsOf(i, rows, active)
  PROVE  r \in 0 .. rows - 1 /\ r \notin RowsOf(j, rows, active)
<1> DEFINE q == RowsPerThread(rows, active)
<1>1. q \in Nat
  BY RowsPerThreadBounds
<1>2. i < j => i * q + q <= j * q
  BY <1>1, TimesMonotone
<1>3. j < i => j * q + q <= i * q
  BY <1>1, TimesMonotone
<1>4. i * q \in Nat /\ j * q \in Nat
  BY <1>1
<1> QED
  BY <1>1, <1>2, <1>3, <1>4 DEF RowsOf, RowBegin, RowEnd, MinOf

(* Every row of the block belongs to one of the active threads.            *)
THEOREM RangesCoverTheBlock ==
  ASSUME NEW rows \in Nat, NEW active \in Nat \ {0}, NEW r \in 0 .. rows - 1
  PROVE  \E id \in 0 .. active - 1 : r \in RowsOf(id, rows, active)
<1> DEFINE q  == RowsPerThread(rows, active)
           id == r \div q
<1>1. q \in Nat \ {0} /\ rows <= active * q
  BY RowsPerThreadBounds
<1>2. /\ id \in Nat
      /\ q * id <= r
      /\ r < q * id + q
  BY <1>1, DivBounds
<1>3. id < active
  <2> SUFFICES ASSUME id >= active PROVE FALSE
    BY <1>2
  <2>1. active * q <= id * q
    <3>1. CASE id = active
      BY <3>1, <1>1
    <3>2. CASE active < id
      <4>1. active * q + q <= id * q
        BY <3>2, <1>1, <1>2, TimesMonotone
      <4>2. active * q \in Nat
        BY <1>1
      <4> QED
        BY <4>1, <4>2, <1>1
    <3> QED
      BY <3>1, <3>2, <1>2
  <2>2. id * q = q * id /\ id * q \in Nat /\ active * q \in Nat
    BY <1>1, <1>2
  <2> QED
    BY <2>1, <2>2, <1>1, <1>2
<1>4. id * q = q * id /\ q * id \in Nat
  BY <1>1, <1>2
<1>5. r \in RowsOf(id, rows, active)
  BY <1>1, <1>2, <1>4 DEF RowsOf, RowBegin, RowEnd, MinOf
<1> QED
  BY <1>2, <1>3, <1>5

(* The number of threads used: at least one, no more than the pool has,    *)
(* and never one that is left without a row to start from.                 *)
LEMMA ActiveThreadBounds ==
  ASSUME NEW rows \in Nat \ {0}, NEW maxThreads \in Nat \ {0},
         NEW parallelRows \in Nat
  PROVE  LET active == ActiveThreadCount(rows, maxThreads, parallelRows)
         IN  /\ active \in 1 .. maxThreads
             /\ active <= rows
             /\ active > 1 => maxThreads > 1
BY DEF ActiveThreadCount, MinOf

-----------------------------------------------------------------------------
(* Induction and recursion on numbers, which other proofs use. *)

(* Induction up to n.  The library's theorems of induction are about       *)
(* operators; this one is about a set and follows from the pigeonhole      *)
(* principle: were n not in T, moving the members of T by one would be     *)
(* injective on 0 .. n, and reach every number but 0.                      *)
LEMMA InductionUpTo ==
  ASSUME NEW n \in Nat, NEW T, 0 \in T, \A i \in 0 .. n - 1 : i \in T => i + 1 \in T
  PROVE  n \in T
<1>. SUFFICES ASSUME n \notin T PROVE FALSE
  OBVIOUS
<1>. DEFINE S == 0 .. n
            f == [i \in S |-> IF i \in T THEN i + 1 ELSE i]
<1>1. \A i \in S : i \in T => i \in 0 .. n - 1
  OBVIOUS
<1>2. \A i \in S : f[i] \in S
  BY <1>1
<1>3. \A i, j \in S : f[i] = f[j] => i = j
  <2>. SUFFICES ASSUME NEW i \in S, NEW j \in S, i < j, f[i] = f[j] PROVE FALSE
    OBVIOUS
  <2>1. i \in T /\ j \notin T /\ j = i + 1
    OBVIOUS
  <2>. QED BY <1>1, <2>1
<1>4. f \in Injection(S, S)
  <2>1. f \in [S -> S]
    BY <1>2
  <2>. QED BY <1>3, <2>1 DEF Injection, IsInjective
<1>5. IsFiniteSet(S)
  BY FS_Interval
<1>6. f \in Surjection(S, S)
  <2>. HIDE DEF f, S
  <2>. QED BY <1>4, <1>5, FS_Injection
<1>7. PICK i \in S : f[i] = 0
  <2>1. 0 \in S
    OBVIOUS
  <2>. HIDE DEF f, S
  <2>. QED BY <1>6, <2>1 DEF Surjection
<1>. QED BY <1>7

(* A function of the numbers up to n that begins with a and takes a step   *)
(* from one number to the next. *)
Steps(g, n, S, a, step) ==
  /\ g \in [0 .. n -> S]
  /\ g[0] = a
  /\ \A i \in 1 .. n : g[i] = step[<<g[i - 1], i>>]

(* A function defined by recursion on numbers exists when its step stays   *)
(* in a set.                                                               *)
LEMMA RecursionUpTo ==
  ASSUME NEW n \in Nat, NEW S, NEW a \in S, NEW step \in [S \X (1 .. n) -> S]
  PROVE  \E g : Steps(g, n, S, a, step)
<1>. DEFINE Upto(k, g) == Steps(g, k, S, a, step)
            T == {k \in 0 .. n : \E g : Upto(k, g)}
<1>1. 0 \in T
  <2>1. Upto(0, [i \in 0 .. 0 |-> a])
    BY DEF Steps
  <2>. HIDE DEF Upto
  <2>. QED BY <2>1
<1>2. ASSUME NEW k \in 0 .. n - 1, k \in T PROVE k + 1 \in T
  <2>1. PICK g : Upto(k, g)
    BY <1>2
  <2>. DEFINE b == step[<<g[k], k + 1>>]
              e == [i \in 0 .. k + 1 |-> IF i = k + 1 THEN b ELSE g[i]]
  <2>2. k \in 0 .. k /\ k + 1 \in 1 .. n /\ k + 1 \in 0 .. n /\ (k + 1) - 1 = k
    OBVIOUS
  <2>3. b \in S
    BY <2>1, <2>2 DEF Steps
  <2>4. \A i \in 0 .. k + 1 : i # k + 1 => i \in 0 .. k
    OBVIOUS
  <2>5. \A i \in 0 .. k : i # k + 1 /\ i \in 0 .. k + 1
    OBVIOUS
  <2>6. \A i \in 1 .. k + 1 : i # k + 1 => i \in 1 .. k /\ i - 1 \in 0 .. k /\ i \in 0 .. k
    OBVIOUS
  <2>. HIDE DEF b
  <2>7. e \in [0 .. k + 1 -> S] /\ e[k + 1] = b /\ \A i \in 0 .. k : e[i] = g[i]
    BY <2>1, <2>2, <2>3, <2>4, <2>5 DEF Steps
  <2>. HIDE DEF e
  <2>8. ASSUME NEW i \in 1 .. k + 1 PROVE e[i] = step[<<e[i - 1], i>>]
    <3>1. CASE i = k + 1
      BY <2>2, <2>7, <3>1 DEF b
    <3>2. CASE i # k + 1
      BY <2>1, <2>6, <2>7, <3>2 DEF Steps
    <3>. QED BY <3>1, <3>2
  <2>9. e[0] = a
    BY <2>1, <2>7 DEF Steps
  <2>10. Upto(k + 1, e)
    BY <2>7, <2>8, <2>9 DEF Steps
  <2>. HIDE DEF Upto
  <2>. QED BY <2>2, <2>10
<1>3. n \in T
  <2>. HIDE DEF T
  <2>. QED BY <1>1, <1>2, InductionUpTo
<1>. QED BY <1>3

(* Two functions on numbers that begin alike, and step alike, are alike.   *)
StepAlike(g, h, n) ==
  g[0] = h[0] /\ \A i \in 1 .. n : g[i - 1] = h[i - 1] => g[i] = h[i]

LEMMA SameUpTo ==
  ASSUME NEW n \in Nat, NEW g, NEW h, StepAlike(g, h, n)
  PROVE  \A i \in 0 .. n : g[i] = h[i]
<1>. SUFFICES ASSUME NEW k \in 0 .. n PROVE g[k] = h[k]
  OBVIOUS
<1>. DEFINE T == {i \in 0 .. k : g[i] = h[i]}
<1>1. 0 \in T
  BY DEF StepAlike
<1>2. ASSUME NEW i \in 0 .. k - 1, i \in T PROVE i + 1 \in T
  <2>1. i + 1 \in 1 .. n /\ (i + 1) - 1 = i /\ i + 1 \in 0 .. k
    OBVIOUS
  <2>. QED BY <1>2, <2>1 DEF StepAlike
<1>3. k \in T
  <2>. HIDE DEF T
  <2>. QED BY <1>1, <1>2, InductionUpTo
<1>. QED BY <1>3

=============================================================================
