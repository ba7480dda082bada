-------------------------- MODULE ChunkCall_proofs --------------------------
(***************************************************************************)
(* A call of libgguf_quantize_chunk or libgguf_dequantize_chunk.           *)
(*                                                                         *)
(* Its threads, for every number of rows and threads: no thread writes     *)
(* outside the vector of results although it is cut while they run, no row *)
(* is written twice, and no thread outlives the call.                      *)
(*                                                                         *)
(* The blocks that its kernels write and read: decoders find all numbers   *)
(* that encoders have put into a block, for all numbers and whatever its   *)
(* memory held before, and nothing else is there.                          *)
(***************************************************************************)
EXTENDS ChunkCall, RowPartition_proofs

(* Threads are started in order, each has a place of its own and rows to   *)
(* encode, and whatever row has been written is one of a thread that has   *)
(* come so far.                                                            *)
ThreadsInv ==
  /\ \A t \in Thread : thread[t] # "none" <=> t < spawned
  /\ \A t \in Thread : t < spawned => t \in DOMAIN written /\ Begin(t) < call.rows

CallerInv ==
  /\ caller = "check" => spawned = 0 /\ writes = [r \in Row |-> 0]
  /\ caller \in {"spawn", "join"} => call.rows > 0
  /\ caller = "spawn" => DOMAIN written = 0 .. Threads - 1 /\ spawned <= Threads
  /\ caller \in {"add", "done"} => \A t \in Thread : thread[t] \in {"none", "ended"}

WritesInv ==
  caller # "done" =>
    \A r \in Row : writes[r] = 1 =>
      \E t \in Thread : thread[t] \in {"report", "ended"} /\ r \in Slice(t)

IInv == TypeOK /\ ThreadsInv /\ CallerInv /\ WritesInv

-----------------------------------------------------------------------------
LEMMA CallFacts ==
  ASSUME call \in Calls
  PROVE  /\ call.rows \in Nat /\ call.rows <= MaxRows
         /\ call.rows > 0 => Threads \in 1 .. MaxThreads
<1>1. MaxRows \in Nat \ {0} /\ MaxThreads \in Nat \ {0} /\ ParallelRows \in Nat
  BY ForkJoinAssumption
<1>2. call.rows \in Nat /\ call.rows <= MaxRows
  <2>1. call.rows \in 0 .. MaxRows
    <3>1. CASE call \in [entry : {"sum"}, rows : 0 .. MaxRows,
                         slice : {"encoded", "no kernel", "refused"}]
      BY <3>1
    <3>2. CASE call \in [entry : {"slices"}, rows : 1 .. MaxRows,
                         slice : {"encoded", "refused"}]
      <4>1. call.rows \in 1 .. MaxRows
        BY <3>2
      <4>. QED BY <4>1
    <3>. QED BY <3>1, <3>2 DEF Calls
  <2>. QED BY <1>1, <2>1
<1>3. ASSUME call.rows > 0 PROVE Threads \in 1 .. MaxThreads
  <2>1. call.rows \in Nat \ {0}
    BY <1>2, <1>3
  <2>. QED BY <1>1, <2>1, ActiveThreadBounds DEF Threads
<1>. QED BY <1>2, <1>3

(* A thread's rows are rows of the call, and it counts no more than those. *)
LEMMA SliceFacts ==
  ASSUME call \in Calls, call.rows > 0, NEW t \in Thread
  PROVE  /\ Begin(t) \in Nat
         /\ Slice(t) \subseteq Row
         /\ Begin(t) < call.rows => Count(t) \in 0 .. call.rows
<1>1. /\ call.rows \in Nat /\ call.rows <= MaxRows /\ MaxRows \in Nat
      /\ Threads \in Nat \ {0} /\ t \in Nat
  BY CallFacts, ForkJoinAssumption DEF Thread
<1>2. Begin(t) \in Nat
  BY <1>1, RangeBounds DEF Begin
<1>3. Slice(t) \subseteq Row
  BY <1>1, RangeInBlock DEF Slice, Row
<1>4. RowsPerThread(call.rows, Threads) \in Nat
  BY <1>1, RowsPerThreadBounds
<1>. QED BY <1>1, <1>2, <1>3, <1>4 DEF Count, MinOf

LEMMA SlicesAreDisjoint ==
  ASSUME call \in Calls, call.rows > 0, NEW t \in Thread, NEW u \in Thread, t # u,
         NEW r \in Slice(t)
  PROVE  r \notin Slice(u)
<1>1. /\ call.rows \in Nat /\ Threads \in Nat \ {0} /\ t \in Nat /\ u \in Nat
  BY CallFacts, ForkJoinAssumption DEF Thread
<1>. QED BY <1>1, RangesAreDisjoint DEF Slice

(* Where threads have been started, there are rows. *)
LEMMA StartedHasRows ==
  ASSUME IInv, NEW t \in Thread, thread[t] # "none"
  PROVE  /\ call \in Calls /\ call.rows > 0
         /\ t < spawned /\ t \in DOMAIN written /\ Begin(t) < call.rows
<1>1. call \in Calls /\ t < spawned /\ t \in DOMAIN written /\ Begin(t) < call.rows
  BY DEF IInv, TypeOK, ThreadsInv
<1>2. call.rows \in Nat /\ t \in Nat
  BY <1>1, CallFacts, ForkJoinAssumption DEF Thread
<1>3. ASSUME call.rows = 0 PROVE FALSE
  <2>1. Threads = 1
    BY <1>3, ForkJoinAssumption DEF Threads, ActiveThreadCount
  <2>2. RowsPerThread(call.rows, Threads) = 0
    BY <1>3, <2>1 DEF RowsPerThread
  <2>3. Begin(t) = 0
    BY <1>2, <2>2 DEF Begin, RowBegin
  <2>. QED BY <1>1, <1>3, <2>3
<1>. QED BY <1>1, <1>2, <1>3

-----------------------------------------------------------------------------
LEMMA InitInvariant == Init => IInv
<1>. SUFFICES ASSUME Init PROVE IInv
  OBVIOUS
<1>1. TypeOK
  BY CallFacts, ForkJoinAssumption DEF Init, TypeOK
<1>2. ThreadsInv
  BY ForkJoinAssumption DEF Init, ThreadsInv, Thread
<1>3. CallerInv /\ WritesInv
  BY DEF Init, CallerInv, WritesInv
<1>. QED BY <1>1, <1>2, <1>3 DEF IInv

LEMMA CallerKeepsInvariant ==
  ASSUME IInv, CallerStep \/ SpawnFails
  PROVE  IInv'
<1>1. /\ TypeOK /\ ThreadsInv /\ CallerInv /\ WritesInv /\ call \in Calls
      /\ MaxThreads \in Nat \ {0} /\ MaxRows \in Nat \ {0} /\ spawned \in Nat
  BY ForkJoinAssumption DEF IInv, TypeOK
<1>2. /\ call.rows \in Nat /\ call.rows <= MaxRows
      /\ call.rows > 0 => Threads \in 1 .. MaxThreads
  BY <1>1, CallFacts
<1>3. CASE Refuse
  <2>1. TypeOK'
    BY <1>1, <1>3 DEF TypeOK, Refuse, Conclude, sumVars
  <2>2. ThreadsInv'
    BY <1>1, <1>3 DEF ThreadsInv, Refuse, Begin, Threads
  <2>3. CallerInv' /\ WritesInv'
    BY <1>1, <1>3 DEF CallerInv, WritesInv, ThreadsInv, TypeOK, Thread, Refuse, Conclude
  <2>. QED BY <2>1, <2>2, <2>3 DEF IInv
<1>4. CASE Serial
  <2>1. writes' \in [Row -> {0, 1}]
    BY <1>1, <1>4 DEF Serial, CallerInv, WriteRows
  <2>2. TypeOK'
    BY <1>1, <1>4, <2>1 DEF TypeOK, Serial, Conclude, sumVars
  <2>3. ThreadsInv'
    BY <1>1, <1>4 DEF ThreadsInv, Serial, Begin, Threads
  <2>4. CallerInv' /\ WritesInv'
    BY <1>1, <1>4 DEF CallerInv, WritesInv, ThreadsInv, TypeOK, Thread, Serial, Conclude
  <2>. QED BY <2>2, <2>3, <2>4 DEF IInv
<1>5. CASE Fork
  <2>1. TypeOK'
    BY <1>1, <1>2, <1>5 DEF TypeOK, Fork, Thread, sumVars
  <2>2. ThreadsInv'
    BY <1>1, <1>5 DEF ThreadsInv, CallerInv, Fork, Begin, Threads, Thread
  <2>3. CallerInv' /\ WritesInv'
    BY <1>1, <1>2, <1>5 DEF CallerInv, WritesInv, Fork, Threads
  <2>. QED BY <2>1, <2>2, <2>3 DEF IInv
<1>6. CASE Spawn
  <2>1. Threads \in 1 .. MaxThreads /\ spawned \in Thread /\ spawned \in DOMAIN written
    BY <1>1, <1>2, <1>6 DEF Spawn, CallerInv, Thread
  <2>2. TypeOK'
    BY <1>1, <1>6, <2>1 DEF TypeOK, Spawn, Thread, sumVars
  <2>3. ThreadsInv'
    BY <1>1, <1>6, <2>1 DEF ThreadsInv, TypeOK, Spawn, Begin, Threads, Thread
  <2>4. CallerInv'
    BY <1>1, <1>6, <2>1 DEF CallerInv, Spawn, Threads
  <2>5. WritesInv'
    <3>. SUFFICES ASSUME NEW r \in Row, writes[r] = 1
                  PROVE  \E t \in Thread : thread'[t] \in {"report", "ended"} /\ r \in Slice(t)'
      BY <1>6 DEF WritesInv, Spawn
    <3>1. PICK t \in Thread : thread[t] \in {"report", "ended"} /\ r \in Slice(t)
      BY <1>1, <1>6 DEF WritesInv, Spawn
    <3>2. t # spawned
      BY <1>1, <3>1, <2>1 DEF ThreadsInv
    <3>3. thread'[t] = thread[t] /\ Slice(t)' = Slice(t)
      BY <1>1, <1>6, <3>2 DEF Spawn, TypeOK, Slice, Threads
    <3>. QED BY <3>1, <3>3
  <2>. QED BY <2>2, <2>3, <2>4, <2>5 DEF IInv
<1>7. CASE EndSpawning
  <2>1. Threads \in 1 .. MaxThreads /\ DOMAIN written = 0 .. Threads - 1 /\ spawned <= Threads
    BY <1>1, <1>2, <1>7 DEF EndSpawning, CallerInv
  <2>2. /\ DOMAIN written' = {t \in DOMAIN written : spawned # Threads => t < spawned}
        /\ \A t \in DOMAIN written' : written'[t] = written[t]
    <3>1. CASE spawned = Threads
      BY <1>7, <3>1 DEF EndSpawning
    <3>2. CASE spawned # Threads
      <4>1. written' = [t \in 0 .. spawned - 1 |-> written[t]]
        BY <1>7, <3>2 DEF EndSpawning, Trimmed, Restrict
      <4>2. 0 .. spawned - 1 = {t \in DOMAIN written : t < spawned}
        BY <1>1, <2>1
      <4>. QED BY <3>2, <4>1, <4>2
    <3>. QED BY <3>1, <3>2
  <2>3. TypeOK'
    BY <1>1, <1>7, <2>2 DEF TypeOK, EndSpawning, sumVars
  <2>4. ThreadsInv'
    BY <1>1, <1>7, <2>2 DEF ThreadsInv, EndSpawning, Begin, Threads
  <2>5. CallerInv' /\ WritesInv'
    BY <1>1, <1>7 DEF CallerInv, WritesInv, EndSpawning, Slice, Threads
  <2>. QED BY <2>3, <2>4, <2>5 DEF IInv
<1>8. CASE Join
  <2>1. TypeOK' /\ ThreadsInv'
    BY <1>1, <1>8 DEF TypeOK, ThreadsInv, Join, Conclude, Begin, Threads, sumVars
  <2>2. \A t \in Thread : thread[t] \in {"none", "ended"}
    BY <1>1, <1>8 DEF Join, Joined, ThreadsInv, Thread
  <2>3. CallerInv' /\ WritesInv'
    BY <1>1, <1>8, <2>2 DEF CallerInv, WritesInv, Join, Conclude, Slice, Threads
  <2>. QED BY <2>1, <2>3 DEF IInv
<1>9. CASE SpawnFails
  <2>1. TypeOK' /\ ThreadsInv'
    BY <1>1, <1>9 DEF TypeOK, ThreadsInv, SpawnFails, Begin, Threads, sumVars
  <2>2. CallerInv' /\ WritesInv'
    BY <1>1, <1>9 DEF CallerInv, WritesInv, SpawnFails, Slice, Threads
  <2>. QED BY <2>1, <2>2 DEF IInv
<1>10. CASE Add
  <2>1. added \in Thread /\ written[added] \in 0 .. call.rows
    BY <1>1, <1>10 DEF Add, TypeOK
  <2>2. written[added] \in Nat
    BY <1>1, <1>2, <2>1
  <2>3. added' \in 0 .. MaxThreads /\ total' \in Nat
    BY <1>1, <1>10, <2>1, <2>2 DEF Add, TypeOK, Thread
  <2>4. TypeOK'
    BY <1>1, <1>10, <2>3 DEF TypeOK, Add
  <2>5. ThreadsInv' /\ CallerInv' /\ WritesInv'
    BY <1>1, <1>10 DEF ThreadsInv, CallerInv, WritesInv, Add, Begin, Slice, Threads
  <2>. QED BY <2>4, <2>5 DEF IInv
<1>11. CASE Sum
  <2>1. TypeOK' /\ ThreadsInv'
    BY <1>1, <1>11 DEF TypeOK, ThreadsInv, Sum, Conclude, Begin, Threads, sumVars
  <2>2. CallerInv' /\ WritesInv'
    BY <1>1, <1>11 DEF CallerInv, WritesInv, Sum, Conclude
  <2>. QED BY <2>1, <2>2 DEF IInv
<1>. QED BY <1>3, <1>4, <1>5, <1>6, <1>7, <1>8, <1>9, <1>10, <1>11 DEF CallerStep

LEMMA ThreadKeepsInvariant ==
  ASSUME IInv, NEW t \in Thread, ThreadStep(t) \/ OutOfMemory(t)
  PROVE  IInv'
<1>1. TypeOK /\ ThreadsInv /\ CallerInv /\ WritesInv
  BY DEF IInv
<1>2. thread[t] \in {"encode", "report"} /\ thread[t] # "none" /\ caller # "done"
  BY <1>1 DEF ThreadStep, Encode, Report, OutOfMemory, CallerInv
<1>3. /\ call \in Calls /\ call.rows > 0
      /\ t < spawned /\ t \in DOMAIN written /\ Begin(t) < call.rows
  BY <1>2, StartedHasRows
<1>4. caller # "check"
  BY <1>1, <1>3, ForkJoinAssumption DEF CallerInv, Thread
<1>5. CASE Encode(t)
  <2>1. \A r \in Slice(t) : r \in Row /\ writes[r] = 0
    <3>. SUFFICES ASSUME NEW r \in Slice(t), writes[r] = 1 PROVE FALSE
      BY <1>1, <1>3, SliceFacts DEF TypeOK
    <3>1. PICK u \in Thread : thread[u] \in {"report", "ended"} /\ r \in Slice(u)
      BY <1>1, <1>2, <1>3, SliceFacts DEF WritesInv
    <3>2. u # t
      BY <1>5, <3>1 DEF Encode
    <3>. QED BY <1>3, <3>1, <3>2, SlicesAreDisjoint
  <2>2. writes' \in [Row -> {0, 1}]
    BY <1>1, <1>5, <2>1 DEF Encode, WriteRows, TypeOK
  <2>3. TypeOK'
    BY <1>1, <1>5, <2>2 DEF TypeOK, Encode, sumVars
  <2>4. ThreadsInv'
    BY <1>1, <1>2, <1>5 DEF ThreadsInv, TypeOK, Encode, Begin, Threads
  <2>5. CallerInv'
    BY <1>1, <1>2, <1>4, <1>5 DEF CallerInv, Encode, Threads
  <2>6. WritesInv'
    <3>. SUFFICES ASSUME NEW r \in Row, writes'[r] = 1
                  PROVE  \E u \in Thread : thread'[u] \in {"report", "ended"} /\ r \in Slice(u)
      BY <1>5 DEF WritesInv, Encode, Slice, Threads
    <3>1. CASE r \in Slice(t)
      BY <1>1, <1>5, <3>1 DEF Encode, TypeOK
    <3>2. CASE r \notin Slice(t)
      <4>1. writes[r] = 1
        BY <1>5, <3>2 DEF Encode, WriteRows
      <4>2. PICK u \in Thread : thread[u] \in {"report", "ended"} /\ r \in Slice(u)
        BY <1>1, <1>2, <4>1 DEF WritesInv
      <4>3. thread'[u] = thread[u]
        BY <1>1, <1>5, <4>2 DEF Encode, TypeOK
      <4>. QED BY <4>2, <4>3
    <3>. QED BY <3>1, <3>2
  <2>. QED BY <2>3, <2>4, <2>5, <2>6 DEF IInv
<1>6. CASE Report(t)
  <2>1. Count(t) \in 0 .. call.rows
    BY <1>3, SliceFacts
  <2>2. TypeOK'
    BY <1>1, <1>6, <2>1 DEF TypeOK, Report, sumVars
  <2>3. ThreadsInv'
    BY <1>1, <1>2, <1>6 DEF ThreadsInv, TypeOK, Report, Begin, Threads
  <2>4. CallerInv'
    BY <1>1, <1>2, <1>4, <1>6 DEF CallerInv, Report, Threads
  <2>5. WritesInv'
    <3>. SUFFICES ASSUME NEW r \in Row, writes[r] = 1
                  PROVE  \E u \in Thread : thread'[u] \in {"report", "ended"} /\ r \in Slice(u)
      BY <1>6 DEF WritesInv, Report, Slice, Threads
    <3>1. PICK u \in Thread : thread[u] \in {"report", "ended"} /\ r \in Slice(u)
      BY <1>1, <1>2 DEF WritesInv
    <3>2. thread'[u] \in {"report", "ended"}
      BY <1>1, <1>6, <3>1 DEF Report, TypeOK
    <3>. QED BY <3>1, <3>2
  <2>. QED BY <2>2, <2>3, <2>4, <2>5 DEF IInv
<1>7. CASE OutOfMemory(t)
  <2>1. TypeOK' /\ ThreadsInv'
    BY <1>1, <1>7 DEF TypeOK, ThreadsInv, OutOfMemory, Begin, Threads, sumVars
  <2>2. CallerInv' /\ WritesInv'
    BY <1>1, <1>7 DEF CallerInv, WritesInv, OutOfMemory, Slice, Threads
  <2>. QED BY <2>1, <2>2 DEF IInv
<1>. QED BY <1>5, <1>6, <1>7 DEF ThreadStep

LEMMA StepInvariant == IInv /\ [Next]_vars => IInv'
<1>. SUFFICES ASSUME IInv, [Next]_vars PROVE IInv'
  OBVIOUS
<1>1. CASE CallerStep \/ SpawnFails
  BY <1>1, CallerKeepsInvariant
<1>2. CASE \E t \in Thread : ThreadStep(t) \/ OutOfMemory(t)
  BY <1>2, ThreadKeepsInvariant
<1>3. CASE UNCHANGED vars
  BY <1>3 DEF IInv, TypeOK, ThreadsInv, CallerInv, WritesInv, vars, sumVars, Begin, Slice, Threads
<1>. QED BY <1>1, <1>2, <1>3 DEF Next

THEOREM InvariantHolds == Spec => []IInv
BY InitInvariant, StepInvariant, PTL DEF Spec

-----------------------------------------------------------------------------
(* For every number of rows and threads: counts and slices keep within the *)
(* rows of the call, and no row is encoded twice.                          *)
THEOREM TypeCorrect == Spec => []TypeOK
<1>1. IInv => TypeOK
  BY DEF IInv
<1>. QED BY <1>1, InvariantHolds, PTL

(* For every number of rows and threads, the vector of results never loses *)
(* the place of a thread that is running, and no thread outlives the call. *)
THEOREM PlacesStay == Spec => []PlaceExists
<1>1. IInv => PlaceExists
  <2>. SUFFICES ASSUME IInv, NEW t \in Thread, thread[t] \in {"encode", "report"}
                PROVE  t \in DOMAIN written /\ caller # "done"
    BY DEF PlaceExists
  <2>1. t \in DOMAIN written
    BY DEF IInv, ThreadsInv
  <2>2. caller # "done"
    BY DEF IInv, CallerInv
  <2>. QED BY <2>1, <2>2
<1>. QED BY <1>1, InvariantHolds, PTL

-----------------------------------------------------------------------------
(* The verdict.  A place of the vector is zero until its thread has ended  *)
(* and the size of its slice afterwards; a slice is written before its     *)
(* thread reports; the vector ends with the rows; and the sum of the first *)
(* places is the number of rows before the next slice.                     *)
PlacesInv ==
  \A t \in DOMAIN written :
    written[t] = IF thread[t] = "ended" /\ call.slice = "encoded" THEN Count(t) ELSE 0

EncodedInv ==
  /\ call.slice # "encoded" => \A r \in Row : writes[r] = 0
  /\ caller # "done" /\ call.slice = "encoded" =>
       \A t \in Thread : thread[t] \in {"report", "ended"} =>
         \A r \in Slice(t) : writes[r] = 1

EndInv ==
  /\ caller \in {"spawn", "join", "add"} => call.slice # "refused"
  /\ caller \in {"join", "add"} =>
       /\ DOMAIN written = 0 .. spawned - 1
       /\ spawned <= Threads
       /\ spawned = Threads \/ Begin(spawned) >= call.rows

SumInv ==
  /\ caller \in {"check", "spawn", "join"} => added = 0 /\ total = 0
  /\ caller = "add" =>
       /\ call.rows > 0
       /\ added <= spawned
       /\ total = IF call.slice = "encoded" THEN MinOf(Begin(added), call.rows) ELSE 0

VInv == PlacesInv /\ EncodedInv /\ EndInv /\ SumInv

(* When the threads have ended, every row has been encoded, although some  *)
(* threads may never have been started.                                    *)
LEMMA AllEncoded ==
  ASSUME IInv, VInv, caller \in {"join", "add"}, call.slice = "encoded", call.rows > 0,
         \A t \in Thread : t < spawned => thread[t] = "ended"
  PROVE  \A r \in 0 .. call.rows - 1 : writes[r] = 1
<1>. SUFFICES ASSUME NEW r \in 0 .. call.rows - 1 PROVE writes[r] = 1
  OBVIOUS
<1>1. /\ call \in Calls /\ call.rows \in Nat /\ Threads \in 1 .. MaxThreads
      /\ MaxThreads \in Nat /\ spawned \in Nat
  BY CallFacts, ForkJoinAssumption DEF IInv, TypeOK
<1>2. PICK t \in 0 .. Threads - 1 : r \in Slice(t)
  BY <1>1, RangesCoverTheBlock DEF Slice
<1>3. t \in Thread /\ t \in Nat /\ r \in Nat /\ r < call.rows
  BY <1>1, <1>2 DEF Thread
<1>4. t < spawned
  <2>. SUFFICES ASSUME spawned <= t PROVE FALSE
    BY <1>1, <1>3
  <2>1. Begin(spawned) >= call.rows
    BY <1>1, <1>2 DEF VInv, EndInv
  <2>2. PICK q \in Nat : q = RowsPerThread(call.rows, Threads)
    BY <1>1, RowsPerThreadBounds
  <2>3. Begin(spawned) = spawned * q /\ Begin(t) = t * q
    BY <2>2 DEF Begin, RowBegin
  <2>4. spawned < t => spawned * q + q <= t * q
    BY <1>1, <1>3, <2>2, TimesMonotone
  <2>5. spawned * q \in Nat /\ t * q \in Nat
    BY <1>1, <1>3, <2>2
  <2>6. Begin(t) >= call.rows /\ Begin(t) \in Nat
    BY <1>1, <1>3, <2>1, <2>2, <2>3, <2>4, <2>5
  <2>7. r >= Begin(t)
    BY <1>2, <1>3, <2>6 DEF Slice, RowsOf, Begin
  <2>. QED BY <1>1, <1>3, <2>6, <2>7
<1>5. thread[t] = "ended"
  BY <1>3, <1>4
<1>. QED BY <1>2, <1>3, <1>5 DEF VInv, EncodedInv

(* The slices up to a thread's, its own included, end where the next one   *)
(* begins.                                                                 *)
LEMMA NextSlice ==
  ASSUME call \in Calls, call.rows > 0, NEW t \in Nat, Begin(t) < call.rows
  PROVE  MinOf(Begin(t), call.rows) + Count(t) = MinOf(Begin(t + 1), call.rows)
<1>1. call.rows \in Nat /\ Threads \in Nat \ {0}
  BY CallFacts, ForkJoinAssumption
<1>2. PICK q \in Nat : q = RowsPerThread(call.rows, Threads)
  BY <1>1, RowsPerThreadBounds
<1>3. Begin(t) = t * q /\ Begin(t + 1) = (t + 1) * q
  BY <1>2 DEF Begin, RowBegin
<1>4. t * q \in Nat /\ (t + 1) * q = t * q + q
  BY <1>2
<1>5. Count(t) = MinOf(q, call.rows - t * q)
  BY <1>2, <1>3 DEF Count
<1>6. ASSUME NEW b \in Nat, NEW n \in Nat, NEW k \in Nat, b < n
      PROVE  MinOf(b, n) + MinOf(k, n - b) = MinOf(b + k, n)
  BY <1>6 DEF MinOf
<1>7. MinOf(t * q, call.rows) + MinOf(q, call.rows - t * q) = MinOf(t * q + q, call.rows)
  <2>1. t * q \in Nat /\ t * q < call.rows /\ call.rows \in Nat /\ q \in Nat
    BY <1>1, <1>2, <1>3, <1>4
  <2>. QED BY ONLY <1>6, <2>1
<1>. QED BY <1>3, <1>4, <1>5, <1>7

LEMMA VInvInit == Init => VInv /\ VerdictIsTrue
<1>. SUFFICES ASSUME Init PROVE VInv /\ VerdictIsTrue
  OBVIOUS
<1>1. PlacesInv /\ EndInv /\ SumInv /\ VerdictIsTrue
  BY DEF Init, PlacesInv, EndInv, SumInv, VerdictIsTrue
<1>2. EncodedInv
  BY DEF Init, EncodedInv
<1>. QED BY <1>1, <1>2 DEF VInv

LEMMA CallerKeepsVerdict ==
  ASSUME IInv, VInv, CallerStep \/ SpawnFails
  PROVE  VInv' /\ VerdictIsTrue'
<1>1. /\ TypeOK /\ ThreadsInv /\ CallerInv /\ call \in Calls
      /\ PlacesInv /\ EncodedInv /\ EndInv /\ SumInv
      /\ MaxThreads \in Nat \ {0} /\ MaxRows \in Nat \ {0} /\ spawned \in Nat
  BY ForkJoinAssumption DEF IInv, VInv, TypeOK
<1>2. /\ call.rows \in Nat /\ call.rows <= MaxRows
      /\ call.rows > 0 => Threads \in 1 .. MaxThreads
  BY <1>1, CallFacts
<1>3. ASSUME call' = call
      PROVE  /\ Threads' = Threads
             /\ \A t : Begin(t)' = Begin(t) /\ Slice(t)' = Slice(t) /\ Count(t)' = Count(t)
  BY <1>3 DEF Threads, Begin, Slice, Count
<1>4. CASE Refuse
  <2>1. PlacesInv' /\ EndInv' /\ SumInv'
    BY <1>1, <1>4 DEF PlacesInv, EndInv, SumInv, Refuse, Conclude, Count, Threads, Begin
  <2>2. EncodedInv'
    BY <1>1, <1>4 DEF EncodedInv, Refuse, Conclude
  <2>3. VerdictIsTrue'
    <3>1. \A r \in Row : writes[r] = 0
      BY <1>1, <1>4 DEF CallerInv, Refuse
    <3>2. CASE call.rows = 0
      <4>1. call.entry = "sum"
        <5>1. call.rows \notin 1 .. MaxRows
          BY <3>2
        <5>. QED BY <1>1, <5>1 DEF Calls
      <4>2. verdict' = "encoded"
        BY <1>4, <3>2, <4>1 DEF Refuse, Conclude
      <4>. QED BY <1>4, <3>2, <4>2 DEF VerdictIsTrue, Refuse
    <3>3. CASE call.rows # 0
      <4>1. call.slice = "refused" /\ verdict' = "failed"
        BY <1>4, <3>3 DEF Refuse, Conclude
      <4>2. 0 \in Row /\ 0 \in 0 .. call.rows - 1
        BY <1>1, <1>2, <3>3 DEF Row
      <4>. QED BY <1>4, <3>1, <4>1, <4>2 DEF VerdictIsTrue, Refuse
    <3>. QED BY <3>2, <3>3
  <2>. QED BY <2>1, <2>2, <2>3 DEF VInv
<1>5. CASE Serial
  <2>1. PlacesInv' /\ EndInv' /\ SumInv'
    BY <1>1, <1>5 DEF PlacesInv, EndInv, SumInv, Serial, Conclude, Count, Threads, Begin
  <2>2. \A r \in Row : writes[r] = 0
    BY <1>1, <1>5 DEF CallerInv, Serial
  <2>3. \A r \in 0 .. call.rows - 1 : r \in Row
    BY <1>1, <1>2 DEF Row
  <2>4. 0 \in 0 .. call.rows - 1
    BY <1>2, <1>5 DEF Serial
  <2>5. CASE call.slice = "encoded"
    <3>1. \A r \in 0 .. call.rows - 1 : writes'[r] = 1
      BY <1>5, <2>2, <2>3, <2>5 DEF Serial, WriteRows
    <3>2. EncodedInv' /\ VerdictIsTrue'
      BY <1>5, <2>5, <3>1 DEF EncodedInv, VerdictIsTrue, Serial, Conclude
    <3>. QED BY <2>1, <3>2 DEF VInv
  <2>6. CASE call.slice # "encoded"
    <3>1. \A r \in Row : writes'[r] = 0
      BY <1>5, <2>2, <2>6 DEF Serial, WriteRows
    <3>2. EncodedInv' /\ VerdictIsTrue'
      BY <1>5, <2>3, <2>4, <2>6, <3>1 DEF EncodedInv, VerdictIsTrue, Serial, Conclude
    <3>. QED BY <2>1, <3>2 DEF VInv
  <2>. QED BY <2>5, <2>6
<1>6. CASE Fork
  <2>1. \A t \in Thread : thread[t] = "none"
    BY <1>1, <1>6 DEF ThreadsInv, CallerInv, Fork, Thread
  <2>2. PlacesInv'
    <3>1. Threads \in 1 .. MaxThreads
      BY <1>2, <1>6 DEF Fork
    <3>2. \A t \in 0 .. Threads - 1 : t \in Thread
      BY <1>1, <3>1 DEF Thread
    <3>. QED BY <1>6, <2>1, <3>2 DEF PlacesInv, Fork
  <2>3. EncodedInv'
    BY <1>1, <1>6, <2>1 DEF EncodedInv, Fork
  <2>4. EndInv' /\ SumInv' /\ VerdictIsTrue'
    BY <1>1, <1>6 DEF EndInv, SumInv, VerdictIsTrue, Fork, sumVars
  <2>. QED BY <2>2, <2>3, <2>4 DEF VInv
<1>7. CASE Spawn
  <2>1. Threads \in 1 .. MaxThreads /\ spawned \in Thread
    BY <1>1, <1>2, <1>7 DEF Spawn, CallerInv, Thread
  <2>2. thread[spawned] = "none" /\ thread'[spawned] = "encode"
    BY <1>1, <1>7, <2>1 DEF Spawn, ThreadsInv, TypeOK
  <2>3. \A t \in Thread : thread'[t] = IF t = spawned THEN "encode" ELSE thread[t]
    BY <1>1, <1>7 DEF Spawn, TypeOK
  <2>4. PlacesInv'
    BY <1>1, <1>3, <1>7, <2>2, <2>3 DEF PlacesInv, Spawn, TypeOK
  <2>5. EncodedInv'
    BY <1>1, <1>3, <1>7, <2>3 DEF EncodedInv, Spawn
  <2>6. EndInv' /\ SumInv' /\ VerdictIsTrue'
    BY <1>1, <1>7 DEF EndInv, SumInv, VerdictIsTrue, Spawn, sumVars
  <2>. QED BY <2>4, <2>5, <2>6 DEF VInv
<1>8. CASE EndSpawning
  <2>1. Threads \in 1 .. MaxThreads /\ DOMAIN written = 0 .. Threads - 1 /\ spawned <= Threads
    BY <1>1, <1>2, <1>8 DEF EndSpawning, CallerInv
  <2>2. /\ DOMAIN written' = 0 .. spawned - 1
        /\ \A t \in DOMAIN written' : t \in DOMAIN written /\ written'[t] = written[t]
    <3>1. CASE spawned = Threads
      BY <1>8, <2>1, <3>1 DEF EndSpawning
    <3>2. CASE spawned # Threads
      <4>1. written' = [t \in 0 .. spawned - 1 |-> written[t]]
        <5>1. (0 .. spawned - 1) \cap DOMAIN written = 0 .. spawned - 1
          BY <1>1, <2>1
        <5>. QED BY <1>8, <3>2, <5>1 DEF EndSpawning, Trimmed, Restrict
      <4>2. \A t \in 0 .. spawned - 1 : t \in DOMAIN written
        BY <1>1, <2>1
      <4>. QED BY <4>1, <4>2
    <3>. QED BY <3>1, <3>2
  <2>3. PlacesInv'
    BY <1>1, <1>3, <1>8, <2>2 DEF PlacesInv, EndSpawning
  <2>4. EncodedInv'
    BY <1>1, <1>3, <1>8 DEF EncodedInv, EndSpawning
  <2>5. EndInv'
    BY <1>1, <1>3, <1>8, <2>1, <2>2 DEF EndInv, EndSpawning
  <2>6. SumInv' /\ VerdictIsTrue'
    BY <1>1, <1>8 DEF SumInv, VerdictIsTrue, EndSpawning, sumVars
  <2>. QED BY <2>3, <2>4, <2>5, <2>6 DEF VInv
<1>9. CASE Join
  <2>1. /\ call.rows > 0 /\ Threads \in 1 .. MaxThreads
        /\ DOMAIN written = 0 .. spawned - 1 /\ spawned <= Threads
    BY <1>1, <1>2, <1>9 DEF Join, CallerInv, EndInv
  <2>2. \A t \in Thread : t < spawned => thread[t] = "ended"
    BY <1>1, <1>9 DEF Join, Joined, Thread
  <2>3. PlacesInv'
    BY <1>1, <1>3, <1>9 DEF PlacesInv, Join
  <2>4. EncodedInv'
    BY <1>1, <1>3, <1>9 DEF EncodedInv, Join
  <2>5. EndInv'
    BY <1>1, <1>3, <1>9 DEF EndInv, Join, Conclude
  <2>6. CASE call.entry = "sum"
    <3>1. caller' = "add" /\ added' = 0 /\ total' = 0
      BY <1>1, <1>9, <2>6 DEF Join, SumInv, sumVars
    <3>2. Begin(0) = 0
      <4>1. RowsPerThread(call.rows, Threads) \in Nat
        <5>1. call.rows \in Nat /\ Threads \in Nat \ {0}
          BY <1>1, <1>2, <2>1
        <5>. QED BY <5>1, RowsPerThreadBounds
      <4>2. \A n \in Nat : 0 * n = 0
        OBVIOUS
      <4>3. Begin(0) = 0 * RowsPerThread(call.rows, Threads)
        BY DEF Begin, RowBegin
      <4>. QED BY ONLY <4>1, <4>2, <4>3
    <3>3. MinOf(0, call.rows) = 0
      BY <1>2 DEF MinOf
    <3>4. SumInv'
      BY <1>1, <1>3, <1>9, <2>1, <3>1, <3>2, <3>3 DEF SumInv, Join
    <3>5. VerdictIsTrue'
      BY <3>1 DEF VerdictIsTrue
    <3>. QED BY <2>3, <2>4, <2>5, <3>4, <3>5 DEF VInv
  <2>7. CASE call.entry # "sum"
    <3>1. call.slice = "encoded"
      BY <1>1, <1>9, <2>7 DEF Calls, Join, EndInv
    <3>2. SlicesAreExpected
      <4>. SUFFICES ASSUME NEW t \in DOMAIN written
                    PROVE  call.rows >= Begin(t) /\ written[t] = Count(t)
        BY DEF SlicesAreExpected
      <4>1. t \in Thread /\ t < spawned
        BY <1>1, <2>1 DEF Thread, TypeOK
      <4>2. Begin(t) < call.rows /\ Begin(t) \in Nat
        BY <1>1, <2>1, <4>1, SliceFacts DEF ThreadsInv
      <4>. QED BY <1>1, <1>2, <2>2, <3>1, <4>1, <4>2 DEF PlacesInv
    <3>3. caller' = "done" /\ verdict' = "encoded"
      BY <1>9, <2>7, <3>2 DEF Join, Conclude
    <3>4. \A r \in 0 .. call.rows - 1 : writes[r] = 1
      BY <1>9, <2>1, <2>2, <3>1, AllEncoded DEF Join
    <3>5. SumInv'
      BY <3>3 DEF SumInv
    <3>6. VerdictIsTrue'
      BY <1>9, <3>3, <3>4 DEF VerdictIsTrue, Join
    <3>. QED BY <2>3, <2>4, <2>5, <3>5, <3>6 DEF VInv
  <2>. QED BY <2>6, <2>7
<1>10. CASE Add
  <2>1. /\ added \in Nat /\ added < spawned /\ added \in Thread
        /\ added \in DOMAIN written
    BY <1>1, <1>10 DEF Add, EndInv, TypeOK
  <2>2. /\ call.rows > 0 /\ Begin(added) < call.rows
        /\ thread[added] = "ended"
    BY <1>1, <1>10, <2>1 DEF Add, SumInv, ThreadsInv, CallerInv
  <2>3. SumInv'
    <3>1. caller' = "add" /\ added' = added + 1 /\ added' <= spawned /\ spawned' = spawned
      BY <1>1, <1>10, <2>1 DEF Add
    <3>2. CASE call.slice = "encoded"
      <4>1. total' = MinOf(Begin(added), call.rows) + Count(added)
        BY <1>1, <1>10, <2>1, <2>2, <3>2 DEF Add, SumInv, PlacesInv
      <4>2. total' = MinOf(Begin(added + 1), call.rows)
        BY <1>1, <2>1, <2>2, <4>1, NextSlice
      <4>3. call' = call
        BY <1>10 DEF Add
      <4>. QED BY <1>3, <2>2, <3>1, <3>2, <4>2, <4>3 DEF SumInv
    <3>3. CASE call.slice # "encoded"
      <4>1. total' = 0
        BY <1>1, <1>10, <2>1, <3>3 DEF Add, SumInv, PlacesInv
      <4>2. call' = call
        BY <1>10 DEF Add
      <4>. QED BY <2>2, <3>1, <3>3, <4>1, <4>2 DEF SumInv
    <3>. QED BY <3>2, <3>3
  <2>4. PlacesInv' /\ EncodedInv' /\ EndInv'
    BY <1>1, <1>3, <1>10 DEF PlacesInv, EncodedInv, EndInv, Add
  <2>5. VerdictIsTrue'
    BY <1>10 DEF Add, VerdictIsTrue
  <2>. QED BY <2>3, <2>4, <2>5 DEF VInv
<1>11. CASE Sum
  <2>1. /\ call.rows > 0 /\ Threads \in 1 .. MaxThreads
        /\ added \in Nat /\ added = spawned
    BY <1>1, <1>2, <1>11 DEF Sum, EndInv, SumInv, TypeOK
  <2>2. \A t \in Thread : t < spawned => thread[t] = "ended"
    BY <1>1, <1>11 DEF Sum, ThreadsInv, CallerInv
  <2>3. Begin(spawned) >= call.rows /\ Begin(spawned) \in Nat
    <3>1. PICK q \in Nat : q = RowsPerThread(call.rows, Threads) /\ call.rows <= Threads * q
      BY <1>2, <2>1, RowsPerThreadBounds
    <3>2. \A t : Begin(t) = t * q
      BY <3>1 DEF Begin, RowBegin
    <3>3. spawned * q \in Nat
      BY <1>1, <3>1
    <3>4. spawned = Threads \/ Begin(spawned) >= call.rows
      BY <1>1, <1>11 DEF Sum, EndInv
    <3>. QED BY <1>2, <3>1, <3>2, <3>3, <3>4
  <2>4. PlacesInv' /\ EncodedInv' /\ EndInv' /\ SumInv'
    BY <1>1, <1>3, <1>11 DEF PlacesInv, EncodedInv, EndInv, SumInv, Sum, Conclude
  <2>5. CASE call.slice = "encoded"
    <3>1. total = call.rows
      <4>1. total = MinOf(Begin(spawned), call.rows)
        BY <1>1, <1>11, <2>1, <2>5 DEF Sum, SumInv
      <4>. QED BY <1>2, <2>3, <4>1 DEF MinOf
    <3>2. \A r \in 0 .. call.rows - 1 : writes[r] = 1
      BY <1>11, <2>1, <2>2, <2>5, AllEncoded DEF Sum
    <3>3. VerdictIsTrue'
      BY <1>11, <3>1, <3>2 DEF VerdictIsTrue, Sum, Conclude, TotalIsExpected
    <3>. QED BY <2>4, <3>3 DEF VInv
  <2>6. CASE call.slice # "encoded"
    <3>1. total # call.rows
      BY <1>1, <1>11, <2>1, <2>6 DEF Sum, SumInv
    <3>2. 0 \in Row /\ 0 \in 0 .. call.rows - 1 /\ writes[0] = 0
      BY <1>1, <1>2, <2>1, <2>6 DEF EncodedInv, Row
    <3>3. VerdictIsTrue'
      BY <1>11, <2>6, <3>1, <3>2 DEF VerdictIsTrue, Sum, Conclude, TotalIsExpected
    <3>. QED BY <2>4, <3>3 DEF VInv
  <2>. QED BY <2>5, <2>6
<1>12. CASE SpawnFails
  <2>1. PlacesInv' /\ EncodedInv' /\ EndInv'
    BY <1>1, <1>3, <1>12 DEF PlacesInv, EncodedInv, EndInv, SpawnFails
  <2>2. SumInv' /\ VerdictIsTrue'
    BY <1>12 DEF SumInv, VerdictIsTrue, SpawnFails
  <2>. QED BY <2>1, <2>2 DEF VInv
<1>. QED BY <1>4, <1>5, <1>6, <1>7, <1>8, <1>9, <1>10, <1>11, <1>12 DEF CallerStep

LEMMA ThreadKeepsVerdict ==
  ASSUME IInv, VInv, NEW t \in Thread, ThreadStep(t) \/ OutOfMemory(t)
  PROVE  VInv' /\ VerdictIsTrue'
<1>1. /\ TypeOK /\ CallerInv /\ PlacesInv /\ EncodedInv /\ EndInv /\ SumInv
  BY DEF IInv, VInv
<1>2. thread[t] \in {"encode", "report"} /\ thread[t] # "none" /\ caller \notin {"add", "done"}
  BY <1>1 DEF ThreadStep, Encode, Report, OutOfMemory, CallerInv
<1>3. call \in Calls /\ call.rows > 0 /\ t \in DOMAIN written
  BY <1>2, StartedHasRows
<1>4. ASSUME call' = call
      PROVE  /\ Threads' = Threads
             /\ \A u : Begin(u)' = Begin(u) /\ Slice(u)' = Slice(u) /\ Count(u)' = Count(u)
  BY <1>4 DEF Threads, Begin, Slice, Count
<1>5. CASE Encode(t)
  <2>1. /\ call' = call /\ caller' = caller /\ written' = written
        /\ \A u \in Thread : thread'[u] = IF u = t THEN "report" ELSE thread[u]
    BY <1>1, <1>5 DEF Encode, TypeOK
  <2>2. PlacesInv'
    BY <1>1, <1>2, <1>4, <1>5, <2>1 DEF PlacesInv, TypeOK, Encode
  <2>3. EncodedInv'
    <3>1. CASE call.slice = "encoded"
      <4>1. \A r \in Row : writes'[r] = IF r \in Slice(t) THEN writes[r] + 1 ELSE writes[r]
        BY <1>5, <3>1 DEF Encode, WriteRows
      <4>2. \A r \in Row : r \in Slice(t) => writes'[r] = 1
        <5>1. IInv'
          BY <1>5, ThreadKeepsInvariant DEF ThreadStep
        <5>2. \A r \in Row : writes[r] \in {0, 1} /\ writes'[r] \in {0, 1}
          BY <1>1, <5>1 DEF IInv, TypeOK
        <5>. QED BY <4>1, <5>2
      <4>. SUFFICES ASSUME NEW u \in Thread, thread'[u] \in {"report", "ended"},
                           NEW r \in Slice(u)
                    PROVE  writes'[r] = 1
        BY <1>4, <2>1, <3>1 DEF EncodedInv
      <4>3. r \in Row
        BY <1>3, SliceFacts
      <4>4. CASE u = t
        BY <4>2, <4>3, <4>4
      <4>5. CASE u # t
        <5>1. r \notin Slice(t)
          BY <1>3, <4>5, SlicesAreDisjoint
        <5>2. writes[r] = 1
          BY <1>1, <1>2, <2>1, <3>1, <4>5 DEF EncodedInv
        <5>. QED BY <4>1, <4>3, <5>1, <5>2
      <4>. QED BY <4>4, <4>5
    <3>2. CASE call.slice # "encoded"
      BY <1>1, <1>5, <2>1, <3>2 DEF EncodedInv, Encode, WriteRows
    <3>. QED BY <3>1, <3>2
  <2>4. EndInv' /\ SumInv' /\ VerdictIsTrue'
    BY <1>1, <1>2, <1>4, <1>5, <2>1 DEF EndInv, SumInv, VerdictIsTrue, Encode, sumVars
  <2>. QED BY <2>2, <2>3, <2>4 DEF VInv
<1>6. CASE Report(t)
  <2>1. /\ call' = call /\ caller' = caller /\ DOMAIN written' = DOMAIN written
        /\ \A u \in Thread : thread'[u] = IF u = t THEN "ended" ELSE thread[u]
        /\ \A u \in DOMAIN written :
             written'[u] = IF u = t /\ call.slice = "encoded" THEN Count(t) ELSE written[u]
    BY <1>1, <1>6 DEF Report, TypeOK
  <2>2. thread[t] = "report"
    BY <1>6 DEF Report
  <2>3. PlacesInv'
    <3>. SUFFICES ASSUME NEW u \in DOMAIN written
                  PROVE  written'[u] = IF thread'[u] = "ended" /\ call.slice = "encoded"
                                         THEN Count(u) ELSE 0
      BY <1>4, <2>1 DEF PlacesInv
    <3>1. u \in Thread
      BY <1>1 DEF TypeOK
    <3>. QED BY <1>1, <2>1, <2>2, <3>1 DEF PlacesInv
  <2>4. EncodedInv'
    BY <1>1, <1>2, <1>4, <1>6, <2>1, <2>2 DEF EncodedInv, Report
  <2>5. EndInv' /\ SumInv' /\ VerdictIsTrue'
    BY <1>1, <1>2, <1>4, <1>6, <2>1 DEF EndInv, SumInv, VerdictIsTrue, Report, sumVars
  <2>. QED BY <2>3, <2>4, <2>5 DEF VInv
<1>7. CASE OutOfMemory(t)
  <2>1. PlacesInv' /\ EncodedInv' /\ EndInv'
    BY <1>1, <1>2, <1>4, <1>7 DEF PlacesInv, EncodedInv, EndInv, OutOfMemory
  <2>2. SumInv' /\ VerdictIsTrue'
    BY <1>7 DEF SumInv, VerdictIsTrue, OutOfMemory
  <2>. QED BY <2>1, <2>2 DEF VInv
<1>. QED BY <1>5, <1>6, <1>7 DEF ThreadStep

LEMMA VerdictStep == IInv /\ VInv /\ VerdictIsTrue /\ [Next]_vars => VInv' /\ VerdictIsTrue'
<1>. SUFFICES ASSUME IInv, VInv, VerdictIsTrue, [Next]_vars PROVE VInv' /\ VerdictIsTrue'
  OBVIOUS
<1>1. CASE CallerStep \/ SpawnFails
  BY <1>1, CallerKeepsVerdict
<1>2. CASE \E t \in Thread : ThreadStep(t) \/ OutOfMemory(t)
  BY <1>2, ThreadKeepsVerdict
<1>3. CASE UNCHANGED vars
  BY <1>3 DEF VInv, PlacesInv, EncodedInv, EndInv, SumInv, VerdictIsTrue, vars, sumVars,
              Begin, Slice, Count, Threads
<1>. QED BY <1>1, <1>2, <1>3 DEF Next

(* For every number of rows and threads: the sum of the results, cut while *)
(* the threads ran, is the number of rows exactly when every row has been  *)
(* encoded.                                                                *)
THEOREM VerdictsAreTrue == Spec => []VerdictIsTrue
<1>1. IInv /\ (VInv /\ VerdictIsTrue) /\ [Next]_vars => (VInv /\ VerdictIsTrue)'
  BY VerdictStep
<1>. QED BY <1>1, VInvInit, InvariantHolds, PTL DEF Spec

-----------------------------------------------------------------------------
(* A byte of ternary digits.                                               *)

(* The number that five digits make.  q never leaves its eight bits.       *)
Base3(d, n) == 81 * d[0] + 27 * d[1] + 9 * d[2] + 3 * d[3] + (IF n = 5 THEN d[4] ELSE 0)

(* The digits make a number that fits eight bits at every step. *)
LEMMA DigitsMakeANumber ==
  ASSUME NEW d \in [0 .. 4 -> 0 .. 2]
  PROVE  /\ Ternary!Appended(Ternary!FourDigits(d), d[4]) = Base3(d, 5)
         /\ Ternary!UInt8(3 * Ternary!FourDigits(d)) = Base3(d, 4)
         /\ Base3(d, 5) \in 0 .. 242 /\ Base3(d, 4) \in 0 .. 242
<1>1. d[0] \in 0 .. 2 /\ d[1] \in 0 .. 2 /\ d[2] \in 0 .. 2 /\ d[3] \in 0 .. 2 /\ d[4] \in 0 .. 2
  OBVIOUS
<1>2. ASSUME NEW q \in Nat, NEW x \in 0 .. 2, 3 * q + x < 256
      PROVE  Ternary!Appended(q, x) = 3 * q + x
  <2>1. (3 * q) % 256 = 3 * q
    BY <1>2
  <2>2. (3 * q + x) % 256 = 3 * q + x
    BY <1>2
  <2> QED
    BY <2>1, <2>2 DEF Ternary!Appended, Ternary!UInt8
<1>3. Ternary!Appended(0, d[0]) = d[0]
  BY <1>1, <1>2
<1>4. Ternary!Appended(d[0], d[1]) = 3 * d[0] + d[1]
  BY <1>1, <1>2
<1>5. Ternary!Appended(3 * d[0] + d[1], d[2]) = 9 * d[0] + 3 * d[1] + d[2]
  BY <1>1, <1>2
<1>6. Ternary!FourDigits(d) = 27 * d[0] + 9 * d[1] + 3 * d[2] + d[3]
  BY <1>1, <1>2, <1>3, <1>4, <1>5 DEF Ternary!FourDigits
<1>7. Ternary!Appended(27 * d[0] + 9 * d[1] + 3 * d[2] + d[3], d[4]) = Base3(d, 5)
  BY <1>1, <1>2 DEF Base3
<1>8. (3 * (27 * d[0] + 9 * d[1] + 3 * d[2] + d[3])) % 256 = Base3(d, 4)
  BY <1>1 DEF Base3
<1>9. Base3(d, 5) \in 0 .. 242 /\ Base3(d, 4) \in 0 .. 242
  BY <1>1 DEF Base3
<1> QED
  BY <1>6, <1>7, <1>8, <1>9 DEF Ternary!UInt8

(* The byte is the fraction q / 243, rounded up by less than one 243rd.    *)
LEMMA RoundedUp ==
  ASSUME NEW q \in 0 .. 242
  PROVE  \E v \in 0 .. 255 : \E r \in 0 .. 242 :
           Ternary!Ceiling243(q) = v /\ 243 * v = 256 * q + r
<1>1. q % 65536 = q
  BY Z3
<1>2. \E v \in 0 .. 255 : \E r \in 0 .. 242 :
        (q * 256 + 242) \div 243 = v /\ 243 * v = 256 * q + r
  <2> DEFINE n == q * 256 + 242
             v == n \div 243
  <2>1. n \in Nat
    BY Z3
  <2>2. v \in Nat /\ 243 * v <= n /\ n < 243 * v + 243
    BY <2>1, Z3
  <2> HIDE DEF v
  <2>3. v \in 0 .. 255 /\ 243 * v - 256 * q \in 0 .. 242
    BY <2>2, Z3
  <2> DEFINE r == 243 * v - 256 * q
  <2>4. r \in 0 .. 242 /\ 243 * v = 256 * q + r
    BY <2>3, Z3
  <2>5. (q * 256 + 242) \div 243 = v
    BY DEF v
  <2> HIDE DEF r
  <2> QED
    BY <2>3, <2>4, <2>5, ZenonT(60)
<1>3. PICK v \in 0 .. 255 : \E r \in 0 .. 242 :
        (q * 256 + 242) \div 243 = v /\ 243 * v = 256 * q + r
  BY <1>2
<1>4. v % 256 = v
  BY Z3
<1>5. 243 - 1 = 242
  OBVIOUS
<1>6. Ternary!Ceiling243(q) = v
  BY <1>1, <1>3, <1>4, <1>5 DEF Ternary!Ceiling243, Ternary!UInt8, Ternary!UInt16
<1> QED
  BY <1>3, <1>6, ZenonT(60)

(* A digit is read off a product that leaves eight bits behind.            *)
LEMMA ReadOff ==
  ASSUME NEW product \in Nat, NEW whole \in Nat, NEW a \in 0 .. 255, NEW k \in 0 .. 2,
         product = 256 * whole + a,
         256 * k <= 3 * a, 3 * a < 256 * (k + 1)
  PROVE  (Ternary!UInt8(product) * 3) \div 256 = k
<1>1. product % 256 = a
  BY Z3
<1>2. (a * 3) \div 256 = k
  BY Z3
<1> QED
  BY <1>1, <1>2 DEF Ternary!UInt8

(* The byte v stands for the digits, rounded up by r.                      *)
IsFraction(v, r, d0, d1, d2, d3, d4) ==
  243 * v = 256 * (81 * d0 + 27 * d1 + 9 * d2 + 3 * d3 + d4) + r

(* Multiplying with 3^n moves the n-th digit to the front of the fraction; *)
(* what goes beyond eight bits are the digits before it.                   *)
LEMMA DigitComesBack ==
  ASSUME NEW v \in 0 .. 255, NEW r \in 0 .. 242,
         NEW d0 \in 0 .. 2, NEW d1 \in 0 .. 2, NEW d2 \in 0 .. 2, NEW d3 \in 0 .. 2,
         NEW d4 \in 0 .. 2, IsFraction(v, r, d0, d1, d2, d3, d4)
  PROVE  /\ Ternary!Digit(v, 0) = d0 /\ Ternary!Digit(v, 1) = d1
         /\ Ternary!Digit(v, 2) = d2 /\ Ternary!Digit(v, 3) = d3
         /\ Ternary!Digit(v, 4) = d4
<1> USE DEF IsFraction
<1>1. Ternary!Digit(v, 0) = d0
  <2>1. Ternary!pow3[0 + 1] = 1
    BY DEF Ternary!pow3
  <2> DEFINE product == v * 1
             whole == 0
             a == product - 256 * whole
  <2>2. /\ product \in Nat /\ whole \in Nat /\ a \in 0 .. 255
        /\ product = 256 * whole + a
        /\ 256 * d0 <= 3 * a /\ 3 * a < 256 * (d0 + 1)
    BY Z3
  <2> HIDE DEF product, whole, a
  <2>3. (Ternary!UInt8(product) * 3) \div 256 = d0
    BY <2>2, ReadOff, SMTT(30)
  <2> QED
    BY <2>1, <2>3 DEF Ternary!Digit, product
<1>2. Ternary!Digit(v, 1) = d1
  <2>1. Ternary!pow3[1 + 1] = 3
    BY DEF Ternary!pow3
  <2> DEFINE product == v * 3
             whole == d0
             a == product - 256 * whole
  <2>2. /\ product \in Nat /\ whole \in Nat /\ a \in 0 .. 255
        /\ product = 256 * whole + a
        /\ 256 * d1 <= 3 * a /\ 3 * a < 256 * (d1 + 1)
    BY Z3
  <2> HIDE DEF product, whole, a
  <2>3. (Ternary!UInt8(product) * 3) \div 256 = d1
    BY <2>2, ReadOff, SMTT(30)
  <2> QED
    BY <2>1, <2>3 DEF Ternary!Digit, product
<1>3. Ternary!Digit(v, 2) = d2
  <2>1. Ternary!pow3[2 + 1] = 9
    BY DEF Ternary!pow3
  <2> DEFINE product == v * 9
             whole == 3 * d0 + d1
             a == product - 256 * whole
  <2>2. /\ product \in Nat /\ whole \in Nat /\ a \in 0 .. 255
        /\ product = 256 * whole + a
        /\ 256 * d2 <= 3 * a /\ 3 * a < 256 * (d2 + 1)
    BY Z3
  <2> HIDE DEF product, whole, a
  <2>3. (Ternary!UInt8(product) * 3) \div 256 = d2
    BY <2>2, ReadOff, SMTT(30)
  <2> QED
    BY <2>1, <2>3 DEF Ternary!Digit, product
<1>4. Ternary!Digit(v, 3) = d3
  <2>1. Ternary!pow3[3 + 1] = 27
    BY DEF Ternary!pow3
  <2> DEFINE product == v * 27
             whole == 9 * d0 + 3 * d1 + d2
             a == product - 256 * whole
  <2>2. /\ product \in Nat /\ whole \in Nat /\ a \in 0 .. 255
        /\ product = 256 * whole + a
        /\ 256 * d3 <= 3 * a /\ 3 * a < 256 * (d3 + 1)
    BY Z3
  <2> HIDE DEF product, whole, a
  <2>3. (Ternary!UInt8(product) * 3) \div 256 = d3
    BY <2>2, ReadOff, SMTT(30)
  <2> QED
    BY <2>1, <2>3 DEF Ternary!Digit, product
<1>5. Ternary!Digit(v, 4) = d4
  <2>1. Ternary!pow3[4 + 1] = 81
    BY DEF Ternary!pow3
  <2> DEFINE product == v * 81
             whole == 27 * d0 + 9 * d1 + 3 * d2 + d3
             a == product - 256 * whole
  <2>2. /\ product \in Nat /\ whole \in Nat /\ a \in 0 .. 255
        /\ product = 256 * whole + a
        /\ 256 * d4 <= 3 * a /\ 3 * a < 256 * (d4 + 1)
    BY Z3
  <2> HIDE DEF product, whole, a
  <2>3. (Ternary!UInt8(product) * 3) \div 256 = d4
    BY <2>2, ReadOff, SMTT(30)
  <2> QED
    BY <2>1, <2>3 DEF Ternary!Digit, product
<1> QED
  BY <1>1, <1>2, <1>3, <1>4, <1>5

(* What a byte was made of comes out of it.                                *)
LEMMA ByteComesBack ==
  ASSUME NEW d \in [0 .. 4 -> 0 .. 2]
  PROVE  /\ \A n \in 0 .. 4 :
              Ternary!Digit(Ternary!Ceiling243(Ternary!Appended(Ternary!FourDigits(d), d[4])), n) = d[n]
         /\ \A n \in 0 .. 3 :
              Ternary!Digit(Ternary!Ceiling243(Ternary!UInt8(3 * Ternary!FourDigits(d))), n) = d[n]
<1>1. d[0] \in 0 .. 2 /\ d[1] \in 0 .. 2 /\ d[2] \in 0 .. 2 /\ d[3] \in 0 .. 2 /\ d[4] \in 0 .. 2
  OBVIOUS
<1>2. ASSUME NEW e \in 0 .. 2, NEW q \in 0 .. 242,
             q = 81 * d[0] + 27 * d[1] + 9 * d[2] + 3 * d[3] + e
      PROVE  \A n \in 0 .. 4 :
               Ternary!Digit(Ternary!Ceiling243(q), n) = IF n = 4 THEN e ELSE d[n]
  <2>1. PICK v \in 0 .. 255, r \in 0 .. 242 :
          Ternary!Ceiling243(q) = v /\ 243 * v = 256 * q + r
    BY RoundedUp, ZenonT(60)
  <2>4. PICK d0 \in 0 .. 2, d1 \in 0 .. 2, d2 \in 0 .. 2, d3 \in 0 .. 2 :
          d0 = d[0] /\ d1 = d[1] /\ d2 = d[2] /\ d3 = d[3]
    BY <1>1
  <2>5. IsFraction(v, r, d0, d1, d2, d3, e)
    BY <1>2, <2>1, <2>4 DEF IsFraction
  <2>6. /\ Ternary!Digit(v, 0) = d0 /\ Ternary!Digit(v, 1) = d1
        /\ Ternary!Digit(v, 2) = d2 /\ Ternary!Digit(v, 3) = d3
        /\ Ternary!Digit(v, 4) = e
    BY <2>5, DigitComesBack
  <2>7. /\ Ternary!Digit(v, 0) = d[0] /\ Ternary!Digit(v, 1) = d[1]
        /\ Ternary!Digit(v, 2) = d[2] /\ Ternary!Digit(v, 3) = d[3]
        /\ Ternary!Digit(v, 4) = e
    BY <2>4, <2>6
  <2>3. \A n \in 0 .. 4 : n = 0 \/ n = 1 \/ n = 2 \/ n = 3 \/ n = 4
    OBVIOUS
  <2> QED
    BY <2>1, <2>3, <2>7
<1>3. /\ Ternary!Appended(Ternary!FourDigits(d), d[4]) = Base3(d, 5) /\ Base3(d, 5) \in 0 .. 242
      /\ Ternary!UInt8(3 * Ternary!FourDigits(d)) = Base3(d, 4) /\ Base3(d, 4) \in 0 .. 242
  BY DigitsMakeANumber
<1>4. /\ Base3(d, 5) = 81 * d[0] + 27 * d[1] + 9 * d[2] + 3 * d[3] + d[4]
      /\ Base3(d, 4) = 81 * d[0] + 27 * d[1] + 9 * d[2] + 3 * d[3] + 0
  BY DEF Base3
<1>5. \A n \in 0 .. 4 : Ternary!Digit(Ternary!Ceiling243(Base3(d, 5)), n) = IF n = 4 THEN d[4] ELSE d[n]
  BY <1>1, <1>2, <1>3, <1>4
<1>6. \A n \in 0 .. 4 : Ternary!Digit(Ternary!Ceiling243(Base3(d, 4)), n) = IF n = 4 THEN 0 ELSE d[n]
  BY <1>2, <1>3, <1>4, SMTT(30)
<1> QED
  BY <1>3, <1>5, <1>6

-----------------------------------------------------------------------------
(* What the encoder has written of the ternary block.                      *)
TernaryInv ==
  /\ ternary \in {"idle", "lanes of 32", "lanes of 16", "fours", "packed"}
  /\ ternary # "idle" => input \in Inputs
  /\ ternary \in {"lanes of 16", "fours", "packed"} =>
       \A b \in 0 .. 31 : qs[b] = Ternary!Packed(b)
  /\ ternary \in {"fours", "packed"} => \A b \in 32 .. 47 : qs[b] = Ternary!Packed(b)
  /\ ternary = "packed" => \A b \in 0 .. 3 : qh[b] = Ternary!PackedFour(b + 48)

LEMMA TernaryInit == Ternary!Init => TernaryInv
BY DEF Ternary!Init, TernaryInv

LEMMA Lanes ==
  /\ \A b \in 0 .. 31 : b \in 0 .. 47 /\ b < 32
  /\ \A b \in 32 .. 47 : b \in 0 .. 47 /\ ~ (b < 32)
OBVIOUS

(* TernaryInv is inductive. *)
LEMMA TernaryStep == TernaryInv /\ [Ternary!Next]_ternaryVars => TernaryInv'
<1> SUFFICES ASSUME TernaryInv, [Ternary!Next]_ternaryVars PROVE TernaryInv'
  OBVIOUS
<1>0. input' = input => \A b : /\ Ternary!Packed(b)' = Ternary!Packed(b)
                               /\ Ternary!PackedFour(b)' = Ternary!PackedFour(b)
  BY DEF Ternary!Packed, Ternary!PackedFour, Ternary!DigitsOf
<1> USE DEF TernaryInv
<1>1. CASE Ternary!PackLanesOf32
  <2>1. /\ ternary = "lanes of 32" /\ ternary' = "lanes of 16" /\ input' = input
        /\ \A b \in 0 .. 31 : qs'[b] = Ternary!Packed(b)
    BY <1>1, Lanes, Zenon DEF Ternary!PackLanesOf32
  <2> QED
    BY <1>0, <2>1
<1>2. CASE Ternary!PackLanesOf16
  <2>1. /\ ternary = "lanes of 16" /\ ternary' = "fours" /\ input' = input
        /\ \A b \in 0 .. 31 : qs'[b] = qs[b]
        /\ \A b \in 32 .. 47 : qs'[b] = Ternary!Packed(b)
    BY <1>2, Lanes, Zenon DEF Ternary!PackLanesOf16
  <2> QED
    BY <1>0, <2>1, ZenonT(60)
<1>3. CASE Ternary!PackFours
  BY <1>0, <1>3 DEF Ternary!PackFours
<1>4. CASE UNCHANGED ternaryVars
  BY <1>0, <1>4 DEF ternaryVars
<1> QED
  BY <1>1, <1>2, <1>3, <1>4 DEF Ternary!Next

(* The encoder and the decoder agree where an element goes.                *)
LEMMA ElementIsFound ==
  ASSUME NEW b \in 0 .. 51, NEW n \in 0 .. 4, b >= 48 => n < 4
  PROVE  Ternary!DecodedElement(Ternary!Element(b, n)) =
           Ternary!Digit(IF b < 48 THEN qs[b] ELSE qh[b - 48], n)
<1>1. CASE b < 32
  <2>1. b + n * 32 < 160 /\ (b + n * 32) % 32 = b /\ (b + n * 32) \div 32 = n
    BY <1>1, Z3
  <2> QED
    BY <1>1, <2>1 DEF Ternary!DecodedElement, Ternary!Element
<1>2. CASE b \in 32 .. 47
  <2> DEFINE e == 5 * 32 + (b - 32) + n * 16
  <2>1. e \in 160 .. 239 /\ 32 + ((e - 160) % 16) = b /\ (e - 160) \div 16 = n
    BY <1>2, Z3
  <2>2. Ternary!Element(b, n) = e /\ b < 48
    BY <1>2 DEF Ternary!Element
  <2> HIDE DEF e
  <2>3. Ternary!DecodedElement(e) = Ternary!Digit(qs[b], n)
    BY <2>1 DEF Ternary!DecodedElement
  <2> QED
    BY <2>2, <2>3
<1>3. CASE b \in 48 .. 51
  <2> DEFINE e == 5 * 32 + 5 * 16 + (b - 48) + n * 4
  <2>1. n \in 0 .. 3
    BY <1>3
  <2>2. e \in 240 .. 255 /\ (e - 240) % 4 = b - 48 /\ (e - 240) \div 4 = n
    BY <1>3, <2>1, Z3
  <2>3. Ternary!Element(b, n) = e /\ ~ (b < 48)
    BY <1>3 DEF Ternary!Element
  <2> HIDE DEF e
  <2>4. Ternary!DecodedElement(e) = Ternary!Digit(qh[b - 48], n)
    BY <2>2 DEF Ternary!DecodedElement
  <2> QED
    BY <2>3, <2>4
<1> QED
  BY <1>1, <1>2, <1>3

(* All digits come back. *)
LEMMA TernaryComesBack == TernaryInv => Ternary!DigitsComeBack
<1> SUFFICES ASSUME TernaryInv, ternary = "packed",
                    NEW b \in 0 .. 51, NEW n \in 0 .. (IF b < 48 THEN 4 ELSE 3)
             PROVE  Ternary!DecodedElement(Ternary!Element(b, n)) = Ternary!DigitsOf(b)[n]
  BY DEF Ternary!DigitsComeBack
<1>1. n \in 0 .. 4 /\ (b >= 48 => n \in 0 .. 3)
  OBVIOUS
<1>2. Ternary!DecodedElement(Ternary!Element(b, n)) =
        Ternary!Digit(IF b < 48 THEN qs[b] ELSE qh[b - 48], n)
  BY <1>1, ElementIsFound
<1>3. Ternary!DigitsOf(b) \in [0 .. 4 -> 0 .. 2]
  BY KernelsAssumption DEF Ternary!TernaryConstants, TernaryInv, Ternary!DigitsOf, Ternary!Digits
<1>4. CASE b < 48
  <2>1. qs[b] = Ternary!Packed(b)
    BY <1>4 DEF TernaryInv
  <2> QED
    BY <1>1, <1>2, <1>3, <1>4, <2>1, ByteComesBack DEF Ternary!Packed
<1>5. CASE b >= 48
  <2>1. b - 48 \in 0 .. 3 /\ (b - 48) + 48 = b
    BY <1>5
  <2>2. qh[b - 48] = Ternary!PackedFour(b)
    BY <2>1 DEF TernaryInv
  <2> QED
    BY <1>1, <1>2, <1>3, <1>5, <2>2, ByteComesBack DEF Ternary!PackedFour
<1> QED
  BY <1>4, <1>5

(* Bits *)

(* A shift to the left moves every bit up. *)
LEMMA LeftHas ==
  ASSUME NEW s \in SUBSET Nat, NEW n \in Nat, NEW x \in Nat
  PROVE  x \in Block!Left(s, n) <=> x >= n /\ x - n \in s
<1>1. ASSUME x \in Block!Left(s, n) PROVE x >= n /\ x - n \in s
  <2>1. PICK c \in s : x = c + n
    BY <1>1 DEF Block!Left
  <2>2. c \in Nat /\ x - n = c /\ x >= n
    BY <2>1
  <2> QED
    BY <2>2
<1>2. ASSUME x >= n, x - n \in s PROVE x \in Block!Left(s, n)
  <2>1. x = (x - n) + n
    OBVIOUS
  <2> QED
    BY <1>2, <2>1 DEF Block!Left
<1> QED
  BY <1>1, <1>2

(* A shift to the right moves every bit down, and drops the low ones. *)
LEMMA RightHas ==
  ASSUME NEW s \in SUBSET Nat, NEW n \in Nat, NEW x \in Nat
  PROVE  x \in Block!Right(s, n) <=> x + n \in s
<1>1. ASSUME x \in Block!Right(s, n) PROVE x + n \in s
  <2>1. PICK c \in s : x = c - n
    BY <1>1 DEF Block!Right
  <2>2. c \in Nat /\ x + n = c
    BY <2>1
  <2> QED
    BY <2>2
<1>2. ASSUME x + n \in s PROVE x \in Block!Right(s, n)
  <2>1. x = (x + n) - n /\ x + n >= n
    OBVIOUS
  <2> QED
    BY <1>2, <2>1 DEF Block!Right
<1> QED
  BY <1>1, <1>2

LEMMA ShiftsAreBits ==
  ASSUME NEW s \in SUBSET Nat, NEW n \in Nat
  PROVE  Block!Left(s, n) \subseteq Nat /\ Block!Right(s, n) \subseteq Nat
<1>1. \A c \in s : c + n \in Nat /\ (c >= n => c - n \in Nat)
  OBVIOUS
<1> QED
  BY <1>1 DEF Block!Left, Block!Right

LEMMA Lows ==
  /\ Block!Byte = 0 .. 7 /\ Block!Low(2) = 0 .. 1 /\ Block!Low(4) = 0 .. 3
  /\ Block!Low(6) = 0 .. 5
BY DEF Block!Byte, Block!Low

(* A number of four bits, moved to the upper half of a byte. *)
LEMMA UpperFour ==
  ASSUME NEW t \in SUBSET (0 .. 3)
  PROVE  /\ Block!Left(t, 4) \in SUBSET (0 .. 7)
         /\ \A b \in 0 .. 7 : b \in Block!Left(t, 4) <=> b >= 4 /\ b - 4 \in t
<1>1. t \in SUBSET Nat /\ 4 \in Nat /\ \A b \in 0 .. 7 : b \in Nat
  OBVIOUS
<1>2. \A c \in t : c + 4 \in 0 .. 7
  OBVIOUS
<1> QED
  BY <1>1, <1>2, LeftHas DEF Block!Left

(* Two numbers of four bits in a byte. *)
LEMMA TwoFours ==
  ASSUME NEW s \in SUBSET (0 .. 3), NEW t \in SUBSET (0 .. 3), NEW b \in 0 .. 7
  PROVE  /\ b \in s \union Block!Left(t, 4) <=> IF b < 4 THEN b \in s ELSE b - 4 \in t
         /\ s \union Block!Left(t, 4) \subseteq 0 .. 7
<1>1. s \in SUBSET Nat /\ t \in SUBSET Nat /\ b \in Nat
  OBVIOUS
<1>2. b \in Block!Left(t, 4) <=> b >= 4 /\ b - 4 \in t
  BY <1>1, LeftHas
<1>3. \A c \in t : c + 4 \in 0 .. 7
  OBVIOUS
<1>4. Block!Left(t, 4) \subseteq 0 .. 7
  BY <1>3 DEF Block!Left
<1>5. (b \in s => b < 4) /\ (b - 4 \in t => b >= 4)
  OBVIOUS
<1>6. s \subseteq 0 .. 7
  OBVIOUS
<1>7. b < 4 \/ b >= 4
  OBVIOUS
<1>8. ~ (b < 4 /\ b >= 4)
  OBVIOUS
<1>9. b \in s \union Block!Left(t, 4) <=> IF b < 4 THEN b \in s ELSE b - 4 \in t
  BY <1>2, <1>5, <1>7, <1>8
<1> QED
  BY <1>4, <1>6, <1>9

(* Four numbers of two bits in a byte. *)
LEMMA FourTwos ==
  ASSUME NEW s \in SUBSET (0 .. 1), NEW t \in SUBSET (0 .. 1),
         NEW u \in SUBSET (0 .. 1), NEW v \in SUBSET (0 .. 1), NEW b \in 0 .. 7
  PROVE  LET byte == s \union Block!Left(t, 2) \union Block!Left(u, 4) \union Block!Left(v, 6)
         IN  /\ byte \in SUBSET (0 .. 7)
             /\ b \div 2 = 0 => (b \in byte <=> (b % 2) \in s)
             /\ b \div 2 = 1 => (b \in byte <=> (b % 2) \in t)
             /\ b \div 2 = 2 => (b \in byte <=> (b % 2) \in u)
             /\ b \div 2 = 3 => (b \in byte <=> (b % 2) \in v)
<1>1. b \in Nat /\ s \in SUBSET Nat /\ t \in SUBSET Nat /\ u \in SUBSET Nat /\ v \in SUBSET Nat
  OBVIOUS
<1>2. /\ b \in Block!Left(t, 2) <=> b >= 2 /\ b - 2 \in t
      /\ b \in Block!Left(u, 4) <=> b >= 4 /\ b - 4 \in u
      /\ b \in Block!Left(v, 6) <=> b >= 6 /\ b - 6 \in v
  BY <1>1, LeftHas
<1>3. \A n \in {2, 4, 6} : \A c \in 0 .. 1 : c + n \in 0 .. 7
  OBVIOUS
<1>4. /\ Block!Left(t, 2) \subseteq 0 .. 7 /\ Block!Left(u, 4) \subseteq 0 .. 7
      /\ Block!Left(v, 6) \subseteq 0 .. 7 /\ s \subseteq 0 .. 7
  BY <1>3 DEF Block!Left
<1>5. /\ b \div 2 = 0 => b \in {0, 1} /\ b % 2 = b
      /\ b \div 2 = 1 => b \in {2, 3} /\ b % 2 = b - 2
      /\ b \div 2 = 2 => b \in {4, 5} /\ b % 2 = b - 4
      /\ b \div 2 = 3 => b \in {6, 7} /\ b % 2 = b - 6
  BY Z3
<1>6. /\ b \in s => b \in {0, 1}
      /\ b - 2 \in t => b \in {2, 3}
      /\ b - 4 \in u => b \in {4, 5}
      /\ b - 6 \in v => b \in {6, 7}
  OBVIOUS
<1>7. /\ b \in {2, 3} => b >= 2 /\ b \notin {0, 1} /\ b \notin {4, 5} /\ b \notin {6, 7}
      /\ b \in {4, 5} => b >= 4 /\ b \notin {0, 1} /\ b \notin {6, 7}
      /\ b \in {6, 7} => b >= 6 /\ b \notin {0, 1}
  OBVIOUS
<1> QED
  BY <1>2, <1>4, <1>5, <1>6, <1>7

(* What fits a number of a format. *)
LEMMA Widths ==
  ASSUME NEW i
  PROVE  /\ format = "Q5_0" => Block!L(i) \subseteq 0 .. 4
         /\ format = "Q2_K" => /\ Block!Scale(i) \subseteq 0 .. 3 /\ Block!Minimum(i) \subseteq 0 .. 3
                               /\ Block!L(i) \subseteq 0 .. 1
         /\ format = "Q3_K" => Block!Scale(i) \subseteq 0 .. 5 /\ Block!L(i) \subseteq 0 .. 2
         /\ format \in {"Q4_K", "Q5_K"} =>
              Block!Scale(i) \subseteq 0 .. 5 /\ Block!Minimum(i) \subseteq 0 .. 5
         /\ format = "Q4_K" => Block!L(i) \subseteq 0 .. 3
         /\ format = "Q5_K" => Block!L(i) \subseteq 0 .. 4
         /\ format = "Q6_K" => Block!L(i) \subseteq 0 .. 5
         /\ format = "IQ4_XS" => Block!Scale(i) \subseteq 0 .. 5 /\ Block!L(i) \subseteq 0 .. 3
<1> USE DEF Block!Scale, Block!Minimum, Block!L, Block!Number, Block!Low, Block!Numbers
<1>1. CASE format = "Q5_0"
  BY <1>1
<1>2. CASE format = "Q2_K"
  BY <1>2
<1>3. CASE format = "Q3_K"
  BY <1>3
<1>4. CASE format = "Q4_K"
  BY <1>4
<1>5. CASE format = "Q5_K"
  BY <1>5
<1>6. CASE format = "Q6_K"
  BY <1>6
<1>7. CASE format = "IQ4_XS"
  BY <1>7
<1> QED
  BY <1>1, <1>2, <1>3, <1>4, <1>5, <1>6, <1>7, ZenonT(60)

-----------------------------------------------------------------------------
(* The loops of the scales *)

(* The scale whose bits Q3_K keeps in a bit. *)
ScaleOfBit(i, b) == IF i < 8 THEN i + 8 * (b \div 4) ELSE i - 8 + 4 * (b \div 2)

(* The fields of scales after n rounds. *)
LoopQ2K(n) ==
  /\ block.scales \in [0 .. 15 -> SUBSET (0 .. 7)]
  /\ \A i \in 0 .. 15 : i < n => block.scales[i] = Block!Scale(i)

LoopQ3K(n) ==
  /\ block.scales \in [0 .. 11 -> SUBSET (0 .. 7)]
  /\ \A i \in 0 .. 11, b \in 0 .. 7 :
       b \in block.scales[i] <=> ScaleOfBit(i, b) < n /\ Block!ScaleBit(i, b)

LoopK4(n) ==
  /\ block.scales \in [0 .. 11 -> SUBSET (0 .. 7)]
  /\ \A i \in 0 .. 3, b \in 0 .. 7 :
       /\ i < n =>
            /\ b \in block.scales[i] <=>
                 IF b < 6 THEN b \in Block!Scale(i)
                          ELSE i + 4 < n /\ b - 2 \in Block!Scale(i + 4)
            /\ b \in block.scales[i + 4] <=>
                 IF b < 6 THEN b \in Block!Minimum(i)
                          ELSE i + 4 < n /\ b - 2 \in Block!Minimum(i + 4)
       /\ i + 4 < n =>
            (b \in block.scales[i + 8] <=>
               IF b < 4 THEN b \in Block!Scale(i + 4) ELSE b - 4 \in Block!Minimum(i + 4))

LoopIQ4XS(n) ==
  /\ block.scales_l \in [0 .. 3 -> SUBSET (0 .. 7)]
  /\ block.scales_h \in [0 .. 1 -> SUBSET (0 .. 7)]
  /\ \A i \in 0 .. 3, b \in 0 .. 7 :
       2 * i < n => (b \in block.scales_l[i] <=>
         2 * i + (b \div 4) < n /\ (b % 4) \in Block!Scale(2 * i + (b \div 4)))
  /\ \A i \in 0 .. 1, b \in 0 .. 7 :
       b \in block.scales_h[i] <=>
         4 * i + (b \div 2) < n /\ (4 + (b % 2)) \in Block!Scale(4 * i + (b \div 2))

(* A bit of a byte, as the nibble or the pair of bits it lies in. *)
LEMMA BitPlaces ==
  ASSUME NEW b \in 0 .. 7
  PROVE  /\ b < 4 => b \div 4 = 0 /\ b % 4 = b
         /\ b >= 4 => b \div 4 = 1 /\ b % 4 = b - 4
         /\ b \div 2 \in 0 .. 3 /\ b % 2 \in 0 .. 1 /\ b = 2 * (b \div 2) + (b % 2)
BY Z3

(* The upper two bits of six, moved to the pair q of a byte. *)
LEMMA UpperPair ==
  ASSUME NEW s \in SUBSET (0 .. 5), NEW q \in Nat, NEW x \in Nat
  PROVE  x \in Block!Left(Block!Right(s, 4), 2 * q) <=>
           x \in {2 * q, 2 * q + 1} /\ 4 + (x - 2 * q) \in s
<1>0. s \in SUBSET Nat /\ 2 * q \in Nat /\ 4 \in Nat
  OBVIOUS
<1>1. Block!Right(s, 4) \in SUBSET Nat
  BY <1>0, ShiftsAreBits
<1>2. x \in Block!Left(Block!Right(s, 4), 2 * q) <=>
        x >= 2 * q /\ x - 2 * q \in Block!Right(s, 4)
  BY <1>0, <1>1, LeftHas
<1>3. x >= 2 * q => (x - 2 * q \in Block!Right(s, 4) <=> (x - 2 * q) + 4 \in s)
  <2>1. x >= 2 * q => x - 2 * q \in Nat
    OBVIOUS
  <2> QED
    BY <1>0, <2>1, RightHas
<1>4. x >= 2 * q => (x - 2 * q) + 4 = 4 + (x - 2 * q)
  OBVIOUS
<1>5. 4 + (x - 2 * q) \in s => 4 + (x - 2 * q) \in 0 .. 5
  OBVIOUS
<1> QED
  BY <1>2, <1>3, <1>4, <1>5

(* A byte of a field is assigned. *)
LEMMA ByteBecomes ==
  ASSUME NEW n \in Nat, NEW f \in [0 .. n -> SUBSET (0 .. 7)], NEW i \in 0 .. n,
         NEW v \in SUBSET (0 .. 7)
  PROVE  /\ [f EXCEPT ![i] = v] \in [0 .. n -> SUBSET (0 .. 7)]
         /\ \A k \in 0 .. n : [f EXCEPT ![i] = v][k] = IF k = i THEN v ELSE f[k]
OBVIOUS

(* A round of the loop of Q3_K places its scale and no other. *)
LEMMA Q3KScaleStep ==
  ASSUME format = "Q3_K", loop \in 0 .. 15, LoopQ3K(loop)
  PROVE  LET new == Block!ScaleQ3K.scales IN
         /\ new \in [0 .. 11 -> SUBSET (0 .. 7)]
         /\ \A i \in 0 .. 11, b \in 0 .. 7 :
              b \in new[i] <=> ScaleOfBit(i, b) < loop + 1 /\ Block!ScaleBit(i, b)
<1> DEFINE S == Block!Scale(loop)
           low == S \intersect (0 .. 3)
           old == block.scales
           halves == IF loop < 8 THEN [old EXCEPT ![loop] = low]
                     ELSE [old EXCEPT ![loop - 8] = @ \union Block!Left(low, 4)]
           high == Block!Left(Block!Right(S, 4), 2 * (loop \div 4))
           new == Block!ScaleQ3K.scales
<1>1. S \subseteq 0 .. 5
  BY Widths
<1>2. PICK q \in 0 .. 3, m \in 0 .. 3 : q = loop \div 4 /\ m = loop % 4 /\ loop = 4 * q + m
  <2>1. (loop \div 4) \in 0 .. 3 /\ (loop % 4) \in 0 .. 3 /\ loop = 4 * (loop \div 4) + (loop % 4)
    BY Z3
  <2> QED
    BY <2>1
<1>3. new = [halves EXCEPT ![8 + m] = (@ \union high) \intersect (0 .. 7)]
  BY <1>2, Lows DEF Block!ScaleQ3K, Block!Stored
<1> HIDE DEF new
<1>4. old \in [0 .. 11 -> SUBSET (0 .. 7)]
  BY DEF LoopQ3K
<1>5. \A b \in 0 .. 7 : b \in high <=> b \in {2 * q, 2 * q + 1} /\ 4 + (b - 2 * q) \in S
  BY <1>1, <1>2, UpperPair
<1>6. low \in SUBSET (0 .. 3) /\ Block!Left(low, 4) \subseteq 0 .. 7
      /\ \A b \in 0 .. 7 : b \in Block!Left(low, 4) <=> b >= 4 /\ b - 4 \in S
  <2>1. low \in SUBSET (0 .. 3)
    OBVIOUS
  <2>2. \A b \in 0 .. 7 : b >= 4 => (b - 4 \in low <=> b - 4 \in S)
    OBVIOUS
  <2> HIDE DEF low
  <2>3. /\ Block!Left(low, 4) \in SUBSET (0 .. 7)
        /\ \A b \in 0 .. 7 : b \in Block!Left(low, 4) <=> b >= 4 /\ b - 4 \in low
    BY <2>1, UpperFour
  <2> QED
    BY <2>1, <2>2, <2>3
<1> HIDE DEF high
<1>7. /\ halves \in [0 .. 11 -> SUBSET (0 .. 7)]
      /\ \A i \in 8 .. 11 : halves[i] = old[i]
      /\ \A i \in 0 .. 7 : halves[i] = IF i = loop THEN low
                                       ELSE IF i = loop - 8 THEN old[i] \union Block!Left(low, 4)
                                       ELSE old[i]
  <2>1. low \in SUBSET (0 .. 7) /\ Block!Left(low, 4) \in SUBSET (0 .. 7)
    BY <1>6
  <2> HIDE DEF low
  <2>2. CASE loop < 8
    BY <1>4, <2>1, <2>2
  <2>3. CASE loop >= 8
    <3>1. loop - 8 \in 0 .. 11 /\ 11 \in Nat /\ loop \in Nat /\ ~ (loop < 8)
      BY <2>3
    <3>2. old[loop - 8] \union Block!Left(low, 4) \in SUBSET (0 .. 7)
      BY <1>4, <2>1, <3>1
    <3>3. halves = [old EXCEPT ![loop - 8] = old[loop - 8] \union Block!Left(low, 4)]
      BY <3>1
    <3>4. /\ halves \in [0 .. 11 -> SUBSET (0 .. 7)]
          /\ \A k \in 0 .. 11 : halves[k] = IF k = loop - 8 THEN old[loop - 8] \union Block!Left(low, 4)
                                              ELSE old[k]
      BY <1>4, <3>1, <3>2, <3>3, ByteBecomes
    <3>5. \A i \in 0 .. 11 : (i \in 8 .. 11 => i # loop - 8) /\ (i \in 0 .. 7 => i # loop)
      BY <2>3
    <3>6. (\A i \in 0 .. 7 : i \in 0 .. 11) /\ (\A i \in 8 .. 11 : i \in 0 .. 11)
      OBVIOUS
    <3> HIDE DEF halves
    <3> QED
      BY <3>4, <3>5, <3>6
  <2> QED
    BY <2>2, <2>3
<1> HIDE DEF halves
<1> DEFINE v == (old[8 + m] \union high) \intersect (0 .. 7)
<1>20. 8 + m \in 8 .. 11 /\ 8 + m \in 0 .. 11 /\ 11 \in Nat /\ v \in SUBSET (0 .. 7)
  OBVIOUS
<1>21. new = [halves EXCEPT ![8 + m] = v]
  BY <1>3, <1>7, <1>20
<1>22. new \in [0 .. 11 -> SUBSET (0 .. 7)]
       /\ \A k \in 0 .. 11 : new[k] = IF k = 8 + m THEN v ELSE halves[k]
  <2> HIDE DEF v
  <2> QED
    BY <1>7, <1>20, <1>21, ByteBecomes
<1>8. new \in [0 .. 11 -> SUBSET (0 .. 7)]
  BY <1>22
<1>23. (\A i \in 0 .. 7 : i \in 0 .. 11 /\ i # 8 + m) /\ (\A i \in 8 .. 11 : i \in 0 .. 11)
  OBVIOUS
<1>9. \A i \in 0 .. 7 : new[i] = halves[i]
  BY <1>22, <1>23
<1>10. \A i \in 8 .. 11 : new[i] = IF i = 8 + m THEN (old[i] \union high) \intersect (0 .. 7) ELSE old[i]
  BY <1>7, <1>22, <1>23
<1>11. ASSUME NEW i \in 0 .. 7, NEW b \in 0 .. 7
       PROVE  b \in new[i] <=> ScaleOfBit(i, b) < loop + 1 /\ Block!ScaleBit(i, b)
  <2>1. Block!ScaleBit(i, b) <=> (b % 4) \in Block!Scale(i + 8 * (b \div 4))
    BY DEF Block!ScaleBit
  <2>2. ScaleOfBit(i, b) = i + 8 * (b \div 4)
    BY DEF ScaleOfBit
  <2>3. b \in old[i] <=> ScaleOfBit(i, b) < loop /\ Block!ScaleBit(i, b)
    BY DEF LoopQ3K
  <2>4. CASE b < 4
    <3>1. b \div 4 = 0 /\ b % 4 = b
      BY <2>4, BitPlaces
    <3>2. i + 8 * 0 = i /\ (b \in low <=> b \in S) /\ (i < loop + 1 <=> i < loop \/ i = loop)
          /\ ~ (loop < loop)
      BY <2>4
    <3>3. ~ (b \in Block!Left(low, 4))
      BY <1>6, <2>4
    <3> HIDE DEF low
    <3>4. b \in new[i] <=> IF i = loop THEN b \in S ELSE b \in old[i]
      BY <1>7, <1>9, <3>2, <3>3
    <3> QED
      BY <2>1, <2>2, <2>3, <3>1, <3>2, <3>4
  <2>5. CASE b >= 4
    <3>1. b \div 4 = 1 /\ b % 4 = b - 4
      BY <2>5, BitPlaces
    <3>2. i + 8 * 1 = i + 8 /\ ~ (b \in low)
      BY <2>5
    <3>3. i + 8 = loop <=> i = loop - 8
      OBVIOUS
    <3> HIDE DEF low
    <3> QED
      BY <1>6, <1>7, <1>9, <2>1, <2>2, <2>3, <2>5, <3>1, <3>2, <3>3
  <2> QED
    BY <2>4, <2>5
<1>12. ASSUME NEW i \in 8 .. 11, NEW b \in 0 .. 7
       PROVE  b \in new[i] <=> ScaleOfBit(i, b) < loop + 1 /\ Block!ScaleBit(i, b)
  <2> DEFINE k == i - 8 + 4 * (b \div 2)
  <2>1. Block!ScaleBit(i, b) <=> (4 + (b % 2)) \in Block!Scale(k)
    BY DEF Block!ScaleBit
  <2>2. ScaleOfBit(i, b) = k
    BY DEF ScaleOfBit
  <2>3. b \in old[i] <=> k < loop /\ Block!ScaleBit(i, b)
    BY <2>2 DEF LoopQ3K
  <2>4. k \in Nat /\ b \div 2 \in 0 .. 3 /\ b % 2 \in 0 .. 1 /\ b = 2 * (b \div 2) + (b % 2)
    BY BitPlaces
  <2>5. k = loop <=> i = 8 + m /\ b \div 2 = q
    BY <1>2, <2>4
  <2>6. b \div 2 = q <=> b \in {2 * q, 2 * q + 1}
    BY <1>2, <2>4
  <2>7. b \div 2 = q => 4 + (b - 2 * q) = 4 + (b % 2)
    BY <1>2, <2>4
  <2> HIDE DEF k
  <2>8. CASE i = 8 + m
    <3>1. b \in new[i] <=> b \in old[i] \/ b \in high
      BY <1>10, <2>8
    <3>2. b \in high <=> b \div 2 = q /\ (4 + (b % 2)) \in S
      BY <1>5, <2>6, <2>7
    <3> QED
      BY <2>1, <2>2, <2>3, <2>4, <2>5, <2>8, <3>1, <3>2
  <2>9. CASE i # 8 + m
    BY <1>10, <2>2, <2>3, <2>4, <2>5, <2>9
  <2> QED
    BY <2>8, <2>9
<1> QED
  BY <1>8, <1>11, <1>12 DEF new

LEMMA TopPair ==
  ASSUME NEW s \in SUBSET (0 .. 5), NEW b \in 0 .. 7
  PROVE  b \in Block!Left(Block!Right(s, 4), 6) <=> b >= 6 /\ b - 2 \in s
<1>1. b \in Nat /\ 3 \in Nat /\ 2 * 3 = 6
  OBVIOUS
<1>2. b \in Block!Left(Block!Right(s, 4), 2 * 3) <=> b \in {2 * 3, 2 * 3 + 1} /\ 4 + (b - 2 * 3) \in s
  BY <1>1, UpperPair
<1>3. (b \in {2 * 3, 2 * 3 + 1} <=> b >= 6) /\ 4 + (b - 2 * 3) = b - 2
  OBVIOUS
<1> QED
  BY <1>1, <1>2, <1>3

(* A round of the loop of Q4_K and Q5_K places its scale and its minimum. *)
LEMMA K4ScaleStep ==
  ASSUME format \in {"Q4_K", "Q5_K"}, loop \in 0 .. 7, LoopK4(loop)
  PROVE  LET new == Block!ScaleMinK4.scales IN
         /\ new \in [0 .. 11 -> SUBSET (0 .. 7)]
         /\ \A i \in 0 .. 3, b \in 0 .. 7 :
              /\ i < loop + 1 =>
                   /\ b \in new[i] <=>
                        IF b < 6 THEN b \in Block!Scale(i)
                                 ELSE i + 4 < loop + 1 /\ b - 2 \in Block!Scale(i + 4)
                   /\ b \in new[i + 4] <=>
                        IF b < 6 THEN b \in Block!Minimum(i)
                                 ELSE i + 4 < loop + 1 /\ b - 2 \in Block!Minimum(i + 4)
              /\ i + 4 < loop + 1 =>
                   (b \in new[i + 8] <=>
                      IF b < 4 THEN b \in Block!Scale(i + 4) ELSE b - 4 \in Block!Minimum(i + 4))
<1> DEFINE S == Block!Scale(loop)
           M == Block!Minimum(loop)
           old == block.scales
           new == Block!ScaleMinK4.scales
<1>1. S \in SUBSET (0 .. 5) /\ M \in SUBSET (0 .. 5)
  BY Widths
<1>2. old \in [0 .. 11 -> SUBSET (0 .. 7)]
  BY DEF LoopK4
<1>3. 11 \in Nat /\ loop \in Nat /\ 0 .. 5 \subseteq 0 .. 7
  OBVIOUS
<1>4. CASE loop < 4
  <2>1. loop \in 0 .. 11 /\ loop + 4 \in 0 .. 11
        /\ (\A k \in 0 .. 3 : k \in 0 .. 11 /\ k + 4 \in 0 .. 11 /\ k # loop + 4
                              /\ (k + 4 = loop + 4 <=> k = loop))
        /\ (\A k \in 0 .. 3 : k + 4 # loop)
    BY <1>4
  <2> DEFINE first == [old EXCEPT ![loop] = S]
  <2>2. new = [first EXCEPT ![loop + 4] = M]
    BY <1>4 DEF Block!ScaleMinK4
  <2> HIDE DEF new
  <2>3. first \in [0 .. 11 -> SUBSET (0 .. 7)]
        /\ \A k \in 0 .. 11 : first[k] = IF k = loop THEN S ELSE old[k]
    BY <1>1, <1>2, <1>3, <2>1, ByteBecomes
  <2> HIDE DEF first
  <2>4. new \in [0 .. 11 -> SUBSET (0 .. 7)]
        /\ \A k \in 0 .. 11 : new[k] = IF k = loop + 4 THEN M ELSE first[k]
    BY <1>1, <1>3, <2>1, <2>2, <2>3, ByteBecomes
  <2>5. \A k \in 0 .. 3 : /\ new[k] = IF k = loop THEN S ELSE old[k]
                          /\ new[k + 4] = IF k = loop THEN M ELSE old[k + 4]
    BY <2>1, <2>3, <2>4
  <2>6. ASSUME NEW i \in 0 .. 3, NEW b \in 0 .. 7
        PROVE  /\ i < loop + 1 =>
                   /\ b \in new[i] <=>
                        IF b < 6 THEN b \in Block!Scale(i)
                                 ELSE i + 4 < loop + 1 /\ b - 2 \in Block!Scale(i + 4)
                   /\ b \in new[i + 4] <=>
                        IF b < 6 THEN b \in Block!Minimum(i)
                                 ELSE i + 4 < loop + 1 /\ b - 2 \in Block!Minimum(i + 4)
               /\ ~ (i + 4 < loop + 1)
    <3>1. ~ (i + 4 < loop + 1) /\ ~ (i + 4 < loop) /\ (i < loop + 1 <=> i < loop \/ i = loop)
          /\ ~ (loop < loop)
      BY <1>4
    <3>2. (b \in S => b < 6) /\ (b \in M => b < 6)
      BY <1>1
    <3>3. i < loop => /\ b \in old[i] <=> IF b < 6 THEN b \in Block!Scale(i) ELSE FALSE
                      /\ b \in old[i + 4] <=> IF b < 6 THEN b \in Block!Minimum(i) ELSE FALSE
      BY <3>1 DEF LoopK4
    <3> QED
      BY <2>5, <3>1, <3>2, <3>3
  <2> QED
    BY <2>4, <2>6 DEF new
<1>5. CASE loop >= 4
  <2> DEFINE lows == (S \intersect (0 .. 3)) \union Block!Left(M \intersect (0 .. 3), 4)
             SU == Block!Left(Block!Right(S, 4), 6)
             MU == Block!Left(Block!Right(M, 4), 6)
             first == [old EXCEPT ![loop + 4] = lows]
             sv == (old[loop - 4] \union SU) \intersect (0 .. 7)
             mv == (old[loop] \union MU) \intersect (0 .. 7)
             second == [first EXCEPT ![loop - 4] = sv]
  <2>1. /\ loop \in 0 .. 11 /\ loop + 4 \in 0 .. 11 /\ loop - 4 \in 0 .. 11
        /\ loop # loop - 4 /\ loop # loop + 4 /\ loop - 4 # loop + 4
    BY <1>5
  <2>2. ~ (loop < 4)
    BY <1>5
  <2>3. S \intersect (0 .. 3) \in SUBSET (0 .. 3) /\ M \intersect (0 .. 3) \in SUBSET (0 .. 3)
    OBVIOUS
  <2>4. lows \in SUBSET (0 .. 7)
        /\ \A b \in 0 .. 7 : b \in lows <=> IF b < 4 THEN b \in S \intersect (0 .. 3)
                                            ELSE b - 4 \in M \intersect (0 .. 3)
    <3>1. \A b \in 0 .. 7 : /\ b \in lows <=> IF b < 4 THEN b \in S \intersect (0 .. 3)
                                                ELSE b - 4 \in M \intersect (0 .. 3)
                            /\ lows \subseteq 0 .. 7
      BY <2>3, TwoFours
    <3>2. 0 \in 0 .. 7
      OBVIOUS
    <3> HIDE DEF lows
    <3> QED
      BY <3>1, <3>2
  <2>5. \A b \in 0 .. 7 : (b \in SU <=> b >= 6 /\ b - 2 \in S) /\ (b \in MU <=> b >= 6 /\ b - 2 \in M)
    BY <1>1, TopPair
  <2>6. sv \in SUBSET (0 .. 7) /\ mv \in SUBSET (0 .. 7)
    OBVIOUS
  <2>7. new = [second EXCEPT ![loop] = (second[loop] \union MU) \intersect (0 .. 7)]
        /\ second = [first EXCEPT ![loop - 4] = (first[loop - 4] \union SU) \intersect (0 .. 7)]
    <3> HIDE DEF S, M
    <3>1. Block!ScaleMinK4.scales = [block.scales EXCEPT
            ![loop + 4] = (S \intersect (0 .. 3)) \union Block!Left(M \intersect (0 .. 3), 4),
            ![loop - 4] = (@ \union SU) \intersect (0 .. 7),
            ![loop] = (@ \union MU) \intersect (0 .. 7)]
      BY <2>2, Lows DEF Block!ScaleMinK4, S, M, Block!Stored
    <3>2. first[loop - 4] = old[loop - 4]
      BY <1>2, <2>1
    <3> QED
      BY <1>2, <2>1, <3>1, <3>2
  <2> HIDE DEF new
  <2>8. first \in [0 .. 11 -> SUBSET (0 .. 7)]
        /\ \A k \in 0 .. 11 : first[k] = IF k = loop + 4 THEN lows ELSE old[k]
    <3> HIDE DEF lows
    <3> QED
      BY <1>2, <1>3, <2>1, <2>4, ByteBecomes
  <2> HIDE DEF first, lows, sv, mv, SU, MU
  <2>9. second \in [0 .. 11 -> SUBSET (0 .. 7)]
        /\ \A k \in 0 .. 11 : second[k] = IF k = loop - 4 THEN sv ELSE first[k]
    BY <1>3, <2>1, <2>6, <2>8, ByteBecomes
  <2> HIDE DEF second
  <2>10. new = [second EXCEPT ![loop] = mv]
    BY <2>1, <2>7, <2>8, <2>9 DEF mv
  <2>11. new \in [0 .. 11 -> SUBSET (0 .. 7)]
         /\ \A k \in 0 .. 11 : new[k] = IF k = loop THEN mv ELSE second[k]
    BY <1>3, <2>1, <2>6, <2>9, <2>10, ByteBecomes
  <2>12. \A k \in 0 .. 3 :
           /\ new[k] = IF k + 4 = loop THEN (old[k] \union SU) \intersect (0 .. 7) ELSE old[k]
           /\ new[k + 4] = IF k + 4 = loop THEN (old[k + 4] \union MU) \intersect (0 .. 7) ELSE old[k + 4]
           /\ new[k + 8] = IF k + 4 = loop THEN lows ELSE old[k + 8]
    <3> SUFFICES ASSUME NEW k \in 0 .. 3
                 PROVE  /\ new[k] = IF k + 4 = loop THEN (old[k] \union SU) \intersect (0 .. 7) ELSE old[k]
                        /\ new[k + 4] = IF k + 4 = loop THEN (old[k + 4] \union MU) \intersect (0 .. 7) ELSE old[k + 4]
                        /\ new[k + 8] = IF k + 4 = loop THEN lows ELSE old[k + 8]
      OBVIOUS
    <3>1. /\ k \in 0 .. 11 /\ k + 4 \in 0 .. 11 /\ k + 8 \in 0 .. 11
          /\ k # loop /\ k # loop + 4 /\ (k = loop - 4 <=> k + 4 = loop)
          /\ k + 4 # loop - 4 /\ k + 4 # loop + 4
          /\ k + 8 # loop /\ k + 8 # loop - 4 /\ (k + 8 = loop + 4 <=> k + 4 = loop)
      BY <1>5
    <3> QED
      BY <2>8, <2>9, <2>11, <3>1 DEF sv, mv
  <2>13. ASSUME NEW i \in 0 .. 3, NEW b \in 0 .. 7
         PROVE  /\ b \in new[i] <=>
                     IF b < 6 THEN b \in Block!Scale(i)
                              ELSE i + 4 < loop + 1 /\ b - 2 \in Block!Scale(i + 4)
                /\ b \in new[i + 4] <=>
                     IF b < 6 THEN b \in Block!Minimum(i)
                              ELSE i + 4 < loop + 1 /\ b - 2 \in Block!Minimum(i + 4)
                /\ i + 4 < loop + 1 =>
                     (b \in new[i + 8] <=>
                        IF b < 4 THEN b \in Block!Scale(i + 4) ELSE b - 4 \in Block!Minimum(i + 4))
    <3>1. i < loop /\ (i + 4 < loop + 1 <=> i + 4 < loop \/ i + 4 = loop) /\ ~ (loop < loop)
          /\ (b >= 6 <=> ~ (b < 6))
      BY <1>5
    <3>2. (b < 4 => b \in 0 .. 3) /\ (~ (b < 4) => b - 4 \in 0 .. 3)
      OBVIOUS
    <3>3. /\ b \in old[i] <=> IF b < 6 THEN b \in Block!Scale(i)
                              ELSE i + 4 < loop /\ b - 2 \in Block!Scale(i + 4)
          /\ b \in old[i + 4] <=> IF b < 6 THEN b \in Block!Minimum(i)
                                  ELSE i + 4 < loop /\ b - 2 \in Block!Minimum(i + 4)
          /\ i + 4 < loop => (b \in old[i + 8] <=>
               IF b < 4 THEN b \in Block!Scale(i + 4) ELSE b - 4 \in Block!Minimum(i + 4))
      BY <3>1 DEF LoopK4
    <3>4. (b \in SU <=> b >= 6 /\ b - 2 \in S) /\ (b \in MU <=> b >= 6 /\ b - 2 \in M)
      BY <2>5
    <3>5. b \in lows <=> IF b < 4 THEN b \in S ELSE b - 4 \in M
      BY <2>4, <3>2
    <3>6. i + 4 = loop => S = Block!Scale(i + 4) /\ M = Block!Minimum(i + 4)
      OBVIOUS
    <3> HIDE DEF S, M
    <3>7. CASE i + 4 = loop
      BY <2>12, <3>1, <3>3, <3>4, <3>5, <3>6, <3>7
    <3>8. CASE i + 4 # loop
      BY <2>12, <3>1, <3>3, <3>8
    <3> QED
      BY <3>7, <3>8
  <2> QED
    BY <2>11, <2>13 DEF new
<1> QED
  BY <1>4, <1>5

(* A round of the loop of IQ4_XS places its scale in two fields. *)
LEMMA IQ4XSScaleStep ==
  ASSUME format = "IQ4_XS", loop \in 0 .. 7, LoopIQ4XS(loop)
  PROVE  LET low == Block!ScaleIQ4XS.scales_l
             high == Block!ScaleIQ4XS.scales_h
         IN
         /\ low \in [0 .. 3 -> SUBSET (0 .. 7)]
         /\ high \in [0 .. 1 -> SUBSET (0 .. 7)]
         /\ \A i \in 0 .. 3, b \in 0 .. 7 :
              2 * i < loop + 1 => (b \in low[i] <=>
                2 * i + (b \div 4) < loop + 1 /\ (b % 4) \in Block!Scale(2 * i + (b \div 4)))
         /\ \A i \in 0 .. 1, b \in 0 .. 7 :
              b \in high[i] <=>
                4 * i + (b \div 2) < loop + 1 /\ (4 + (b % 2)) \in Block!Scale(4 * i + (b \div 2))
<1> DEFINE S == Block!Scale(loop)
           four == S \intersect (0 .. 3)
           two == Block!Left(Block!Right(S, 4), 2 * loop)
           oldL == block.scales_l
           oldH == block.scales_h
           low == Block!ScaleIQ4XS.scales_l
           high == Block!ScaleIQ4XS.scales_h
<1>1. S \in SUBSET (0 .. 5) /\ loop \in Nat
  BY Widths
<1>2. oldL \in [0 .. 3 -> SUBSET (0 .. 7)] /\ oldH \in [0 .. 1 -> SUBSET (0 .. 7)]
  BY DEF LoopIQ4XS
<1>3. PICK m \in 0 .. 3, r \in 0 .. 1 : m = loop \div 2 /\ r = loop % 2 /\ loop = 2 * m + r
  <2>1. (loop \div 2) \in 0 .. 3 /\ (loop % 2) \in 0 .. 1 /\ loop = 2 * (loop \div 2) + (loop % 2)
    BY Z3
  <2> QED
    BY <2>1
<1>4. four \in SUBSET (0 .. 3)
  OBVIOUS
<1>5. /\ Block!Left(four, 4) \in SUBSET (0 .. 7)
      /\ \A b \in 0 .. 7 : b \in Block!Left(four, 4) <=> b >= 4 /\ b - 4 \in four
  <2> HIDE DEF four
  <2> QED
    BY <1>4, UpperFour
<1> DEFINE v == IF r = 0 THEN four ELSE oldL[m] \union Block!Left(four, 4)
<1>6. v \in SUBSET (0 .. 7)
  <2>1. four \in SUBSET (0 .. 7) /\ oldL[m] \in SUBSET (0 .. 7)
    BY <1>2
  <2> HIDE DEF four
  <2> QED
    BY <1>5, <2>1
<1>7. low = [oldL EXCEPT ![m] = v]
  BY <1>2, <1>3, Lows DEF Block!ScaleIQ4XS
<1> HIDE DEF low
<1>8. /\ low \in [0 .. 3 -> SUBSET (0 .. 7)]
      /\ \A k \in 0 .. 3 : low[k] = IF k = m THEN v ELSE oldL[k]
  <2>1. 3 \in Nat
    OBVIOUS
  <2> HIDE DEF v
  <2> QED
    BY <1>2, <1>6, <1>7, <2>1, ByteBecomes
<1>9. ASSUME NEW i \in 0 .. 3, NEW b \in 0 .. 7, 2 * i < loop + 1
      PROVE  b \in low[i] <=> 2 * i + (b \div 4) < loop + 1 /\ (b % 4) \in Block!Scale(2 * i + (b \div 4))
  <2>1. 2 * i < loop => (b \in oldL[i] <=>
          2 * i + (b \div 4) < loop /\ (b % 4) \in Block!Scale(2 * i + (b \div 4)))
    BY DEF LoopIQ4XS
  <2>2. /\ b < 4 => b \div 4 = 0 /\ b % 4 = b /\ (b \in four <=> b \in S)
        /\ ~ (b < 4) => b >= 4 /\ b \div 4 = 1 /\ b % 4 = b - 4 /\ (b - 4 \in four <=> b - 4 \in S)
                        /\ ~ (b \in four)
    BY BitPlaces
  <2>3. 2 * i + 0 = 2 * i
    OBVIOUS
  <2>4. b < 4 => ~ (b >= 4)
    OBVIOUS
  <2>5. CASE i # m
    <3>1. 2 * i < loop /\ low[i] = oldL[i]
      <4>1. 2 * i < loop
        BY <1>3, <1>9, <2>5
      <4> QED
        BY <1>8, <2>5, <4>1
    <3>2. 2 * i + 1 < loop /\ 2 * i + 1 < loop + 1
      BY <1>3, <1>9, <2>5
    <3> QED
      BY <1>9, <2>1, <2>2, <2>3, <3>1, <3>2
  <2>6. CASE i = m /\ r = 0
    <3>1. low[i] = four /\ loop = 2 * i /\ ~ (2 * i + 1 < loop + 1)
      <4>1. loop = 2 * i /\ ~ (2 * i + 1 < loop + 1)
        BY <1>3, <2>6
      <4> QED
        BY <1>8, <2>6, <4>1
    <3> HIDE DEF four
    <3> QED
      BY <1>9, <2>2, <2>3, <3>1
  <2>7. CASE i = m /\ r = 1
    <3>1. low[i] = oldL[i] \union Block!Left(four, 4) /\ loop = 2 * i + 1 /\ 2 * i < loop
          /\ ~ (2 * i + 1 < loop) /\ 2 * i + 1 < loop + 1
      <4>1. loop = 2 * i + 1 /\ 2 * i < loop /\ ~ (2 * i + 1 < loop) /\ 2 * i + 1 < loop + 1
        BY <1>3, <2>7
      <4>2. r # 0
        BY <2>7
      <4> QED
        BY <1>8, <2>7, <4>1, <4>2
    <3>2. S = Block!Scale(2 * i + 1)
      BY <3>1
    <3> HIDE DEF four, S
    <3>3. b \in low[i] <=> b \in oldL[i] \/ (b >= 4 /\ b - 4 \in four)
      BY <1>5, <3>1
    <3> QED
      BY <1>9, <2>1, <2>2, <2>3, <2>4, <3>1, <3>2, <3>3
  <2>8. r = 0 \/ r = 1
    OBVIOUS
  <2> QED
    BY <2>5, <2>6, <2>7, <2>8
<1>10. high = [i \in 0 .. 1 |-> oldH[i] \union (Block!Right(two, 8 * i) \intersect (0 .. 7))]
  BY Lows DEF Block!ScaleIQ4XS, Block!Stored
<1> HIDE DEF high
<1>11. high \in [0 .. 1 -> SUBSET (0 .. 7)]
  <2> HIDE DEF two
  <2> QED
    BY <1>2, <1>10
<1>12. ASSUME NEW i \in 0 .. 1, NEW b \in 0 .. 7
       PROVE  b \in high[i] <=>
                4 * i + (b \div 2) < loop + 1 /\ (4 + (b % 2)) \in Block!Scale(4 * i + (b \div 2))
  <2>1. b \in oldH[i] <=>
          4 * i + (b \div 2) < loop /\ (4 + (b % 2)) \in Block!Scale(4 * i + (b \div 2))
    BY DEF LoopIQ4XS
  <2>2. two \in SUBSET Nat
    <3>1. S \in SUBSET Nat /\ 2 * loop \in Nat /\ 4 \in Nat
      BY <1>1
    <3>2. Block!Right(S, 4) \in SUBSET Nat
      BY <3>1, ShiftsAreBits
    <3> QED
      BY <3>1, <3>2, ShiftsAreBits
  <2>3. b \in Block!Right(two, 8 * i) <=> b + 8 * i \in two
    <3>1. b \in Nat /\ 8 * i \in Nat
      OBVIOUS
    <3> HIDE DEF two
    <3> QED
      BY <2>2, <3>1, RightHas
  <2>4. b + 8 * i \in two <=> b + 8 * i \in {2 * loop, 2 * loop + 1} /\ 4 + ((b + 8 * i) - 2 * loop) \in S
    <3>1. b + 8 * i \in Nat
      OBVIOUS
    <3> QED
      BY <1>1, <3>1, UpperPair
  <2>5. /\ b \div 2 \in 0 .. 3 /\ b % 2 \in 0 .. 1 /\ b = 2 * (b \div 2) + (b % 2)
    BY BitPlaces
  <2>6. b + 8 * i \in {2 * loop, 2 * loop + 1} <=> 4 * i + (b \div 2) = loop
    BY <1>1, <2>5
  <2>7. 4 * i + (b \div 2) = loop => 4 + ((b + 8 * i) - 2 * loop) = 4 + (b % 2)
    BY <1>1, <2>5
  <2>8. 4 * i + (b \div 2) < loop + 1 <=> 4 * i + (b \div 2) < loop \/ 4 * i + (b \div 2) = loop
    BY <1>1, <2>5
  <2>9. b \in high[i] <=> b \in oldH[i] \/ b \in Block!Right(two, 8 * i)
    <3> HIDE DEF two
    <3> QED
      BY <1>10
  <2> HIDE DEF two
  <2> QED
    BY <2>1, <2>3, <2>4, <2>6, <2>7, <2>8, <2>9
<1> QED
  BY <1>8, <1>9, <1>11, <1>12 DEF low, high

(* Q2_K: the scales, and then the minimums above them. *)
LoopMinimums(n) ==
  /\ block.scales \in [0 .. 15 -> SUBSET (0 .. 7)]
  /\ \A i \in 0 .. 15, b \in 0 .. 7 :
       b \in block.scales[i] <=> IF b < 4 THEN b \in Block!Scale(i)
                                          ELSE i < n /\ b - 4 \in Block!Minimum(i)

LEMMA Q2KScaleStep ==
  ASSUME format = "Q2_K", loop \in 0 .. 15, LoopQ2K(loop)
  PROVE  LET new == [block.scales EXCEPT ![loop] = Block!Scale(loop)] IN
         /\ new \in [0 .. 15 -> SUBSET (0 .. 7)]
         /\ \A i \in 0 .. 15 : i < loop + 1 => new[i] = Block!Scale(i)
<1> DEFINE new == [block.scales EXCEPT ![loop] = Block!Scale(loop)]
<1>1. Block!Scale(loop) \in SUBSET (0 .. 7) /\ 15 \in Nat
  BY Widths
<1>2. block.scales \in [0 .. 15 -> SUBSET (0 .. 7)]
  BY DEF LoopQ2K
<1>3. /\ new \in [0 .. 15 -> SUBSET (0 .. 7)]
      /\ \A k \in 0 .. 15 : new[k] = IF k = loop THEN Block!Scale(loop) ELSE block.scales[k]
  BY <1>1, <1>2, ByteBecomes
<1>4. \A i \in 0 .. 15 : i < loop + 1 => i = loop \/ i < loop
  OBVIOUS
<1> QED
  BY <1>3, <1>4 DEF LoopQ2K

(* A round of Q2_K's loop of minimums fills the upper half of a byte. *)
LEMMA MinimumStep ==
  ASSUME format = "Q2_K", loop \in 0 .. 15, LoopMinimums(loop)
  PROVE  LET new == [block.scales EXCEPT ![loop] = @ \union Block!Left(Block!Minimum(loop), 4)] IN
         /\ new \in [0 .. 15 -> SUBSET (0 .. 7)]
         /\ \A i \in 0 .. 15, b \in 0 .. 7 :
              b \in new[i] <=> IF b < 4 THEN b \in Block!Scale(i)
                                        ELSE i < loop + 1 /\ b - 4 \in Block!Minimum(i)
<1> DEFINE M == Block!Minimum(loop)
           old == block.scales
           v == old[loop] \union Block!Left(M, 4)
           new == [old EXCEPT ![loop] = @ \union Block!Left(M, 4)]
<1>1. M \in SUBSET (0 .. 3) /\ 15 \in Nat
  BY Widths
<1>2. old \in [0 .. 15 -> SUBSET (0 .. 7)]
  BY DEF LoopMinimums
<1>3. /\ Block!Left(M, 4) \in SUBSET (0 .. 7)
      /\ \A b \in 0 .. 7 : b \in Block!Left(M, 4) <=> b >= 4 /\ b - 4 \in M
  BY <1>1, UpperFour
<1>4. v \in SUBSET (0 .. 7)
  BY <1>2, <1>3
<1>5. new = [old EXCEPT ![loop] = v]
  BY <1>2
<1> HIDE DEF new
<1>6. /\ new \in [0 .. 15 -> SUBSET (0 .. 7)]
      /\ \A k \in 0 .. 15 : new[k] = IF k = loop THEN v ELSE old[k]
  <2> HIDE DEF v, old, new
  <2> QED
    BY <1>1, <1>2, <1>4, <1>5, ByteBecomes
<1>7. ASSUME NEW i \in 0 .. 15, NEW b \in 0 .. 7
      PROVE  b \in new[i] <=> IF b < 4 THEN b \in Block!Scale(i)
                                       ELSE i < loop + 1 /\ b - 4 \in Block!Minimum(i)
  <2>1. b \in old[i] <=> IF b < 4 THEN b \in Block!Scale(i)
                                  ELSE i < loop /\ b - 4 \in Block!Minimum(i)
    BY DEF LoopMinimums
  <2>2. (i < loop + 1 <=> i < loop \/ i = loop) /\ ~ (loop < loop) /\ (b < 4 <=> ~ (b >= 4))
    OBVIOUS
  <2> QED
    BY <1>3, <1>6, <2>1, <2>2
<1> QED
  BY <1>6, <1>7 DEF new

(* The loops of the quants *)

(* The bytes of a field that n rounds have written, k bytes in each round. *)
QsUpTo(last, k, n) ==
  /\ block.qs \in [0 .. last -> SUBSET (0 .. 7)]
  /\ \A i \in 0 .. last, b \in 0 .. 7 :
       i \div k < n => (b \in block.qs[i] <=> Block!QuantBit(i, b))

FifthUpTo(n) ==
  /\ block.qh \in [0 .. 31 -> SUBSET (0 .. 7)]
  /\ \A l \in 0 .. 31, b \in 0 .. 7 :
       b \in block.qh[l] <=> b < 2 * n /\ 4 \in Block!L(32 * b + l)

SixUpTo(n) ==
  /\ block.ql \in [0 .. 127 -> SUBSET (0 .. 7)]
  /\ block.qh \in [0 .. 63 -> SUBSET (0 .. 7)]
  /\ \A i \in 0 .. 127, b \in 0 .. 7 :
       i \div 64 < n => (b \in block.ql[i] <=> Block!Nibbles(i, b, 64))
  /\ \A i \in 0 .. 63, b \in 0 .. 7 :
       i \div 32 < n => (b \in block.qh[i] <=> Block!Twos(i, b, 4))

LEMMA Quotients ==
  ASSUME NEW i \in Nat
  PROVE  /\ i \div 16 \in Nat /\ i \div 32 \in Nat /\ i \div 64 \in Nat
         /\ i % 16 \in 0 .. 15 /\ i % 32 \in 0 .. 31 /\ i % 64 \in 0 .. 63
         /\ i = 16 * (i \div 16) + (i % 16) /\ i = 32 * (i \div 32) + (i % 32)
         /\ i = 64 * (i \div 64) + (i % 64)
BY Z3

(* A round of the quants of Q2_K and Q3_K places two bits of 128 elements. *)
LEMMA QuadsStep ==
  ASSUME format \in {"Q2_K", "Q3_K"}, loop \in 0 .. 1, QsUpTo(63, 32, loop)
  PROVE  LET new == Block!Quads.qs IN
         /\ new \in [0 .. 63 -> SUBSET (0 .. 7)]
         /\ \A i \in 0 .. 63, b \in 0 .. 7 :
              i \div 32 < loop + 1 => (b \in new[i] <=> Block!QuantBit(i, b))
<1> DEFINE new == Block!Quads.qs
           old == block.qs
           Two(x) == Block!L(x) \ {2}
           byte(e) == Two(e) \union Block!Left(Two(e + 32), 2) \union Block!Left(Two(e + 64), 4)
                        \union Block!Left(Two(e + 96), 6)
<1>1. \A x : Two(x) \in SUBSET (0 .. 1)
  <2> SUFFICES ASSUME NEW x PROVE Two(x) \in SUBSET (0 .. 1)
    OBVIOUS
  <2>1. Block!L(x) \subseteq 0 .. 2
    BY Widths
  <2> QED
    BY <2>1
<1>2. old \in [0 .. 63 -> SUBSET (0 .. 7)] /\ DOMAIN old = 0 .. 63
  BY DEF QsUpTo
<1>3. new = [i \in 0 .. 63 |-> IF i \div 32 # loop THEN old[i] ELSE byte(128 * loop + (i % 32))]
  BY <1>2 DEF Block!Quads
<1>4. \A e \in Nat, b \in 0 .. 7 :
        /\ byte(e) \in SUBSET (0 .. 7)
        /\ b \in byte(e) <=> (b % 2) \in Block!L(e + 32 * (b \div 2))
  <2> SUFFICES ASSUME NEW e \in Nat, NEW b \in 0 .. 7
               PROVE  /\ byte(e) \in SUBSET (0 .. 7)
                      /\ b \in byte(e) <=> (b % 2) \in Block!L(e + 32 * (b \div 2))
    OBVIOUS
  <2> DEFINE s == Two(e)
             t == Two(e + 32)
             u == Two(e + 64)
             v == Two(e + 96)
             B == s \union Block!Left(t, 2) \union Block!Left(u, 4) \union Block!Left(v, 6)
  <2>0. /\ s \in SUBSET (0 .. 1) /\ t \in SUBSET (0 .. 1)
        /\ u \in SUBSET (0 .. 1) /\ v \in SUBSET (0 .. 1) /\ byte(e) = B
    <3> HIDE DEF Two
    <3> QED
      BY <1>1
  <2> HIDE DEF s, t, u, v
  <2>1. /\ B \in SUBSET (0 .. 7)
        /\ b \div 2 = 0 => (b \in B <=> (b % 2) \in s)
        /\ b \div 2 = 1 => (b \in B <=> (b % 2) \in t)
        /\ b \div 2 = 2 => (b \in B <=> (b % 2) \in u)
        /\ b \div 2 = 3 => (b \in B <=> (b % 2) \in v)
    BY <2>0, FourTwos
  <2>2. /\ b \div 2 = 0 => e + 32 * (b \div 2) = e
        /\ b \div 2 = 1 => e + 32 * (b \div 2) = e + 32
        /\ b \div 2 = 2 => e + 32 * (b \div 2) = e + 64
        /\ b \div 2 = 3 => e + 32 * (b \div 2) = e + 96
    OBVIOUS
  <2>3. (b \div 2 = 0 \/ b \div 2 = 1 \/ b \div 2 = 2 \/ b \div 2 = 3) /\ b % 2 # 2
    BY BitPlaces
  <2>4. b \in B <=> (b % 2) \in Two(e + 32 * (b \div 2))
    <3> HIDE DEF B, Two
    <3> QED
      BY <2>1, <2>2, <2>3 DEF s, t, u, v
  <2> QED
    BY <2>0, <2>1, <2>3, <2>4
<1> HIDE DEF byte, new
<1>5. ASSUME NEW i \in 0 .. 63
      PROVE  /\ new[i] \in SUBSET (0 .. 7)
             /\ \A b \in 0 .. 7 : i \div 32 < loop + 1 => (b \in new[i] <=> Block!QuantBit(i, b))
  <2>1. i \in Nat /\ i \div 32 \in Nat /\ 128 * loop + (i % 32) \in Nat /\ 0 \in 0 .. 7
    <3>1. i \in Nat
      OBVIOUS
    <3> QED
      BY <3>1, Quotients
  <2>2. CASE i \div 32 # loop
    <3>1. new[i] = old[i] /\ (i \div 32 < loop + 1 => i \div 32 < loop)
      BY <1>3, <2>1, <2>2
    <3> QED
      BY <1>2, <3>1 DEF QsUpTo
  <2>3. CASE i \div 32 = loop
    <3>1. new[i] = byte(128 * loop + (i % 32))
      BY <1>3, <2>3
    <3>2. \A b \in 0 .. 7 : Block!QuantBit(i, b) <=> (b % 2) \in Block!L(128 * loop + (i % 32) + 32 * (b \div 2))
      <4>1. \A b \in 0 .. 7 : 0 + (b % 2) = b % 2
        BY BitPlaces
      <4> QED
        BY <2>3, <4>1 DEF Block!QuantBit, Block!Twos
    <3> QED
      BY <1>4, <2>1, <3>1, <3>2
  <2> QED
    BY <2>2, <2>3
<1>6. new \in [0 .. 63 -> SUBSET (0 .. 7)]
  BY <1>3, <1>5
<1> QED
  BY <1>5, <1>6 DEF new

LEMMA NibbleByte ==
  ASSUME NEW s \in SUBSET (0 .. 3), NEW t \in SUBSET (0 .. 3), NEW b \in 0 .. 7
  PROVE  LET byte == s \union Block!Left(t, 4)
         IN  /\ byte \in SUBSET (0 .. 7)
             /\ b \div 4 = 0 => (b \in byte <=> (b % 4) \in s)
             /\ b \div 4 = 1 => (b \in byte <=> (b % 4) \in t)
<1>1. /\ b \in s \union Block!Left(t, 4) <=> IF b < 4 THEN b \in s ELSE b - 4 \in t
      /\ s \union Block!Left(t, 4) \subseteq 0 .. 7
  BY TwoFours
<1>2. /\ b \div 4 = 0 => b < 4 /\ b % 4 = b
      /\ b \div 4 = 1 => ~ (b < 4) /\ b % 4 = b - 4
  BY BitPlaces
<1> QED
  BY <1>1, <1>2

(* What a byte of two nibbles holds, for numbers of at most four bits. *)
LEMMA NibblesOf ==
  ASSUME NEW four \in [Nat -> SUBSET (0 .. 3)], NEW e \in Nat, NEW n \in Nat, NEW b \in 0 .. 7
  PROVE  LET byte == four[e] \union Block!Left(four[e + n], 4)
         IN  /\ byte \in SUBSET (0 .. 7)
             /\ b \in byte <=> (b % 4) \in four[e + n * (b \div 4)]
<1> DEFINE s == four[e]
           t == four[e + n]
           byte == s \union Block!Left(t, 4)
<1>1. s \in SUBSET (0 .. 3) /\ t \in SUBSET (0 .. 3)
  <2>1. e + n \in Nat
    OBVIOUS
  <2> QED
    BY <2>1
<1>2. b \div 4 = 0 \/ b \div 4 = 1
  BY BitPlaces
<1>3. n * 0 = 0 /\ n * 1 = n /\ e + 0 = e
  OBVIOUS
<1>4. /\ b \div 4 = 0 => four[e + n * (b \div 4)] = s
      /\ b \div 4 = 1 => four[e + n * (b \div 4)] = t
  BY <1>3
<1> HIDE DEF s, t
<1>5. /\ byte \in SUBSET (0 .. 7)
      /\ b \div 4 = 0 => (b \in byte <=> (b % 4) \in s)
      /\ b \div 4 = 1 => (b \in byte <=> (b % 4) \in t)
  BY <1>1, NibbleByte
<1>6. b \in byte <=> (b % 4) \in four[e + n * (b \div 4)]
  BY <1>2, <1>4, <1>5
<1> QED
  BY <1>5, <1>6 DEF s, t

(* A round of the quants of Q4_K and Q5_K places four bits of 64 elements. *)
LEMMA PairsStep ==
  ASSUME format \in {"Q4_K", "Q5_K"}, loop \in 0 .. 3, QsUpTo(127, 32, loop)
  PROVE  LET new == Block!Pairs.qs IN
         /\ new \in [0 .. 127 -> SUBSET (0 .. 7)]
         /\ \A i \in 0 .. 127, b \in 0 .. 7 :
              i \div 32 < loop + 1 => (b \in new[i] <=> Block!QuantBit(i, b))
<1> DEFINE new == Block!Pairs.qs
           old == block.qs
           four == [x \in Nat |-> Block!L(x) \ {4}]
           byte(e) == four[e] \union Block!Left(four[e + 32], 4)
<1>1. four \in [Nat -> SUBSET (0 .. 3)]
  <2> SUFFICES ASSUME NEW x \in Nat PROVE Block!L(x) \ {4} \in SUBSET (0 .. 3)
    OBVIOUS
  <2>1. Block!L(x) \subseteq 0 .. 3 \/ Block!L(x) \subseteq 0 .. 4
    BY Widths
  <2> QED
    BY <2>1
<1>2. old \in [0 .. 127 -> SUBSET (0 .. 7)] /\ DOMAIN old = 0 .. 127
  BY DEF QsUpTo
<1>3. \A i \in 0 .. 127 : 64 * loop + (i % 32) \in Nat /\ 64 * loop + (i % 32) + 32 \in Nat
  OBVIOUS
<1>4. new = [i \in 0 .. 127 |-> IF i \div 32 # loop THEN old[i] ELSE byte(64 * loop + (i % 32))]
  BY <1>2, <1>3 DEF Block!Pairs
<1>5. \A e \in Nat, b \in 0 .. 7 :
        /\ byte(e) \in SUBSET (0 .. 7)
        /\ b \in byte(e) <=> (b % 4) \in four[e + 32 * (b \div 4)]
  <2>1. 32 \in Nat
    OBVIOUS
  <2> HIDE DEF four
  <2> QED
    BY <1>1, <2>1, NibblesOf
<1> HIDE DEF byte, new, four
<1>6. ASSUME NEW i \in 0 .. 127
      PROVE  /\ new[i] \in SUBSET (0 .. 7)
             /\ \A b \in 0 .. 7 : i \div 32 < loop + 1 => (b \in new[i] <=> Block!QuantBit(i, b))
  <2>1. i \in Nat /\ i \div 32 \in Nat /\ 64 * loop + (i % 32) \in Nat /\ 0 \in 0 .. 7
    BY <1>3, Quotients
  <2>2. CASE i \div 32 # loop
    <3>1. new[i] = old[i] /\ (i \div 32 < loop + 1 => i \div 32 < loop)
      BY <1>4, <2>1, <2>2
    <3> QED
      BY <1>2, <3>1 DEF QsUpTo
  <2> DEFINE E == 64 * loop + (i % 32)
  <2>3. CASE i \div 32 = loop
    <3>1. new[i] = byte(E)
      BY <1>4, <2>3
    <3>2. \A b \in 0 .. 7 :
            Block!QuantBit(i, b) <=> (b % 4) \in Block!L(2 * 32 * loop + (i % 32) + 32 * (b \div 4))
      BY <2>3 DEF Block!QuantBit, Block!Nibbles
    <3>3. \A b \in 0 .. 7 : /\ b % 4 # 4
                            /\ 64 * loop + (i % 32) + 32 * (b \div 4) \in Nat
                            /\ 2 * 32 * loop + (i % 32) + 32 * (b \div 4) = 64 * loop + (i % 32) + 32 * (b \div 4)
      OBVIOUS
    <3>4. \A b \in 0 .. 7 : (b % 4) \in four[64 * loop + (i % 32) + 32 * (b \div 4)]
                              <=> (b % 4) \in Block!L(64 * loop + (i % 32) + 32 * (b \div 4))
      BY <3>3 DEF four
    <3>5. byte(E) \in SUBSET (0 .. 7)
      BY <1>5, <2>1
    <3>6. \A b \in 0 .. 7 : b \in byte(E) <=> (b % 4) \in four[E + 32 * (b \div 4)]
      BY <1>5, <2>1
    <3>7. \A b \in 0 .. 7 : (b % 4) \in four[E + 32 * (b \div 4)] <=> Block!QuantBit(i, b)
      BY <3>2, <3>3, <3>4
    <3> HIDE DEF E
    <3> QED
      BY <3>1, <3>5, <3>6, <3>7
  <2> QED
    BY <2>2, <2>3
<1>7. new \in [0 .. 127 -> SUBSET (0 .. 7)]
  BY <1>4, <1>6
<1> QED
  BY <1>6, <1>7 DEF new

(* A round of the quants of IQ4_XS, or the one of Q5_0. *)
LEMMA PairsOf32Step ==
  ASSUME NEW last \in Nat, NEW n \in Nat, last = 16 * n - 1, n = Block!Rounds[format],
         format = "Q5_0" \/ format = "IQ4_XS", loop \in 0 .. n - 1, QsUpTo(last, 16, loop)
  PROVE  LET new == Block!PairsOf32.qs IN
         /\ new \in [0 .. last -> SUBSET (0 .. 7)]
         /\ \A i \in 0 .. last, b \in 0 .. 7 :
              i \div 16 < loop + 1 => (b \in new[i] <=> Block!QuantBit(i, b))
<1> DEFINE new == Block!PairsOf32.qs
           old == block.qs
           four == [x \in Nat |-> Block!L(x) \intersect (0 .. 3)]
           byte(e) == four[e] \union Block!Left(four[e + 16], 4)
<1>1. four \in [Nat -> SUBSET (0 .. 3)]
  OBVIOUS
<1>2. old \in [0 .. last -> SUBSET (0 .. 7)] /\ DOMAIN old = 0 .. last
  BY DEF QsUpTo
<1>3. \A i \in 0 .. last : 32 * loop + (i % 16) \in Nat /\ 32 * loop + (i % 16) + 16 \in Nat
  OBVIOUS
<1>4. new = [i \in 0 .. last |-> IF i \div 16 # loop THEN old[i] ELSE byte(32 * loop + (i % 16))]
  BY <1>2, <1>3, Lows DEF Block!PairsOf32
<1>5. \A e \in Nat, b \in 0 .. 7 :
        /\ byte(e) \in SUBSET (0 .. 7)
        /\ b \in byte(e) <=> (b % 4) \in four[e + 16 * (b \div 4)]
  <2>1. 16 \in Nat
    OBVIOUS
  <2> HIDE DEF four
  <2> QED
    BY <1>1, <2>1, NibblesOf
<1> HIDE DEF byte, new, four
<1>6. ASSUME NEW i \in 0 .. last
      PROVE  /\ new[i] \in SUBSET (0 .. 7)
             /\ \A b \in 0 .. 7 : i \div 16 < loop + 1 => (b \in new[i] <=> Block!QuantBit(i, b))
  <2>1. i \in Nat /\ i \div 16 \in Nat /\ 32 * loop + (i % 16) \in Nat /\ 0 \in 0 .. 7
    BY <1>3, Quotients
  <2>2. CASE i \div 16 # loop
    <3>1. new[i] = old[i] /\ (i \div 16 < loop + 1 => i \div 16 < loop)
      <4>1. loop \in Nat
        OBVIOUS
      <4>2. i \div 16 < loop + 1 => i \div 16 < loop
        BY <2>1, <2>2, <4>1
      <4> QED
        BY <1>4, <2>2, <4>2
    <3> QED
      BY <1>2, <3>1 DEF QsUpTo
  <2> DEFINE E == 32 * loop + (i % 16)
  <2>3. CASE i \div 16 = loop
    <3>1. new[i] = byte(E)
      BY <1>4, <2>3
    <3>2. \A b \in 0 .. 7 :
            Block!QuantBit(i, b) <=> (b % 4) \in Block!L(2 * 16 * loop + (i % 16) + 16 * (b \div 4))
      BY <2>3 DEF Block!QuantBit, Block!Nibbles
    <3>3. \A b \in 0 .. 7 : /\ b % 4 \in 0 .. 3
                            /\ 32 * loop + (i % 16) + 16 * (b \div 4) \in Nat
                            /\ 2 * 16 * loop + (i % 16) + 16 * (b \div 4) = 32 * loop + (i % 16) + 16 * (b \div 4)
      OBVIOUS
    <3>4. \A b \in 0 .. 7 : (b % 4) \in four[32 * loop + (i % 16) + 16 * (b \div 4)]
                              <=> (b % 4) \in Block!L(32 * loop + (i % 16) + 16 * (b \div 4))
      BY <3>3 DEF four
    <3>5. byte(E) \in SUBSET (0 .. 7)
      BY <1>5, <2>1
    <3>6. \A b \in 0 .. 7 : b \in byte(E) <=> (b % 4) \in four[E + 16 * (b \div 4)]
      BY <1>5, <2>1
    <3>7. \A b \in 0 .. 7 : (b % 4) \in four[E + 16 * (b \div 4)] <=> Block!QuantBit(i, b)
      BY <3>2, <3>3, <3>4
    <3> HIDE DEF E
    <3> QED
      BY <3>1, <3>5, <3>6, <3>7
  <2> QED
    BY <2>2, <2>3
<1>7. new \in [0 .. last -> SUBSET (0 .. 7)]
  BY <1>4, <1>6
<1> QED
  BY <1>6, <1>7 DEF new

(* The same round of Q5_K places their fifth bits. *)
LEMMA FifthStep ==
  ASSUME format = "Q5_K", loop \in 0 .. 3, FifthUpTo(loop)
  PROVE  LET new == Block!PairsAndFifth.qh IN
         /\ new \in [0 .. 31 -> SUBSET (0 .. 7)]
         /\ \A l \in 0 .. 31, b \in 0 .. 7 :
              b \in new[l] <=> b < 2 * (loop + 1) /\ 4 \in Block!L(32 * b + l)
<1> DEFINE new == Block!PairsAndFifth.qh
           old == block.qh
           Fifth(x, bit) == IF 4 \in Block!L(x) THEN {bit} ELSE {}
<1>1. new = [l \in 0 .. 31 |-> old[l] \union Fifth(64 * loop + l, 2 * loop)
                                      \union Fifth(64 * loop + l + 32, 2 * loop + 1)]
  BY DEF Block!PairsAndFifth, Block!Low
<1>2. old \in [0 .. 31 -> SUBSET (0 .. 7)]
  BY DEF FifthUpTo
<1>3. 2 * loop \in 0 .. 7 /\ 2 * loop + 1 \in 0 .. 7 /\ loop \in Nat
  OBVIOUS
<1> HIDE DEF new
<1>4. new \in [0 .. 31 -> SUBSET (0 .. 7)]
  BY <1>1, <1>2, <1>3
<1>5. ASSUME NEW l \in 0 .. 31, NEW b \in 0 .. 7
      PROVE  b \in new[l] <=> b < 2 * (loop + 1) /\ 4 \in Block!L(32 * b + l)
  <2>1. b \in new[l] <=> \/ b \in old[l]
                         \/ b = 2 * loop /\ 4 \in Block!L(64 * loop + l)
                         \/ b = 2 * loop + 1 /\ 4 \in Block!L(64 * loop + l + 32)
    BY <1>1
  <2>2. b \in old[l] <=> b < 2 * loop /\ 4 \in Block!L(32 * b + l)
    BY DEF FifthUpTo
  <2>3. /\ b = 2 * loop => 64 * loop + l = 32 * b + l
        /\ b = 2 * loop + 1 => 64 * loop + l + 32 = 32 * b + l
        /\ b < 2 * (loop + 1) <=> b < 2 * loop \/ b = 2 * loop \/ b = 2 * loop + 1
    BY <1>3
  <2> QED
    BY <2>1, <2>2, <2>3
<1> QED
  BY <1>4, <1>5 DEF new

(* The word of Q5_0: bit x of it is the fifth bit of the x-th number. *)
LEMMA WordOfFifths ==
  ASSUME NEW x \in Nat
  PROVE  LET Fifth(e, bit) == Block!Left(Block!Right(Block!L(e) \intersect {4}, 4), bit)
         IN  x \in UNION {Fifth(i, i) \union Fifth(i + 16, i + 16) : i \in 0 .. 15}
               <=> x < 32 /\ 4 \in Block!L(x)
<1> DEFINE Fifth(e, bit) == Block!Left(Block!Right(Block!L(e) \intersect {4}, 4), bit)
<1>1. \A e, y \in Nat : y \in Fifth(e, e) <=> y = e /\ 4 \in Block!L(e)
  <2> SUFFICES ASSUME NEW e \in Nat, NEW y \in Nat
               PROVE  y \in Fifth(e, e) <=> y = e /\ 4 \in Block!L(e)
    OBVIOUS
  <2> DEFINE s == Block!L(e) \intersect {4}
             r == Block!Right(s, 4)
  <2>1. s \in SUBSET Nat /\ 4 \in Nat
    OBVIOUS
  <2>2. r \in SUBSET Nat
    BY <2>1, ShiftsAreBits
  <2>3. y >= e => (y - e \in r <=> (y - e) + 4 \in s)
    <3>1. y >= e => y - e \in Nat
      OBVIOUS
    <3> QED
      BY <2>1, <3>1, RightHas
  <2>4. y \in Block!Left(r, e) <=> y >= e /\ y - e \in r
    BY <2>2, LeftHas
  <2>5. (y - e) + 4 \in s <=> y = e /\ 4 \in Block!L(e)
    OBVIOUS
  <2>6. y = e => y >= e
    OBVIOUS
  <2> QED
    BY <2>3, <2>4, <2>5, <2>6
<1> HIDE DEF Fifth
<1>2. ASSUME NEW i \in 0 .. 15, x \in Fifth(i, i) \union Fifth(i + 16, i + 16)
      PROVE  x < 32 /\ 4 \in Block!L(x)
  <2>1. i \in Nat /\ i + 16 \in Nat /\ i < 32 /\ i + 16 < 32
    OBVIOUS
  <2> QED
    BY <1>1, <1>2, <2>1
<1>3. ASSUME x < 32, 4 \in Block!L(x)
      PROVE  \E i \in 0 .. 15 : x \in Fifth(i, i) \union Fifth(i + 16, i + 16)
  <2>1. x \in Fifth(x, x)
    BY <1>1, <1>3
  <2>2. CASE x < 16
    <3>1. x \in 0 .. 15
      BY <2>2
    <3> QED
      BY <2>1, <3>1
  <2>3. CASE x >= 16
    <3>1. x - 16 \in 0 .. 15 /\ (x - 16) + 16 = x
      BY <1>3, <2>3
    <3> QED
      BY <2>1, <3>1
  <2> QED
    BY <2>2, <2>3
<1> QED
  BY <1>2, <1>3 DEF Fifth

(* The word that Q5_0 gathers has the fifth bit of every element. *)
LEMMA WordStep ==
  ASSUME format = "Q5_0"
  PROVE  LET new == Block!PairsAndWord.qh IN
         /\ new \in [0 .. 3 -> SUBSET (0 .. 7)]
         /\ \A i \in 0 .. 3, b \in 0 .. 7 : b \in new[i] <=> 4 \in Block!L(8 * i + b)
<1> DEFINE new == Block!PairsAndWord.qh
           Fifth(e, bit) == Block!Left(Block!Right(Block!L(e) \intersect {4}, 4), bit)
           word == UNION {Fifth(i, i) \union Fifth(i + 16, i + 16) : i \in 0 .. 15}
<1>1. new = [i \in 0 .. 3 |-> Block!Right(word, 8 * i) \intersect (0 .. 7)]
  BY DEF Block!PairsAndWord, Block!Low, Block!Stored, Block!Byte
<1>2. word \in SUBSET Nat
  <2>1. ASSUME NEW e \in Nat PROVE Fifth(e, e) \in SUBSET Nat
    <3>1. Block!L(e) \intersect {4} \in SUBSET Nat /\ 4 \in Nat
      OBVIOUS
    <3>2. Block!Right(Block!L(e) \intersect {4}, 4) \in SUBSET Nat
      BY <3>1, ShiftsAreBits
    <3> QED
      BY <3>2, ShiftsAreBits
  <2>2. \A i \in 0 .. 15 : i \in Nat /\ i + 16 \in Nat
    OBVIOUS
  <2> HIDE DEF Fifth
  <2> QED
    BY <2>1, <2>2
<1>3. \A x \in Nat : x \in word <=> x < 32 /\ 4 \in Block!L(x)
  BY WordOfFifths
<1> HIDE DEF word, new
<1>4. new \in [0 .. 3 -> SUBSET (0 .. 7)]
  BY <1>1
<1>5. ASSUME NEW i \in 0 .. 3, NEW b \in 0 .. 7 PROVE b \in new[i] <=> 4 \in Block!L(8 * i + b)
  <2>1. b \in Nat /\ 8 * i \in Nat /\ b + 8 * i \in Nat /\ b + 8 * i < 32 /\ b + 8 * i = 8 * i + b
    OBVIOUS
  <2>2. b \in Block!Right(word, 8 * i) <=> b + 8 * i \in word
    BY <1>2, <2>1, RightHas
  <2>3. b \in new[i] <=> b \in Block!Right(word, 8 * i)
    BY <1>1
  <2> QED
    BY <1>3, <2>1, <2>2, <2>3
<1> QED
  BY <1>4, <1>5 DEF new

(* A round of the quants of Q6_K places six bits of 128 elements. *)
LEMMA SixBitsStep ==
  ASSUME format = "Q6_K", loop \in 0 .. 1, SixUpTo(loop)
  PROVE  LET low == Block!SixBits.ql
             high == Block!SixBits.qh
         IN
         /\ low \in [0 .. 127 -> SUBSET (0 .. 7)]
         /\ high \in [0 .. 63 -> SUBSET (0 .. 7)]
         /\ \A i \in 0 .. 127, b \in 0 .. 7 :
              i \div 64 < loop + 1 => (b \in low[i] <=> Block!Nibbles(i, b, 64))
         /\ \A i \in 0 .. 63, b \in 0 .. 7 :
              i \div 32 < loop + 1 => (b \in high[i] <=> Block!Twos(i, b, 4))
<1> DEFINE low == Block!SixBits.ql
           high == Block!SixBits.qh
           oldL == block.ql
           oldH == block.qh
           four == [x \in Nat |-> Block!L(x) \intersect (0 .. 3)]
           byte(e) == four[e] \union Block!Left(four[e + 64], 4)
           up(e) == UNION {Block!Left(Block!Right(Block!L(e + 32 * h), 4), 2 * h) : h \in 0 .. 3}
<1>1. four \in [Nat -> SUBSET (0 .. 3)]
  OBVIOUS
<1>2. /\ oldL \in [0 .. 127 -> SUBSET (0 .. 7)] /\ DOMAIN oldL = 0 .. 127
      /\ oldH \in [0 .. 63 -> SUBSET (0 .. 7)] /\ DOMAIN oldH = 0 .. 63
  BY DEF SixUpTo
<1>3. \A i \in 0 .. 127 : 128 * loop + (i % 64) \in Nat /\ 128 * loop + (i % 64) + 64 \in Nat
  OBVIOUS
<1>4. low = [i \in 0 .. 127 |-> IF i \div 64 # loop THEN oldL[i] ELSE byte(128 * loop + (i % 64))]
  BY <1>2, <1>3, Lows, ZenonT(60) DEF Block!SixBits
<1>5. high = [i \in 0 .. 63 |-> IF i \div 32 # loop THEN oldH[i] ELSE up(128 * loop + (i % 32))]
  BY <1>2, Lows DEF Block!SixBits
<1>6. \A e \in Nat, b \in 0 .. 7 :
        /\ byte(e) \in SUBSET (0 .. 7)
        /\ b \in byte(e) <=> (b % 4) \in four[e + 64 * (b \div 4)]
  <2>1. 64 \in Nat
    OBVIOUS
  <2> HIDE DEF four
  <2> QED
    BY <1>1, <2>1, NibblesOf
<1>7. \A e \in Nat, b \in Nat :
        b \in up(e) <=> b \in 0 .. 7 /\ 4 + (b % 2) \in Block!L(e + 32 * (b \div 2))
  <2> SUFFICES ASSUME NEW e \in Nat, NEW b \in Nat
               PROVE  b \in up(e) <=> b \in 0 .. 7 /\ 4 + (b % 2) \in Block!L(e + 32 * (b \div 2))
    OBVIOUS
  <2>1. \A h \in 0 .. 3 :
          b \in Block!Left(Block!Right(Block!L(e + 32 * h), 4), 2 * h)
            <=> b \in {2 * h, 2 * h + 1} /\ 4 + (b - 2 * h) \in Block!L(e + 32 * h)
    <3> SUFFICES ASSUME NEW h \in 0 .. 3
                 PROVE  b \in Block!Left(Block!Right(Block!L(e + 32 * h), 4), 2 * h)
                          <=> b \in {2 * h, 2 * h + 1} /\ 4 + (b - 2 * h) \in Block!L(e + 32 * h)
      OBVIOUS
    <3>1. Block!L(e + 32 * h) \in SUBSET (0 .. 5) /\ h \in Nat
      BY Widths
    <3> QED
      BY <3>1, UpperPair
  <2>2. \A h \in 0 .. 3 : b \in {2 * h, 2 * h + 1} =>
          b \in 0 .. 7 /\ b \div 2 = h /\ b % 2 = b - 2 * h
    OBVIOUS
  <2>3. b \in 0 .. 7 => b \div 2 \in 0 .. 3 /\ b \in {2 * (b \div 2), 2 * (b \div 2) + 1}
    OBVIOUS
  <2>4. b \in up(e) <=> \E h \in 0 .. 3 : b \in Block!Left(Block!Right(Block!L(e + 32 * h), 4), 2 * h)
    OBVIOUS
  <2> HIDE DEF up
  <2> QED
    BY <2>1, <2>2, <2>3, <2>4
<1>8. \A e \in Nat : up(e) \in SUBSET (0 .. 7)
  <2> SUFFICES ASSUME NEW e \in Nat, NEW b \in up(e) PROVE b \in 0 .. 7
    OBVIOUS
  <2>1. PICK h \in 0 .. 3 : b \in Block!Left(Block!Right(Block!L(e + 32 * h), 4), 2 * h)
    OBVIOUS
  <2>2. Block!L(e + 32 * h) \in SUBSET Nat /\ 2 * h \in Nat /\ 4 \in Nat
    BY Widths
  <2>3. Block!Right(Block!L(e + 32 * h), 4) \in SUBSET Nat
    BY <2>2, ShiftsAreBits
  <2>4. b \in Nat
    BY <2>1, <2>2, <2>3, ShiftsAreBits
  <2> HIDE DEF up
  <2> QED
    BY <1>7, <2>4
<1> HIDE DEF byte, low, high, four, up
<1>9. ASSUME NEW i \in 0 .. 127
      PROVE  /\ low[i] \in SUBSET (0 .. 7)
             /\ \A b \in 0 .. 7 : i \div 64 < loop + 1 => (b \in low[i] <=> Block!Nibbles(i, b, 64))
  <2>1. i \in Nat /\ i \div 64 \in Nat /\ 128 * loop + (i % 64) \in Nat /\ 0 \in 0 .. 7
    BY <1>3, Quotients
  <2>2. CASE i \div 64 # loop
    <3>1. low[i] = oldL[i] /\ (i \div 64 < loop + 1 => i \div 64 < loop)
      BY <1>4, <2>1, <2>2
    <3> QED
      BY <1>2, <3>1, ZenonT(60) DEF SixUpTo
  <2> DEFINE E == 128 * loop + (i % 64)
  <2>3. CASE i \div 64 = loop
    <3>1. low[i] = byte(E)
      BY <1>4, <2>3
    <3>2. \A b \in 0 .. 7 :
            Block!Nibbles(i, b, 64) <=> (b % 4) \in Block!L(2 * 64 * loop + (i % 64) + 64 * (b \div 4))
      BY <2>3 DEF Block!Nibbles
    <3>3. \A b \in 0 .. 7 : /\ b % 4 \in 0 .. 3
                            /\ E + 64 * (b \div 4) \in Nat
                            /\ 2 * 64 * loop + (i % 64) + 64 * (b \div 4) = E + 64 * (b \div 4)
      OBVIOUS
    <3>4. \A b \in 0 .. 7 : (b % 4) \in four[E + 64 * (b \div 4)]
                              <=> (b % 4) \in Block!L(E + 64 * (b \div 4))
      BY <3>3 DEF four
    <3>5. byte(E) \in SUBSET (0 .. 7)
      BY <1>6, <2>1
    <3>6. \A b \in 0 .. 7 : b \in byte(E) <=> (b % 4) \in four[E + 64 * (b \div 4)]
      BY <1>6, <2>1
    <3>7. \A b \in 0 .. 7 : (b % 4) \in four[E + 64 * (b \div 4)] <=> Block!Nibbles(i, b, 64)
      BY <3>2, <3>3, <3>4
    <3> HIDE DEF E
    <3> QED
      BY <3>1, <3>5, <3>6, <3>7
  <2> QED
    BY <2>2, <2>3
<1>10. ASSUME NEW i \in 0 .. 63
       PROVE  /\ high[i] \in SUBSET (0 .. 7)
              /\ \A b \in 0 .. 7 : i \div 32 < loop + 1 => (b \in high[i] <=> Block!Twos(i, b, 4))
  <2>1. i \in Nat /\ i \div 32 \in Nat
    BY Quotients
  <2> DEFINE E == 128 * loop + (i % 32)
  <2>2. E \in Nat
    OBVIOUS
  <2>3. CASE i \div 32 # loop
    <3>1. high[i] = oldH[i] /\ (i \div 32 < loop + 1 => i \div 32 < loop)
      BY <1>5, <2>1, <2>3
    <3> QED
      BY <1>2, <3>1 DEF SixUpTo
  <2>4. CASE i \div 32 = loop
    <3>1. high[i] = up(E)
      BY <1>5, <2>4
    <3>2. \A b \in 0 .. 7 : Block!Twos(i, b, 4) <=> 4 + (b % 2) \in Block!L(E + 32 * (b \div 2))
      BY <2>4 DEF Block!Twos
    <3>3. \A b \in 0 .. 7 : b \in Nat
      OBVIOUS
    <3> HIDE DEF E
    <3> QED
      BY <1>7, <1>8, <2>2, <3>1, <3>2, <3>3
  <2> QED
    BY <2>3, <2>4
<1>11. low \in [0 .. 127 -> SUBSET (0 .. 7)] /\ high \in [0 .. 63 -> SUBSET (0 .. 7)]
  BY <1>4, <1>5, <1>9, <1>10, ZenonT(60)
<1> QED
  BY <1>9, <1>10, <1>11 DEF low, high

-----------------------------------------------------------------------------
(* The encoders *)

(* The numbers that a block is to hold stay what they are. *)
LEMMA NumbersStay ==
  ASSUME format' = format, choice' = choice
  PROVE  /\ \A i : /\ Block!Scale(i)' = Block!Scale(i)
                   /\ Block!Minimum(i)' = Block!Minimum(i)
                   /\ Block!L(i)' = Block!L(i)
         /\ \A i, b : /\ Block!ScaleBit(i, b)' <=> Block!ScaleBit(i, b)
                      /\ Block!QuantBit(i, b)' <=> Block!QuantBit(i, b)
         /\ \A i, b, n : /\ Block!Nibbles(i, b, n)' <=> Block!Nibbles(i, b, n)
                         /\ Block!Twos(i, b, n)' <=> Block!Twos(i, b, n)
<1>1. \A kind, i : Block!Number(kind, i)' = Block!Number(kind, i)
  BY DEF Block!Number
<1>2. \A i : /\ Block!Scale(i)' = Block!Scale(i)
             /\ Block!Minimum(i)' = Block!Minimum(i)
             /\ Block!L(i)' = Block!L(i)
  BY <1>1 DEF Block!Scale, Block!Minimum, Block!L
<1>3. \A i, b, n : /\ Block!Nibbles(i, b, n)' <=> Block!Nibbles(i, b, n)
                   /\ Block!Twos(i, b, n)' <=> Block!Twos(i, b, n)
  BY <1>2 DEF Block!Nibbles, Block!Twos
<1>4. \A i, b : Block!ScaleBit(i, b)' <=> Block!ScaleBit(i, b)
  BY <1>2 DEF Block!ScaleBit
<1>5. \A i, b : Block!QuantBit(i, b)' <=> Block!QuantBit(i, b)
  BY <1>3 DEF Block!QuantBit
<1> QED
  BY <1>2, <1>3, <1>4, <1>5

(* What the rounds so far have done, for the format of the block. *)
ScalesUpTo(n) ==
  /\ format = "Q2_K" => LoopQ2K(n)
  /\ format = "Q3_K" => LoopQ3K(n)
  /\ format \in {"Q4_K", "Q5_K"} => LoopK4(n)
  /\ format = "IQ4_XS" => LoopIQ4XS(n)

ScalesAreThere ==
  /\ format = "Q2_K" => LoopMinimums(16)
  /\ format = "Q3_K" => LoopQ3K(16)
  /\ format \in {"Q4_K", "Q5_K"} => LoopK4(8)
  /\ format = "IQ4_XS" => LoopIQ4XS(8)

ThirdBitsAreThere ==
  block.hmask = [m \in 0 .. 31 |-> {h \in 0 .. 7 : 2 \in Block!L(32 * h + m)}]

FifthBitsAreThere ==
  /\ block.qh \in [0 .. 3 -> SUBSET (0 .. 7)]
  /\ \A i \in 0 .. 3, b \in 0 .. 7 : b \in block.qh[i] <=> 4 \in Block!L(8 * i + b)

QuantsUpTo(n) ==
  /\ format \in {"Q2_K", "Q3_K"} => QsUpTo(63, 32, n)
  /\ format \in {"Q4_K", "Q5_K"} => QsUpTo(127, 32, n)
  /\ format = "Q5_K" => FifthUpTo(n)
  /\ format = "Q6_K" => SixUpTo(n)
  /\ format = "IQ4_XS" => QsUpTo(127, 16, n)
  /\ format = "Q5_0" => QsUpTo(15, 16, n) /\ (n = 1 => FifthBitsAreThere)

(* The fields of a block, of the bytes that the format gives them. *)
FieldsInv ==
  /\ format = "Q5_0" => /\ DOMAIN block = {"qh", "qs"}
                        /\ block.qh \in [0 .. 3 -> SUBSET (0 .. 7)]
                        /\ block.qs \in [0 .. 15 -> SUBSET (0 .. 7)]
  /\ format = "Q2_K" => /\ DOMAIN block = {"scales", "qs"}
                        /\ block.scales \in [0 .. 15 -> SUBSET (0 .. 7)]
                        /\ block.qs \in [0 .. 63 -> SUBSET (0 .. 7)]
  /\ format = "Q3_K" => /\ DOMAIN block = {"hmask", "qs", "scales"}
                        /\ block.hmask \in [0 .. 31 -> SUBSET (0 .. 7)]
                        /\ block.qs \in [0 .. 63 -> SUBSET (0 .. 7)]
                        /\ block.scales \in [0 .. 11 -> SUBSET (0 .. 7)]
  /\ format = "Q4_K" => /\ DOMAIN block = {"scales", "qs"}
                        /\ block.scales \in [0 .. 11 -> SUBSET (0 .. 7)]
                        /\ block.qs \in [0 .. 127 -> SUBSET (0 .. 7)]
  /\ format = "Q5_K" => /\ DOMAIN block = {"scales", "qh", "qs"}
                        /\ block.scales \in [0 .. 11 -> SUBSET (0 .. 7)]
                        /\ block.qh \in [0 .. 31 -> SUBSET (0 .. 7)]
                        /\ block.qs \in [0 .. 127 -> SUBSET (0 .. 7)]
  /\ format = "Q6_K" => /\ DOMAIN block = {"ql", "qh"}
                        /\ block.ql \in [0 .. 127 -> SUBSET (0 .. 7)]
                        /\ block.qh \in [0 .. 63 -> SUBSET (0 .. 7)]
  /\ format = "IQ4_XS" => /\ DOMAIN block = {"scales_h", "scales_l", "qs"}
                          /\ block.scales_h \in [0 .. 1 -> SUBSET (0 .. 7)]
                          /\ block.scales_l \in [0 .. 3 -> SUBSET (0 .. 7)]
                          /\ block.qs \in [0 .. 127 -> SUBSET (0 .. 7)]

BlockInv ==
  /\ format \in {"Q5_0", "Q2_K", "Q3_K", "Q4_K", "Q5_K", "Q6_K", "IQ4_XS"}
  /\ packing \in {"clear", "scales", "mins", "high", "quants", "packed"}
  /\ loop \in Nat
  /\ FieldsInv
  /\ packing = "scales" => loop <= Block!Numbers[format].scale.n /\ ScalesUpTo(loop)
  /\ packing = "mins" => format = "Q2_K" /\ loop <= 16 /\ LoopMinimums(loop)
  /\ packing \in {"high", "quants", "packed"} => ScalesAreThere
  /\ packing \in {"quants", "packed"} /\ format = "Q3_K" => ThirdBitsAreThere
  /\ packing = "quants" => loop <= Block!Rounds[format] /\ QuantsUpTo(loop)
  /\ packing = "packed" => QuantsUpTo(Block!Rounds[format])


(* The index of the last byte of a field, and one. *)
LEMMA FieldsOf ==
  /\ DOMAIN Block!Fields["Q5_0"] = {"qh", "qs"}
  /\ Block!Fields["Q5_0"]["qh"] = 3 + 1 /\ Block!Fields["Q5_0"]["qs"] = 15 + 1
  /\ DOMAIN Block!Fields["Q2_K"] = {"scales", "qs"}
  /\ Block!Fields["Q2_K"]["scales"] = 15 + 1 /\ Block!Fields["Q2_K"]["qs"] = 63 + 1
  /\ DOMAIN Block!Fields["Q3_K"] = {"hmask", "qs", "scales"}
  /\ Block!Fields["Q3_K"]["hmask"] = 31 + 1 /\ Block!Fields["Q3_K"]["qs"] = 63 + 1 /\ Block!Fields["Q3_K"]["scales"] = 11 + 1
  /\ DOMAIN Block!Fields["Q4_K"] = {"scales", "qs"}
  /\ Block!Fields["Q4_K"]["scales"] = 11 + 1 /\ Block!Fields["Q4_K"]["qs"] = 127 + 1
  /\ DOMAIN Block!Fields["Q5_K"] = {"scales", "qh", "qs"}
  /\ Block!Fields["Q5_K"]["scales"] = 11 + 1 /\ Block!Fields["Q5_K"]["qh"] = 31 + 1 /\ Block!Fields["Q5_K"]["qs"] = 127 + 1
  /\ DOMAIN Block!Fields["Q6_K"] = {"ql", "qh"}
  /\ Block!Fields["Q6_K"]["ql"] = 127 + 1 /\ Block!Fields["Q6_K"]["qh"] = 63 + 1
  /\ DOMAIN Block!Fields["IQ4_XS"] = {"scales_h", "scales_l", "qs"}
  /\ Block!Fields["IQ4_XS"]["scales_h"] = 1 + 1 /\ Block!Fields["IQ4_XS"]["scales_l"] = 3 + 1 /\ Block!Fields["IQ4_XS"]["qs"] = 127 + 1
BY DEF Block!Fields

LEMMA FormatsAre ==
  DOMAIN Block!Fields = {"Q5_0", "Q2_K", "Q3_K", "Q4_K", "Q5_K", "Q6_K", "IQ4_XS"}
BY DEF Block!Fields

(* Whatever the memory holds, the fields are there. *)
LEMMA BlockInit == Block!Init => BlockInv
<1> SUFFICES ASSUME Block!Init PROVE BlockInv
  OBVIOUS
<1>1. format \in {"Q5_0", "Q2_K", "Q3_K", "Q4_K", "Q5_K", "Q6_K", "IQ4_XS"}
  BY FormatsAre DEF Block!Init
<1>2. PICK memory \in Memories :
        block = [f \in DOMAIN Block!Fields[format] |->
                   [i \in Block!Low(Block!Fields[format][f]) |-> Block!Stored(Held(memory, f, i))]]
  BY DEF Block!Init
<1>3. \A n \in Nat : \A f : [i \in Block!Low(n) |-> Block!Stored(Held(memory, f, i))] \in [0 .. n - 1 -> SUBSET (0 .. 7)]
  BY DEF Block!Low, Block!Stored, Block!Byte
<1>5. \A f \in DOMAIN Block!Fields[format], n \in Nat : Block!Fields[format][f] = n + 1 =>
        block[f] \in [0 .. n -> SUBSET (0 .. 7)]
  <2> SUFFICES ASSUME NEW f \in DOMAIN Block!Fields[format], NEW n \in Nat, Block!Fields[format][f] = n + 1
               PROVE  block[f] \in [0 .. n -> SUBSET (0 .. 7)]
    OBVIOUS
  <2>1. n + 1 \in Nat /\ (n + 1) - 1 = n
    OBVIOUS
  <2>2. [i \in Block!Low(n + 1) |-> Block!Stored(Held(memory, f, i))] \in [0 .. (n + 1) - 1 -> SUBSET (0 .. 7)]
    BY <1>3, <2>1
  <2> QED
    BY <1>2, <2>1, <2>2
<1>6. DOMAIN block = DOMAIN Block!Fields[format]
  BY <1>2
<1>7. FieldsInv
  <2>1. CASE format = "Q5_0"
    <3>1. DOMAIN block = {"qh", "qs"} /\ "qh" \in DOMAIN block /\ "qs" \in DOMAIN block
      BY <1>6, <2>1, FieldsOf
    <3>2. Block!Fields[format]["qh"] = 3 + 1 /\ Block!Fields[format]["qs"] = 15 + 1
      BY <2>1, FieldsOf
    <3>3. 3 \in Nat /\ 15 \in Nat
      OBVIOUS
    <3>4. block["qh"] \in [0 .. 3 -> SUBSET (0 .. 7)] /\ block["qs"] \in [0 .. 15 -> SUBSET (0 .. 7)]
      <4>1. block["qh"] \in [0 .. 3 -> SUBSET (0 .. 7)]
        BY <1>5, <1>6, <3>1, <3>2, <3>3
      <4>2. block["qs"] \in [0 .. 15 -> SUBSET (0 .. 7)]
        BY <1>5, <1>6, <3>1, <3>2, <3>3
      <4> QED
        BY <4>1, <4>2
    <3> QED
      BY <2>1, <3>1, <3>4 DEF FieldsInv
  <2>2. CASE format = "Q2_K"
    <3>1. DOMAIN block = {"scales", "qs"} /\ "scales" \in DOMAIN block /\ "qs" \in DOMAIN block
      BY <1>6, <2>2, FieldsOf
    <3>2. Block!Fields[format]["scales"] = 15 + 1 /\ Block!Fields[format]["qs"] = 63 + 1
      BY <2>2, FieldsOf
    <3>3. 15 \in Nat /\ 63 \in Nat
      OBVIOUS
    <3>4. block["scales"] \in [0 .. 15 -> SUBSET (0 .. 7)] /\ block["qs"] \in [0 .. 63 -> SUBSET (0 .. 7)]
      <4>1. block["scales"] \in [0 .. 15 -> SUBSET (0 .. 7)]
        BY <1>5, <1>6, <3>1, <3>2, <3>3
      <4>2. block["qs"] \in [0 .. 63 -> SUBSET (0 .. 7)]
        BY <1>5, <1>6, <3>1, <3>2, <3>3
      <4> QED
        BY <4>1, <4>2
    <3> QED
      BY <2>2, <3>1, <3>4 DEF FieldsInv
  <2>3. CASE format = "Q3_K"
    <3>1. DOMAIN block = {"hmask", "qs", "scales"} /\ "hmask" \in DOMAIN block /\ "qs" \in DOMAIN block /\ "scales" \in DOMAIN block
      BY <1>6, <2>3, FieldsOf
    <3>2. Block!Fields[format]["hmask"] = 31 + 1 /\ Block!Fields[format]["qs"] = 63 + 1 /\ Block!Fields[format]["scales"] = 11 + 1
      BY <2>3, FieldsOf
    <3>3. 11 \in Nat /\ 31 \in Nat /\ 63 \in Nat
      OBVIOUS
    <3>4. block["hmask"] \in [0 .. 31 -> SUBSET (0 .. 7)] /\ block["qs"] \in [0 .. 63 -> SUBSET (0 .. 7)] /\ block["scales"] \in [0 .. 11 -> SUBSET (0 .. 7)]
      <4>1. block["hmask"] \in [0 .. 31 -> SUBSET (0 .. 7)]
        BY <1>5, <1>6, <3>1, <3>2, <3>3
      <4>2. block["qs"] \in [0 .. 63 -> SUBSET (0 .. 7)]
        BY <1>5, <1>6, <3>1, <3>2, <3>3
      <4>3. block["scales"] \in [0 .. 11 -> SUBSET (0 .. 7)]
        BY <1>5, <1>6, <3>1, <3>2, <3>3
      <4> QED
        BY <4>1, <4>2, <4>3
    <3> QED
      BY <2>3, <3>1, <3>4 DEF FieldsInv
  <2>4. CASE format = "Q4_K"
    <3>1. DOMAIN block = {"scales", "qs"} /\ "scales" \in DOMAIN block /\ "qs" \in DOMAIN block
      BY <1>6, <2>4, FieldsOf
    <3>2. Block!Fields[format]["scales"] = 11 + 1 /\ Block!Fields[format]["qs"] = 127 + 1
      BY <2>4, FieldsOf
    <3>3. 11 \in Nat /\ 127 \in Nat
      OBVIOUS
    <3>4. block["scales"] \in [0 .. 11 -> SUBSET (0 .. 7)] /\ block["qs"] \in [0 .. 127 -> SUBSET (0 .. 7)]
      <4>1. block["scales"] \in [0 .. 11 -> SUBSET (0 .. 7)]
        BY <1>5, <1>6, <3>1, <3>2, <3>3
      <4>2. block["qs"] \in [0 .. 127 -> SUBSET (0 .. 7)]
        BY <1>5, <1>6, <3>1, <3>2, <3>3, ZenonT(60)
      <4> QED
        BY <4>1, <4>2
    <3> QED
      BY <2>4, <3>1, <3>4 DEF FieldsInv
  <2>5. CASE format = "Q5_K"
    <3>1. DOMAIN block = {"scales", "qh", "qs"} /\ "scales" \in DOMAIN block /\ "qh" \in DOMAIN block /\ "qs" \in DOMAIN block
      BY <1>6, <2>5, FieldsOf
    <3>2. Block!Fields[format]["scales"] = 11 + 1 /\ Block!Fields[format]["qh"] = 31 + 1 /\ Block!Fields[format]["qs"] = 127 + 1
      BY <2>5, FieldsOf
    <3>3. 11 \in Nat /\ 31 \in Nat /\ 127 \in Nat
      OBVIOUS
    <3>4. block["scales"] \in [0 .. 11 -> SUBSET (0 .. 7)] /\ block["qh"] \in [0 .. 31 -> SUBSET (0 .. 7)] /\ block["qs"] \in [0 .. 127 -> SUBSET (0 .. 7)]
      <4>1. block["scales"] \in [0 .. 11 -> SUBSET (0 .. 7)]
        BY <1>5, <1>6, <3>1, <3>2, <3>3, ZenonT(60)
      <4>2. block["qh"] \in [0 .. 31 -> SUBSET (0 .. 7)]
        BY <1>5, <1>6, <3>1, <3>2, <3>3, ZenonT(60)
      <4>3. block["qs"] \in [0 .. 127 -> SUBSET (0 .. 7)]
        BY <1>5, <1>6, <3>1, <3>2, <3>3, ZenonT(60)
      <4> QED
        BY <4>1, <4>2, <4>3
    <3> QED
      BY <2>5, <3>1, <3>4 DEF FieldsInv
  <2>6. CASE format = "Q6_K"
    <3>1. DOMAIN block = {"ql", "qh"} /\ "ql" \in DOMAIN block /\ "qh" \in DOMAIN block
      BY <1>6, <2>6, FieldsOf
    <3>2. Block!Fields[format]["ql"] = 127 + 1 /\ Block!Fields[format]["qh"] = 63 + 1
      BY <2>6, FieldsOf
    <3>3. 63 \in Nat /\ 127 \in Nat
      OBVIOUS
    <3>4. block["ql"] \in [0 .. 127 -> SUBSET (0 .. 7)] /\ block["qh"] \in [0 .. 63 -> SUBSET (0 .. 7)]
      <4>1. block["ql"] \in [0 .. 127 -> SUBSET (0 .. 7)]
        BY <1>5, <1>6, <3>1, <3>2, <3>3, ZenonT(60)
      <4>2. block["qh"] \in [0 .. 63 -> SUBSET (0 .. 7)]
        BY <1>5, <1>6, <3>1, <3>2, <3>3, ZenonT(60)
      <4> QED
        BY <4>1, <4>2
    <3> QED
      BY <2>6, <3>1, <3>4 DEF FieldsInv
  <2>7. CASE format = "IQ4_XS"
    <3>1. DOMAIN block = {"scales_h", "scales_l", "qs"} /\ "scales_h" \in DOMAIN block /\ "scales_l" \in DOMAIN block /\ "qs" \in DOMAIN block
      BY <1>6, <2>7, FieldsOf
    <3>2. Block!Fields[format]["scales_h"] = 1 + 1 /\ Block!Fields[format]["scales_l"] = 3 + 1 /\ Block!Fields[format]["qs"] = 127 + 1
      BY <2>7, FieldsOf
    <3>3. 1 \in Nat /\ 3 \in Nat /\ 127 \in Nat
      OBVIOUS
    <3>4. block["scales_h"] \in [0 .. 1 -> SUBSET (0 .. 7)] /\ block["scales_l"] \in [0 .. 3 -> SUBSET (0 .. 7)] /\ block["qs"] \in [0 .. 127 -> SUBSET (0 .. 7)]
      <4>1. block["scales_h"] \in [0 .. 1 -> SUBSET (0 .. 7)]
        BY <1>5, <1>6, <3>1, <3>2, <3>3
      <4>2. block["scales_l"] \in [0 .. 3 -> SUBSET (0 .. 7)]
        BY <1>5, <1>6, <3>1, <3>2, <3>3
      <4>3. block["qs"] \in [0 .. 127 -> SUBSET (0 .. 7)]
        BY <1>5, <1>6, <3>1, <3>2, <3>3, ZenonT(60)
      <4> QED
        BY <4>1, <4>2, <4>3
    <3> QED
      BY <2>7, <3>1, <3>4 DEF FieldsInv
  <2> QED
    BY <1>1, <2>1, <2>2, <2>3, <2>4, <2>5, <2>6, <2>7
<1>8. packing = "clear" /\ loop = 0
  BY DEF Block!Init
<1> QED
  BY <1>1, <1>7, <1>8 DEF BlockInv

LEMMA Changes ==
  ASSUME NEW fields, NEW next, NEW round, Block!Becomes(fields, next, round)
  PROVE  /\ format' = format /\ choice' = choice /\ packing' = next /\ loop' = round
         /\ DOMAIN block' = DOMAIN block
         /\ \A f \in DOMAIN block :
              block'[f] = IF f \in DOMAIN fields THEN fields[f] ELSE block[f]
BY DEF Block!Becomes

(* Writing other fields leaves the scales as they are. *)
LEMMA ScalesStay ==
  ASSUME format' = format, choice' = choice,
         format \in {"Q2_K", "Q3_K", "Q4_K", "Q5_K"} => block'.scales = block.scales,
         format = "IQ4_XS" => block'.scales_l = block.scales_l /\ block'.scales_h = block.scales_h
  PROVE  /\ ScalesAreThere => ScalesAreThere'
         /\ format = "Q2_K" => \A n : LoopMinimums(n) => LoopMinimums(n)'
         /\ \A n : ScalesUpTo(n) => ScalesUpTo(n)'
<1>0. ASSUME format = "Q2_K", NEW n, LoopQ2K(n) PROVE LoopQ2K(n)'
  BY <1>0, NumbersStay DEF LoopQ2K
<1>1. ASSUME format = "Q2_K", NEW n, LoopMinimums(n) PROVE LoopMinimums(n)'
  BY <1>1, NumbersStay DEF LoopMinimums
<1>2. ASSUME format = "Q3_K", NEW n, LoopQ3K(n) PROVE LoopQ3K(n)'
  BY <1>2, NumbersStay DEF LoopQ3K, ScaleOfBit
<1>3. ASSUME format \in {"Q4_K", "Q5_K"}, NEW n, LoopK4(n) PROVE LoopK4(n)'
  BY <1>3, NumbersStay DEF LoopK4
<1>4. ASSUME format = "IQ4_XS", NEW n, LoopIQ4XS(n) PROVE LoopIQ4XS(n)'
  BY <1>4, NumbersStay DEF LoopIQ4XS
<1>5. ScalesAreThere => ScalesAreThere'
  BY <1>1, <1>2, <1>3, <1>4 DEF ScalesAreThere
<1>6. \A n : ScalesUpTo(n) => ScalesUpTo(n)'
  BY <1>0, <1>2, <1>3, <1>4 DEF ScalesUpTo
<1> QED
  BY <1>1, <1>5, <1>6

LEMMA ThirdBitsStay ==
  ASSUME format' = format, choice' = choice, block'.hmask = block.hmask
  PROVE  ThirdBitsAreThere => ThirdBitsAreThere'
BY NumbersStay DEF ThirdBitsAreThere

LEMMA QuantsStay ==
  ASSUME FieldsInv, format' = format, choice' = choice,
         format \in {"Q5_0", "Q2_K", "Q3_K", "Q4_K", "Q5_K", "Q6_K", "IQ4_XS"},
         \A f \in DOMAIN block : block'[f] = block[f],
         NEW n, QuantsUpTo(n)
  PROVE  QuantsUpTo(n)'
<1>1. /\ format # "Q6_K" => block'["qs"] = block["qs"]
      /\ format \in {"Q5_0", "Q5_K", "Q6_K"} => block'["qh"] = block["qh"]
      /\ format = "Q6_K" => block'["ql"] = block["ql"]
  <2>1. /\ format # "Q6_K" => "qs" \in DOMAIN block
        /\ format \in {"Q5_0", "Q5_K", "Q6_K"} => "qh" \in DOMAIN block
        /\ format = "Q6_K" => "ql" \in DOMAIN block
    BY DEF FieldsInv
  <2> QED
    BY <2>1
<1>2. ASSUME format # "Q6_K", NEW last, NEW k, NEW m, QsUpTo(last, k, m)
      PROVE  QsUpTo(last, k, m)'
  BY <1>1, <1>2, NumbersStay DEF QsUpTo
<1>3. ASSUME format = "Q5_K", FifthUpTo(n) PROVE FifthUpTo(n)'
  BY <1>1, <1>3, NumbersStay DEF FifthUpTo
<1>4. ASSUME format = "Q6_K", SixUpTo(n) PROVE SixUpTo(n)'
  BY <1>1, <1>4, NumbersStay, ZenonT(60) DEF SixUpTo
<1>5. ASSUME format = "Q5_0", FifthBitsAreThere PROVE FifthBitsAreThere'
  BY <1>1, <1>5, NumbersStay DEF FifthBitsAreThere
<1> QED
  BY <1>2, <1>3, <1>4, <1>5 DEF QuantsUpTo

(* What has to be zero before scales are or-ed into it. *)
Cleared ==
  /\ format = "Q3_K" => \A i \in 0 .. 11 : block.scales[i] = {}
  /\ format = "IQ4_XS" => \A i \in 0 .. 1 : block.scales_h[i] = {}

LEMMA ScalesStart == FieldsInv /\ Cleared => ScalesUpTo(0)
<1> SUFFICES ASSUME FieldsInv, Cleared PROVE ScalesUpTo(0)
  OBVIOUS
<1> USE DEF Cleared
<1>1. CASE format = "Q2_K"
  <2>1. \A i \in 0 .. 15 : ~ (i < 0)
    OBVIOUS
  <2> QED
    BY <1>1, <2>1 DEF ScalesUpTo, LoopQ2K, FieldsInv
<1>2. CASE format = "Q3_K"
  <2>1. \A i \in 0 .. 11, b \in 0 .. 7 : ~ (ScaleOfBit(i, b) < 0)
    <3> SUFFICES ASSUME NEW i \in 0 .. 11, NEW b \in 0 .. 7 PROVE ~ (ScaleOfBit(i, b) < 0)
      OBVIOUS
    <3>1. b \div 4 \in Nat /\ b \div 2 \in Nat
      BY BitPlaces
    <3> QED
      BY <3>1 DEF ScaleOfBit
  <2> QED
    BY <1>2, <2>1 DEF ScalesUpTo, LoopQ3K, FieldsInv
<1>3. CASE format \in {"Q4_K", "Q5_K"}
  <2>1. \A i \in 0 .. 3 : ~ (i < 0) /\ ~ (i + 4 < 0)
    OBVIOUS
  <2> QED
    BY <1>3, <2>1 DEF ScalesUpTo, LoopK4, FieldsInv
<1>4. CASE format = "IQ4_XS"
  <2>1. \A i \in 0 .. 3 : ~ (2 * i < 0)
    OBVIOUS
  <2>2. \A i \in 0 .. 1, b \in 0 .. 7 : ~ (4 * i + (b \div 2) < 0)
    BY BitPlaces
  <2> QED
    BY <1>4, <2>1, <2>2 DEF ScalesUpTo, LoopIQ4XS, FieldsInv
<1> QED
  BY <1>1, <1>2, <1>3, <1>4 DEF ScalesUpTo

(* A field that a step writes keeps its length. *)
LEMMA FieldsStay ==
  ASSUME FieldsInv, format' = format, DOMAIN block' = DOMAIN block,
         format \in {"Q5_0", "Q2_K", "Q3_K", "Q4_K", "Q5_K", "Q6_K", "IQ4_XS"},
         \A f \in DOMAIN block : block'[f] = block[f] \/ block'[f] \in [DOMAIN block[f] -> SUBSET (0 .. 7)]
  PROVE  FieldsInv'
<1>0. \A f \in DOMAIN block, n \in Nat : block[f] \in [0 .. n -> SUBSET (0 .. 7)] =>
        block'[f] \in [0 .. n -> SUBSET (0 .. 7)]
  <2> SUFFICES ASSUME NEW f \in DOMAIN block, NEW n \in Nat, block[f] \in [0 .. n -> SUBSET (0 .. 7)]
               PROVE  block'[f] \in [0 .. n -> SUBSET (0 .. 7)]
    OBVIOUS
  <2>1. DOMAIN block[f] = 0 .. n
    OBVIOUS
  <2> QED
    BY <2>1
<1>1. CASE format = "Q5_0"
  <2>1. DOMAIN block = {"qh", "qs"}
    BY <1>1 DEF FieldsInv
  <2>2. block'["qh"] \in [0 .. 3 -> SUBSET (0 .. 7)]
    <3>1. block["qh"] \in [0 .. 3 -> SUBSET (0 .. 7)] /\ "qh" \in DOMAIN block /\ 3 \in Nat
      BY <1>1, <2>1 DEF FieldsInv
    <3> QED
      BY <1>0, <3>1
  <2>3. block'["qs"] \in [0 .. 15 -> SUBSET (0 .. 7)]
    <3>1. block["qs"] \in [0 .. 15 -> SUBSET (0 .. 7)] /\ "qs" \in DOMAIN block /\ 15 \in Nat
      BY <1>1, <2>1 DEF FieldsInv
    <3> QED
      BY <1>0, <3>1
  <2> QED
    BY <1>1, <2>1, <2>2, <2>3 DEF FieldsInv
<1>2. CASE format = "Q2_K"
  <2>1. DOMAIN block = {"scales", "qs"}
    BY <1>2 DEF FieldsInv
  <2>2. block'["scales"] \in [0 .. 15 -> SUBSET (0 .. 7)]
    <3>1. block["scales"] \in [0 .. 15 -> SUBSET (0 .. 7)] /\ "scales" \in DOMAIN block /\ 15 \in Nat
      BY <1>2, <2>1 DEF FieldsInv
    <3> QED
      BY <1>0, <3>1
  <2>3. block'["qs"] \in [0 .. 63 -> SUBSET (0 .. 7)]
    <3>1. block["qs"] \in [0 .. 63 -> SUBSET (0 .. 7)] /\ "qs" \in DOMAIN block /\ 63 \in Nat
      BY <1>2, <2>1 DEF FieldsInv
    <3> QED
      BY <1>0, <3>1
  <2> QED
    BY <1>2, <2>1, <2>2, <2>3 DEF FieldsInv
<1>3. CASE format = "Q3_K"
  <2>1. DOMAIN block = {"hmask", "qs", "scales"}
    BY <1>3 DEF FieldsInv
  <2>2. block'["hmask"] \in [0 .. 31 -> SUBSET (0 .. 7)]
    <3>1. block["hmask"] \in [0 .. 31 -> SUBSET (0 .. 7)] /\ "hmask" \in DOMAIN block /\ 31 \in Nat
      BY <1>3, <2>1 DEF FieldsInv
    <3> QED
      BY <1>0, <3>1
  <2>3. block'["qs"] \in [0 .. 63 -> SUBSET (0 .. 7)]
    <3>1. block["qs"] \in [0 .. 63 -> SUBSET (0 .. 7)] /\ "qs" \in DOMAIN block /\ 63 \in Nat
      BY <1>3, <2>1 DEF FieldsInv
    <3> QED
      BY <1>0, <3>1
  <2>4. block'["scales"] \in [0 .. 11 -> SUBSET (0 .. 7)]
    <3>1. block["scales"] \in [0 .. 11 -> SUBSET (0 .. 7)] /\ "scales" \in DOMAIN block /\ 11 \in Nat
      BY <1>3, <2>1 DEF FieldsInv
    <3> QED
      BY <1>0, <3>1
  <2> QED
    BY <1>3, <2>1, <2>2, <2>3, <2>4 DEF FieldsInv
<1>4. CASE format = "Q4_K"
  <2>1. DOMAIN block = {"scales", "qs"}
    BY <1>4 DEF FieldsInv
  <2>2. block'["scales"] \in [0 .. 11 -> SUBSET (0 .. 7)]
    <3>1. block["scales"] \in [0 .. 11 -> SUBSET (0 .. 7)] /\ "scales" \in DOMAIN block /\ 11 \in Nat
      BY <1>4, <2>1 DEF FieldsInv
    <3> QED
      BY <1>0, <3>1
  <2>3. block'["qs"] \in [0 .. 127 -> SUBSET (0 .. 7)]
    <3>1. block["qs"] \in [0 .. 127 -> SUBSET (0 .. 7)] /\ "qs" \in DOMAIN block /\ 127 \in Nat
      BY <1>4, <2>1 DEF FieldsInv
    <3> QED
      BY <1>0, <3>1
  <2> QED
    BY <1>4, <2>1, <2>2, <2>3 DEF FieldsInv
<1>5. CASE format = "Q5_K"
  <2>1. DOMAIN block = {"scales", "qh", "qs"}
    BY <1>5 DEF FieldsInv
  <2>2. block'["scales"] \in [0 .. 11 -> SUBSET (0 .. 7)]
    <3>1. block["scales"] \in [0 .. 11 -> SUBSET (0 .. 7)] /\ "scales" \in DOMAIN block /\ 11 \in Nat
      BY <1>5, <2>1 DEF FieldsInv
    <3> QED
      BY <1>0, <3>1
  <2>3. block'["qh"] \in [0 .. 31 -> SUBSET (0 .. 7)]
    <3>1. block["qh"] \in [0 .. 31 -> SUBSET (0 .. 7)] /\ "qh" \in DOMAIN block /\ 31 \in Nat
      BY <1>5, <2>1 DEF FieldsInv
    <3> QED
      BY <1>0, <3>1
  <2>4. block'["qs"] \in [0 .. 127 -> SUBSET (0 .. 7)]
    <3>1. block["qs"] \in [0 .. 127 -> SUBSET (0 .. 7)] /\ "qs" \in DOMAIN block /\ 127 \in Nat
      BY <1>5, <2>1 DEF FieldsInv
    <3> QED
      BY <1>0, <3>1
  <2> QED
    BY <1>5, <2>1, <2>2, <2>3, <2>4 DEF FieldsInv
<1>6. CASE format = "Q6_K"
  <2>1. DOMAIN block = {"ql", "qh"}
    BY <1>6 DEF FieldsInv
  <2>2. block'["ql"] \in [0 .. 127 -> SUBSET (0 .. 7)]
    <3>1. block["ql"] \in [0 .. 127 -> SUBSET (0 .. 7)] /\ "ql" \in DOMAIN block /\ 127 \in Nat
      BY <1>6, <2>1 DEF FieldsInv
    <3> QED
      BY <1>0, <3>1
  <2>3. block'["qh"] \in [0 .. 63 -> SUBSET (0 .. 7)]
    <3>1. block["qh"] \in [0 .. 63 -> SUBSET (0 .. 7)] /\ "qh" \in DOMAIN block /\ 63 \in Nat
      BY <1>6, <2>1 DEF FieldsInv
    <3> QED
      BY <1>0, <3>1
  <2> QED
    BY <1>6, <2>1, <2>2, <2>3 DEF FieldsInv
<1>7. CASE format = "IQ4_XS"
  <2>1. DOMAIN block = {"scales_h", "scales_l", "qs"}
    BY <1>7 DEF FieldsInv
  <2>2. block'["scales_h"] \in [0 .. 1 -> SUBSET (0 .. 7)]
    <3>1. block["scales_h"] \in [0 .. 1 -> SUBSET (0 .. 7)] /\ "scales_h" \in DOMAIN block /\ 1 \in Nat
      BY <1>7, <2>1 DEF FieldsInv
    <3> QED
      BY <1>0, <3>1
  <2>3. block'["scales_l"] \in [0 .. 3 -> SUBSET (0 .. 7)]
    <3>1. block["scales_l"] \in [0 .. 3 -> SUBSET (0 .. 7)] /\ "scales_l" \in DOMAIN block /\ 3 \in Nat
      BY <1>7, <2>1 DEF FieldsInv
    <3> QED
      BY <1>0, <3>1
  <2>4. block'["qs"] \in [0 .. 127 -> SUBSET (0 .. 7)]
    <3>1. block["qs"] \in [0 .. 127 -> SUBSET (0 .. 7)] /\ "qs" \in DOMAIN block /\ 127 \in Nat
      BY <1>7, <2>1 DEF FieldsInv
    <3> QED
      BY <1>0, <3>1
  <2> QED
    BY <1>7, <2>1, <2>2, <2>3, <2>4 DEF FieldsInv
<1> QED
  BY <1>1, <1>2, <1>3, <1>4, <1>5, <1>6, <1>7

(* The fields into which scales are or-ed are empty after this. *)
LEMMA ClearStep == ASSUME BlockInv, Block!Clear PROVE BlockInv'
<1> DEFINE fields == CASE format = "Q3_K" -> [scales |-> Block!Zeros("scales")]
                       [] format = "IQ4_XS" -> [scales_h |-> Block!Zeros("scales_h")]
                       [] OTHER -> <<>>
<1>1. /\ format' = format /\ choice' = choice /\ packing' = "scales" /\ loop' = 0
      /\ DOMAIN block' = DOMAIN block
      /\ \A f \in DOMAIN block :
           block'[f] = IF f \in DOMAIN fields THEN fields[f] ELSE block[f]
  <2>1. Block!Becomes(fields, "scales", 0)
    BY DEF Block!Clear
  <2> HIDE DEF fields
  <2> QED
    BY <2>1, Changes
<1>2. /\ format = "Q3_K" => fields = [scales |-> Block!Zeros("scales")]
      /\ format = "IQ4_XS" => fields = [scales_h |-> Block!Zeros("scales_h")]
      /\ format \notin {"Q3_K", "IQ4_XS"} => fields = <<>>
  OBVIOUS
<1> HIDE DEF fields
<1>3. FieldsInv /\ format \in {"Q5_0", "Q2_K", "Q3_K", "Q4_K", "Q5_K", "Q6_K", "IQ4_XS"}
  BY DEF BlockInv
<1>4. \A g : Block!Zeros(g) \in [DOMAIN block[g] -> SUBSET (0 .. 7)]
  BY DEF Block!Zeros
<1>5. \A f \in DOMAIN fields : fields[f] \in [DOMAIN block[f] -> SUBSET (0 .. 7)]
  <2>1. CASE format = "Q3_K"
    BY <1>2, <1>4, <2>1
  <2>2. CASE format = "IQ4_XS"
    BY <1>2, <1>4, <2>2
  <2>3. CASE format \notin {"Q3_K", "IQ4_XS"}
    BY <1>2, <2>3
  <2> QED
    BY <2>1, <2>2, <2>3
<1>6. FieldsInv'
  BY <1>1, <1>3, <1>5, FieldsStay
<1>7. ASSUME format = "Q3_K" PROVE \A i \in 0 .. 11 : block'.scales[i] = {}
  <2>1. "scales" \in DOMAIN block /\ DOMAIN block.scales = 0 .. 11
    BY <1>3, <1>7 DEF FieldsInv
  <2>2. block'.scales = Block!Zeros("scales")
    BY <1>1, <1>2, <1>7, <2>1
  <2> QED
    BY <2>1, <2>2 DEF Block!Zeros
<1>8. ASSUME format = "IQ4_XS" PROVE \A i \in 0 .. 1 : block'.scales_h[i] = {}
  <2>1. "scales_h" \in DOMAIN block /\ DOMAIN block.scales_h = 0 .. 1
    BY <1>3, <1>8 DEF FieldsInv
  <2>2. block'.scales_h = Block!Zeros("scales_h")
    BY <1>1, <1>2, <1>8, <2>1
  <2> QED
    BY <2>1, <2>2 DEF Block!Zeros
<1>9. ScalesUpTo(0)'
  <2>1. Cleared'
    BY <1>1, <1>7, <1>8 DEF Cleared
  <2> QED
    BY <1>6, <2>1, ScalesStart, PTL
<1>10. ScalesUpTo(loop)'
  BY <1>1, <1>9
<1>11. 0 <= Block!Numbers[format].scale.n
  BY <1>3 DEF Block!Numbers
<1> QED
  BY <1>1, <1>3, <1>6, <1>10, <1>11 DEF BlockInv

LEMMA ScaleCounts ==
  /\ format = "Q5_0" => Block!Numbers[format].scale.n = 0
  /\ format = "Q2_K" => Block!Numbers[format].scale.n = 16
  /\ format = "Q3_K" => Block!Numbers[format].scale.n = 16
  /\ format \in {"Q4_K", "Q5_K"} => Block!Numbers[format].scale.n = 8
  /\ format = "Q6_K" => Block!Numbers[format].scale.n = 0
  /\ format = "IQ4_XS" => Block!Numbers[format].scale.n = 8
BY DEF Block!Numbers

(* One round of the loop of scales, in any format. *)
LEMMA PackScaleStep == ASSUME BlockInv, Block!PackScale PROVE BlockInv'
<1> DEFINE fields == CASE format = "Q2_K" -> [scales |-> [block.scales EXCEPT ![loop] = Block!Scale(loop)]]
                       [] format = "Q3_K" -> Block!ScaleQ3K
                       [] format \in {"Q4_K", "Q5_K"} -> Block!ScaleMinK4
                       [] format = "IQ4_XS" -> Block!ScaleIQ4XS
<1>1. /\ packing = "scales" /\ loop < Block!Numbers[format].scale.n
      /\ format' = format /\ choice' = choice /\ packing' = "scales" /\ loop' = loop + 1
      /\ DOMAIN block' = DOMAIN block
      /\ \A f \in DOMAIN block :
           block'[f] = IF f \in DOMAIN fields THEN fields[f] ELSE block[f]
  <2>1. /\ packing = "scales" /\ loop < Block!Numbers[format].scale.n
        /\ Block!Becomes(fields, "scales", loop + 1)
    BY DEF Block!PackScale
  <2> HIDE DEF fields
  <2> QED
    BY <2>1, Changes
<1>2. /\ format = "Q2_K" => fields = [scales |-> [block.scales EXCEPT ![loop] = Block!Scale(loop)]]
      /\ format = "Q3_K" => fields = Block!ScaleQ3K
      /\ format \in {"Q4_K", "Q5_K"} => fields = Block!ScaleMinK4
      /\ format = "IQ4_XS" => fields = Block!ScaleIQ4XS
  OBVIOUS
<1> HIDE DEF fields
<1>3. /\ FieldsInv /\ format \in {"Q5_0", "Q2_K", "Q3_K", "Q4_K", "Q5_K", "Q6_K", "IQ4_XS"}
      /\ loop \in Nat /\ ScalesUpTo(loop)
  BY <1>1 DEF BlockInv
<1>4. SUFFICES /\ FieldsInv'
               /\ ScalesUpTo(loop)'
  <2>1. Block!Numbers[format].scale.n \in Nat
    BY <1>3 DEF Block!Numbers
  <2>2. loop + 1 <= Block!Numbers[format].scale.n /\ loop + 1 \in Nat
    BY <1>1, <1>3, <2>1
  <2> QED
    BY <1>1, <1>3, <2>2 DEF BlockInv
<1>5. CASE format = "Q2_K"
  <2> DEFINE new == [block.scales EXCEPT ![loop] = Block!Scale(loop)]
  <2>1. loop \in 0 .. 15 /\ LoopQ2K(loop)
    <3>1. loop < 16
      BY <1>1, <1>5, ScaleCounts
    <3> QED
      BY <1>3, <1>5, <3>1 DEF ScalesUpTo
  <2>2. new \in [0 .. 15 -> SUBSET (0 .. 7)] /\ \A i \in 0 .. 15 : i < loop + 1 => new[i] = Block!Scale(i)
    BY <1>5, <2>1, Q2KScaleStep
  <2>3. DOMAIN fields = {"scales"} /\ fields["scales"] = new
    BY <1>2, <1>5
  <2>4. "scales" \in DOMAIN block /\ DOMAIN block["scales"] = 0 .. 15
    BY <1>3, <1>5 DEF FieldsInv
  <2> HIDE DEF new
  <2>5. block'["scales"] = new
    BY <1>1, <2>3, <2>4
  <2>6. FieldsInv'
    BY <1>1, <1>3, <2>2, <2>3, <2>4, FieldsStay
  <2>7. LoopQ2K(loop)'
    BY <1>1, <2>2, <2>5, NumbersStay DEF LoopQ2K
  <2> QED
    BY <1>1, <1>5, <2>6, <2>7 DEF ScalesUpTo
<1>6. CASE format = "Q3_K"
  <2> DEFINE new == Block!ScaleQ3K.scales
  <2>1. loop \in 0 .. 15 /\ LoopQ3K(loop)
    <3>1. loop < 16
      BY <1>1, <1>6, ScaleCounts
    <3> QED
      BY <1>3, <1>6, <3>1 DEF ScalesUpTo
  <2>2. /\ new \in [0 .. 11 -> SUBSET (0 .. 7)]
        /\ \A i \in 0 .. 11, b \in 0 .. 7 :
             b \in new[i] <=> ScaleOfBit(i, b) < loop + 1 /\ Block!ScaleBit(i, b)
    BY <1>6, <2>1, Q3KScaleStep
  <2>3. DOMAIN fields = {"scales"} /\ fields["scales"] = new
    <3>1. DOMAIN Block!ScaleQ3K = {"scales"}
      BY DEF Block!ScaleQ3K
    <3> QED
      BY <1>2, <1>6, <3>1
  <2>4. "scales" \in DOMAIN block /\ DOMAIN block["scales"] = 0 .. 11
    BY <1>3, <1>6 DEF FieldsInv
  <2> HIDE DEF new
  <2>5. block'["scales"] = new
    BY <1>1, <2>3, <2>4
  <2>6. FieldsInv'
    BY <1>1, <1>3, <2>2, <2>3, <2>4, FieldsStay
  <2>7. LoopQ3K(loop)'
    BY <1>1, <2>2, <2>5, NumbersStay DEF LoopQ3K, ScaleOfBit
  <2> QED
    BY <1>1, <1>6, <2>6, <2>7 DEF ScalesUpTo
<1>7. CASE format \in {"Q4_K", "Q5_K"}
  <2> DEFINE new == Block!ScaleMinK4.scales
  <2>1. loop \in 0 .. 7 /\ LoopK4(loop)
    <3>1. loop < 8
      BY <1>1, <1>7, ScaleCounts
    <3> QED
      BY <1>3, <1>7, <3>1 DEF ScalesUpTo
  <2>2. /\ new \in [0 .. 11 -> SUBSET (0 .. 7)]
        /\ \A i \in 0 .. 3, b \in 0 .. 7 :
             /\ i < loop + 1 =>
                  /\ b \in new[i] <=>
                       IF b < 6 THEN b \in Block!Scale(i)
                                ELSE i + 4 < loop + 1 /\ b - 2 \in Block!Scale(i + 4)
                  /\ b \in new[i + 4] <=>
                       IF b < 6 THEN b \in Block!Minimum(i)
                                ELSE i + 4 < loop + 1 /\ b - 2 \in Block!Minimum(i + 4)
             /\ i + 4 < loop + 1 =>
                  (b \in new[i + 8] <=>
                     IF b < 4 THEN b \in Block!Scale(i + 4) ELSE b - 4 \in Block!Minimum(i + 4))
    BY <1>7, <2>1, K4ScaleStep
  <2>3. DOMAIN fields = {"scales"} /\ fields["scales"] = new
    <3>1. DOMAIN Block!ScaleMinK4 = {"scales"}
      BY DEF Block!ScaleMinK4
    <3> QED
      BY <1>2, <1>7, <3>1
  <2>4. "scales" \in DOMAIN block /\ DOMAIN block["scales"] = 0 .. 11
    BY <1>3, <1>7 DEF FieldsInv
  <2> HIDE DEF new
  <2>5. block'["scales"] = new
    BY <1>1, <2>3, <2>4
  <2>6. FieldsInv'
    BY <1>1, <1>3, <2>2, <2>3, <2>4, FieldsStay
  <2>7. LoopK4(loop)'
    BY <1>1, <2>2, <2>5, NumbersStay DEF LoopK4
  <2> QED
    BY <1>1, <1>7, <2>6, <2>7 DEF ScalesUpTo
<1>8. CASE format = "IQ4_XS"
  <2> DEFINE low == Block!ScaleIQ4XS.scales_l
             high == Block!ScaleIQ4XS.scales_h
  <2>1. loop \in 0 .. 7 /\ LoopIQ4XS(loop)
    <3>1. loop < 8
      BY <1>1, <1>8, ScaleCounts
    <3> QED
      BY <1>3, <1>8, <3>1 DEF ScalesUpTo
  <2>2. /\ low \in [0 .. 3 -> SUBSET (0 .. 7)]
        /\ high \in [0 .. 1 -> SUBSET (0 .. 7)]
        /\ \A i \in 0 .. 3, b \in 0 .. 7 :
             2 * i < loop + 1 => (b \in low[i] <=>
               2 * i + (b \div 4) < loop + 1 /\ (b % 4) \in Block!Scale(2 * i + (b \div 4)))
        /\ \A i \in 0 .. 1, b \in 0 .. 7 :
             b \in high[i] <=>
               4 * i + (b \div 2) < loop + 1 /\ (4 + (b % 2)) \in Block!Scale(4 * i + (b \div 2))
    BY <1>8, <2>1, IQ4XSScaleStep
  <2>3. DOMAIN fields = {"scales_l", "scales_h"} /\ fields["scales_l"] = low /\ fields["scales_h"] = high
    <3>1. DOMAIN Block!ScaleIQ4XS = {"scales_l", "scales_h"}
      BY DEF Block!ScaleIQ4XS
    <3> QED
      BY <1>2, <1>8, <3>1
  <2>4. /\ "scales_l" \in DOMAIN block /\ DOMAIN block["scales_l"] = 0 .. 3
        /\ "scales_h" \in DOMAIN block /\ DOMAIN block["scales_h"] = 0 .. 1
    BY <1>3, <1>8 DEF FieldsInv
  <2> HIDE DEF low, high
  <2>5. block'["scales_l"] = low /\ block'["scales_h"] = high
    BY <1>1, <2>3, <2>4
  <2>6. FieldsInv'
    BY <1>1, <1>3, <2>2, <2>3, <2>4, FieldsStay
  <2>7. LoopIQ4XS(loop)'
    BY <1>1, <2>2, <2>5, NumbersStay DEF LoopIQ4XS
  <2> QED
    BY <1>1, <1>8, <2>6, <2>7 DEF ScalesUpTo
<1>9. CASE format \in {"Q5_0", "Q6_K"}
  <2>1. loop < 0
    BY <1>1, <1>9, ScaleCounts
  <2> QED
    BY <1>3, <2>1
<1> QED
  BY <1>3, <1>5, <1>6, <1>7, <1>8, <1>9

(* A step that writes no field. *)
LEMMA NothingWritten ==
  ASSUME NEW next, NEW round, BlockInv, Block!Becomes(<<>>, next, round)
  PROVE  /\ format' = format /\ choice' = choice /\ packing' = next /\ loop' = round
         /\ DOMAIN block' = DOMAIN block /\ \A f \in DOMAIN block : block'[f] = block[f]
         /\ FieldsInv'
         /\ format \in {"Q5_0", "Q2_K", "Q3_K", "Q4_K", "Q5_K", "Q6_K", "IQ4_XS"}
<1>1. /\ format' = format /\ choice' = choice /\ packing' = next /\ loop' = round
      /\ DOMAIN block' = DOMAIN block
      /\ \A f \in DOMAIN block : block'[f] = IF f \in DOMAIN <<>> THEN <<>>[f] ELSE block[f]
  BY Changes
<1>2. FieldsInv /\ format \in {"Q5_0", "Q2_K", "Q3_K", "Q4_K", "Q5_K", "Q6_K", "IQ4_XS"}
  BY DEF BlockInv
<1>3. \A f \in DOMAIN block : block'[f] = block[f]
  BY <1>1
<1>4. FieldsInv'
  BY <1>1, <1>2, <1>3, FieldsStay
<1> QED
  BY <1>1, <1>2, <1>3, <1>4

(* What a step leaves of the scales if it writes fields of quants only. *)
LEMMA ScalesUnwritten ==
  ASSUME FieldsInv, format' = format, choice' = choice,
         format \in {"Q5_0", "Q2_K", "Q3_K", "Q4_K", "Q5_K", "Q6_K", "IQ4_XS"},
         \A f \in DOMAIN block : f \in {"scales", "scales_l", "scales_h"} => block'[f] = block[f]
  PROVE  /\ ScalesAreThere => ScalesAreThere'
         /\ format = "Q2_K" => \A n : LoopMinimums(n) => LoopMinimums(n)'
<1>1. format \in {"Q2_K", "Q3_K", "Q4_K", "Q5_K"} => block'.scales = block.scales
  <2>1. format \in {"Q2_K", "Q3_K", "Q4_K", "Q5_K"} => "scales" \in DOMAIN block
    BY ZenonT(60) DEF FieldsInv
  <2> QED
    BY <2>1
<1>2. format = "IQ4_XS" => block'.scales_l = block.scales_l /\ block'.scales_h = block.scales_h
  <2>1. format = "IQ4_XS" => "scales_l" \in DOMAIN block /\ "scales_h" \in DOMAIN block
    BY DEF FieldsInv
  <2> QED
    BY <2>1
<1> QED
  BY <1>1, <1>2, ScalesStay

LEMMA MinimumsStart ==
  ASSUME format = "Q2_K", LoopQ2K(16)
  PROVE  LoopMinimums(0)
<1>1. \A i \in 0 .. 15 : block.scales[i] = Block!Scale(i) /\ Block!Scale(i) \subseteq 0 .. 3 /\ ~ (i < 0)
  <2>1. \A i \in 0 .. 15 : i < 16 /\ ~ (i < 0)
    OBVIOUS
  <2> QED
    BY <2>1, Widths DEF LoopQ2K
<1>2. \A b \in 0 .. 7 : ~ (b < 4) => b \notin 0 .. 3
  OBVIOUS
<1> QED
  BY <1>1, <1>2 DEF LoopQ2K, LoopMinimums

LEMMA EndScalesStep == ASSUME BlockInv, Block!EndScales PROVE BlockInv'
<1>1. /\ packing = "scales" /\ loop = Block!Numbers[format].scale.n
      /\ Block!Becomes(<<>>, IF format = "Q2_K" THEN "mins" ELSE "high", 0)
  BY DEF Block!EndScales
<1>2. /\ format' = format /\ choice' = choice /\ loop' = 0
      /\ packing' = (IF format = "Q2_K" THEN "mins" ELSE "high")
      /\ DOMAIN block' = DOMAIN block /\ \A f \in DOMAIN block : block'[f] = block[f]
      /\ FieldsInv'
      /\ format \in {"Q5_0", "Q2_K", "Q3_K", "Q4_K", "Q5_K", "Q6_K", "IQ4_XS"}
  BY <1>1, NothingWritten
<1>3. FieldsInv /\ ScalesUpTo(loop)
  BY <1>1 DEF BlockInv
<1>4. /\ ScalesAreThere => ScalesAreThere'
      /\ format = "Q2_K" => \A n : LoopMinimums(n) => LoopMinimums(n)'
  BY <1>2, <1>3, ScalesUnwritten
<1>5. CASE format = "Q2_K"
  <2>1. LoopMinimums(0)
    BY <1>1, <1>3, <1>5, ScaleCounts, MinimumsStart DEF ScalesUpTo
  <2>2. LoopMinimums(0)'
    BY <1>4, <1>5, <2>1
  <2>3. LoopMinimums(loop)'
    BY <1>2, <2>2
  <2>4. 0 <= 16
    OBVIOUS
  <2> QED
    BY <1>2, <1>5, <2>3, <2>4 DEF BlockInv
<1>6. CASE format # "Q2_K"
  <2>1. ScalesAreThere
    BY <1>1, <1>3, <1>6, ScaleCounts DEF ScalesUpTo, ScalesAreThere
  <2> QED
    BY <1>2, <1>4, <1>6, <2>1 DEF BlockInv
<1> QED
  BY <1>5, <1>6

LEMMA PackMinimumStep == ASSUME BlockInv, Block!PackMinimum PROVE BlockInv'
<1> DEFINE new == [block.scales EXCEPT ![loop] = @ \union Block!Left(Block!Minimum(loop), 4)]
           fields == [scales |-> new]
<1>1. /\ packing = "mins" /\ loop \in 0 .. Block!Numbers[format].min.n - 1
      /\ format' = format /\ choice' = choice /\ packing' = "mins" /\ loop' = loop + 1
      /\ DOMAIN block' = DOMAIN block
      /\ \A f \in DOMAIN block :
           block'[f] = IF f \in DOMAIN fields THEN fields[f] ELSE block[f]
  <2>1. /\ packing = "mins" /\ loop \in 0 .. Block!Numbers[format].min.n - 1
        /\ Block!Becomes(fields, "mins", loop + 1)
    BY DEF Block!PackMinimum, Block!MinimumsLeft
  <2> HIDE DEF fields
  <2> QED
    BY <2>1, Changes
<1>2. format = "Q2_K" /\ LoopMinimums(loop) /\ FieldsInv
  BY <1>1 DEF BlockInv
<1>3. loop \in 0 .. 15 /\ loop + 1 <= 16 /\ loop + 1 \in Nat
  <2>1. Block!Numbers[format].min.n = 16
    BY <1>2 DEF Block!Numbers
  <2> QED
    BY <1>1, <2>1
<1>4. /\ new \in [0 .. 15 -> SUBSET (0 .. 7)]
      /\ \A i \in 0 .. 15, b \in 0 .. 7 :
           b \in new[i] <=> IF b < 4 THEN b \in Block!Scale(i)
                                     ELSE i < loop + 1 /\ b - 4 \in Block!Minimum(i)
  BY <1>2, <1>3, MinimumStep
<1>5. "scales" \in DOMAIN block /\ DOMAIN block["scales"] = 0 .. 15
  BY <1>2 DEF FieldsInv
<1> HIDE DEF new
<1>6. DOMAIN fields = {"scales"} /\ fields["scales"] = new
  OBVIOUS
<1> HIDE DEF fields
<1>7. block'["scales"] = new
  BY <1>1, <1>5, <1>6
<1>8. FieldsInv'
  BY <1>1, <1>2, <1>4, <1>5, <1>6, FieldsStay
<1>9. LoopMinimums(loop)'
  BY <1>1, <1>4, <1>7, NumbersStay DEF LoopMinimums
<1> QED
  BY <1>1, <1>2, <1>3, <1>8, <1>9 DEF BlockInv

LEMMA EndMinimumsStep == ASSUME BlockInv, Block!EndMinimums PROVE BlockInv'
<1>1. /\ packing = "mins" /\ loop = Block!Numbers[format].min.n
      /\ Block!Becomes(<<>>, "high", 0)
  BY DEF Block!EndMinimums
<1>2. /\ format' = format /\ choice' = choice /\ loop' = 0 /\ packing' = "high"
      /\ DOMAIN block' = DOMAIN block /\ \A f \in DOMAIN block : block'[f] = block[f]
      /\ FieldsInv'
      /\ format \in {"Q5_0", "Q2_K", "Q3_K", "Q4_K", "Q5_K", "Q6_K", "IQ4_XS"}
  BY <1>1, NothingWritten
<1>3. FieldsInv /\ format = "Q2_K" /\ LoopMinimums(loop)
  BY <1>1 DEF BlockInv
<1>4. loop = 16
  BY <1>1, <1>3 DEF Block!Numbers
<1>5. ScalesAreThere
  BY <1>3, <1>4 DEF ScalesAreThere
<1>6. ScalesAreThere'
  BY <1>2, <1>3, <1>5, ScalesUnwritten
<1> QED
  BY <1>2, <1>6 DEF BlockInv

QuantsCleared == format = "Q5_K" => \A l \in 0 .. 31 : block.qh[l] = {}

LEMMA QuantsStart ==
  /\ FieldsInv /\ QuantsCleared
  /\ format \in {"Q5_0", "Q2_K", "Q3_K", "Q4_K", "Q5_K", "Q6_K", "IQ4_XS"}
  => QuantsUpTo(0)
<1> SUFFICES ASSUME FieldsInv, QuantsCleared,
                    format \in {"Q5_0", "Q2_K", "Q3_K", "Q4_K", "Q5_K", "Q6_K", "IQ4_XS"}
             PROVE  QuantsUpTo(0)
  OBVIOUS
<1>1. /\ \A i \in Nat : ~ (i \div 16 < 0) /\ ~ (i \div 32 < 0) /\ ~ (i \div 64 < 0)
      /\ \A b \in 0 .. 7 : ~ (b < 2 * 0)
  <2>1. \A i \in Nat : i \div 16 \in Nat /\ i \div 32 \in Nat /\ i \div 64 \in Nat
    BY Quotients
  <2> QED
    BY <2>1
<1>2. /\ \A i \in 0 .. 15 : i \in Nat
      /\ \A i \in 0 .. 63 : i \in Nat
      /\ \A i \in 0 .. 127 : i \in Nat
      /\ 0 # 1
  OBVIOUS
<1>3. CASE format = "Q5_0"
  BY <1>1, <1>2, <1>3 DEF QuantsUpTo, QsUpTo, FieldsInv
<1>4. CASE format \in {"Q2_K", "Q3_K"}
  <2>1. block.qs \in [0 .. 63 -> SUBSET (0 .. 7)]
    BY <1>4 DEF FieldsInv
  <2>2. QsUpTo(63, 32, 0)
    BY <1>1, <1>2, <2>1 DEF QsUpTo
  <2> QED
    BY <1>4, <2>2 DEF QuantsUpTo
<1>5. CASE format = "Q4_K"
  BY <1>1, <1>2, <1>5 DEF QuantsUpTo, QsUpTo, FieldsInv
<1>6. CASE format = "Q5_K"
  <2>1. QsUpTo(127, 32, 0)
    BY <1>1, <1>2, <1>6 DEF QsUpTo, FieldsInv
  <2>2. FifthUpTo(0)
    BY <1>1, <1>6 DEF FifthUpTo, FieldsInv, QuantsCleared
  <2> QED
    BY <1>6, <2>1, <2>2 DEF QuantsUpTo
<1>7. CASE format = "Q6_K"
  BY <1>1, <1>2, <1>7 DEF QuantsUpTo, SixUpTo, FieldsInv
<1>8. CASE format = "IQ4_XS"
  BY <1>1, <1>2, <1>8 DEF QuantsUpTo, QsUpTo, FieldsInv
<1> QED
  BY <1>3, <1>4, <1>5, <1>6, <1>7, <1>8

LEMMA PackHighStep == ASSUME BlockInv, Block!PackHigh PROVE BlockInv'
<1> DEFINE fields == Block!High
           third == [m \in 0 .. 31 |-> {h \in 0 .. 7 : 2 \in Block!L(32 * h + m)}]
<1>1. /\ packing = "high"
      /\ format' = format /\ choice' = choice /\ packing' = "quants" /\ loop' = 0
      /\ DOMAIN block' = DOMAIN block
      /\ \A f \in DOMAIN block :
           block'[f] = IF f \in DOMAIN fields THEN fields[f] ELSE block[f]
  <2>1. packing = "high" /\ Block!Becomes(fields, "quants", 0)
    BY DEF Block!PackHigh
  <2> HIDE DEF fields
  <2> QED
    BY <2>1, Changes
<1>2. /\ format = "Q3_K" => fields = [hmask |-> third]
      /\ format = "Q5_K" => fields = [qh |-> Block!Zeros("qh")]
      /\ format \notin {"Q3_K", "Q5_K"} => fields = <<>>
  BY DEF Block!High, Block!Low, Block!Byte
<1> HIDE DEF fields
<1>3. /\ FieldsInv /\ format \in {"Q5_0", "Q2_K", "Q3_K", "Q4_K", "Q5_K", "Q6_K", "IQ4_XS"}
      /\ ScalesAreThere
  BY <1>1 DEF BlockInv
<1>4. /\ FieldsInv'
      /\ \A f \in DOMAIN block : f \in {"scales", "scales_l", "scales_h"} => block'[f] = block[f]
      /\ format = "Q3_K" => block'.hmask = third
      /\ format = "Q5_K" => \A l \in 0 .. 31 : block'.qh[l] = {}
  <2>1. CASE format = "Q3_K"
    <3>1. "hmask" \in DOMAIN block /\ DOMAIN block["hmask"] = 0 .. 31
      BY <1>3, <2>1 DEF FieldsInv
    <3>2. DOMAIN fields = {"hmask"} /\ fields["hmask"] = third
      BY <1>2, <2>1
    <3>3. third \in [0 .. 31 -> SUBSET (0 .. 7)]
      OBVIOUS
    <3> HIDE DEF third
    <3> QED
      BY <1>1, <1>3, <2>1, <3>1, <3>2, <3>3, FieldsStay
  <2>2. CASE format = "Q5_K"
    <3>1. "qh" \in DOMAIN block /\ DOMAIN block["qh"] = 0 .. 31
      BY <1>3, <2>2 DEF FieldsInv
    <3>2. DOMAIN fields = {"qh"} /\ fields["qh"] = [l \in 0 .. 31 |-> {}]
      BY <1>2, <2>2, <3>1 DEF Block!Zeros
    <3>3. [l \in 0 .. 31 |-> {}] \in [0 .. 31 -> SUBSET (0 .. 7)]
      OBVIOUS
    <3>4. FieldsInv'
      BY <1>1, <1>3, <3>1, <3>2, <3>3, FieldsStay
    <3> QED
      BY <1>1, <2>2, <3>1, <3>2, <3>4
  <2>3. CASE format \notin {"Q3_K", "Q5_K"}
    <3>1. \A f \in DOMAIN block : block'[f] = block[f]
      BY <1>1, <1>2, <2>3
    <3> QED
      BY <1>1, <1>3, <2>3, <3>1, FieldsStay
  <2> QED
    BY <2>1, <2>2, <2>3
<1>5. ScalesAreThere'
  BY <1>1, <1>3, <1>4, ScalesUnwritten
<1>6. format = "Q3_K" => ThirdBitsAreThere'
  <2> SUFFICES ASSUME format = "Q3_K" PROVE ThirdBitsAreThere'
    OBVIOUS
  <2>1. \A i : Block!L(i)' = Block!L(i)
    BY <1>1, NumbersStay
  <2>2. block'.hmask = third
    BY <1>4
  <2> QED
    BY <2>1, <2>2 DEF ThirdBitsAreThere
<1>7. QuantsUpTo(0)'
  <2>1. QuantsCleared'
    BY <1>1, <1>4 DEF QuantsCleared
  <2>2. (format \in {"Q5_0", "Q2_K", "Q3_K", "Q4_K", "Q5_K", "Q6_K", "IQ4_XS"})'
    BY <1>1, <1>3
  <2> QED
    BY <1>4, <2>1, <2>2, QuantsStart, PTL
<1>8. QuantsUpTo(loop)'
  BY <1>1, <1>7
<1>9. 0 <= Block!Rounds[format]
  BY <1>3 DEF Block!Rounds
<1> QED
  BY <1>1, <1>3, <1>4, <1>5, <1>6, <1>8, <1>9 DEF BlockInv

LEMMA EndQuantsStep == ASSUME BlockInv, Block!EndQuants PROVE BlockInv'
<1>1. packing = "quants" /\ loop = Block!Rounds[format] /\ Block!Becomes(<<>>, "packed", 0)
  BY DEF Block!EndQuants
<1>2. /\ format' = format /\ choice' = choice /\ loop' = 0 /\ packing' = "packed"
      /\ DOMAIN block' = DOMAIN block /\ \A f \in DOMAIN block : block'[f] = block[f]
      /\ FieldsInv'
      /\ format \in {"Q5_0", "Q2_K", "Q3_K", "Q4_K", "Q5_K", "Q6_K", "IQ4_XS"}
  BY <1>1, NothingWritten
<1>3. FieldsInv /\ ScalesAreThere /\ (format = "Q3_K" => ThirdBitsAreThere) /\ QuantsUpTo(loop)
  BY <1>1 DEF BlockInv
<1>4. ScalesAreThere'
  BY <1>2, <1>3, ScalesUnwritten
<1>5. format = "Q3_K" => ThirdBitsAreThere'
  <2>1. format = "Q3_K" => "hmask" \in DOMAIN block
    BY <1>3 DEF FieldsInv
  <2> QED
    BY <1>2, <1>3, <2>1, ThirdBitsStay
<1>6. QuantsUpTo(Block!Rounds[format])'
  BY <1>1, <1>2, <1>3, QuantsStay
<1> QED
  BY <1>2, <1>4, <1>5, <1>6 DEF BlockInv

LEMMA RoundCounts ==
  /\ format = "Q5_0" => Block!Rounds[format] = 1
  /\ format \in {"Q2_K", "Q3_K"} => Block!Rounds[format] = 2
  /\ format \in {"Q4_K", "Q5_K"} => Block!Rounds[format] = 4
  /\ format = "Q6_K" => Block!Rounds[format] = 2
  /\ format = "IQ4_XS" => Block!Rounds[format] = 8
BY DEF Block!Rounds

(* The fields that a round of the quants writes. *)
LEMMA QuantFields ==
  /\ DOMAIN Block!Quads = {"qs"} /\ DOMAIN Block!Pairs = {"qs"} /\ DOMAIN Block!PairsOf32 = {"qs"}
  /\ DOMAIN Block!PairsAndFifth = {"qs", "qh"} /\ DOMAIN Block!SixBits = {"ql", "qh"}
  /\ DOMAIN Block!PairsAndWord = {"qs", "qh"}
  /\ Block!PairsAndFifth["qs"] = Block!Pairs["qs"]
  /\ Block!PairsAndWord["qs"] = Block!PairsOf32["qs"]
<1>1. DOMAIN Block!Quads = {"qs"}
  BY DEF Block!Quads
<1>2. DOMAIN Block!Pairs = {"qs"}
  BY DEF Block!Pairs
<1>3. DOMAIN Block!PairsOf32 = {"qs"}
  BY DEF Block!PairsOf32
<1>4. DOMAIN Block!PairsAndFifth = {"qs", "qh"} /\ Block!PairsAndFifth["qs"] = Block!Pairs["qs"]
  BY DEF Block!PairsAndFifth
<1>5. DOMAIN Block!SixBits = {"ql", "qh"}
  BY DEF Block!SixBits
<1>6. DOMAIN Block!PairsAndWord = {"qs", "qh"} /\ Block!PairsAndWord["qs"] = Block!PairsOf32["qs"]
  BY DEF Block!PairsAndWord
<1> QED
  BY <1>1, <1>2, <1>3, <1>4, <1>5, <1>6

(* One round of the loop of quants, in any format. *)
LEMMA PackQuantsStep == ASSUME BlockInv, Block!PackQuants PROVE BlockInv'
<1> DEFINE fields == CASE format = "Q5_0" -> Block!PairsAndWord
                       [] format \in {"Q2_K", "Q3_K"} -> Block!Quads
                       [] format = "Q4_K" -> Block!Pairs
                       [] format = "Q5_K" -> Block!PairsAndFifth
                       [] format = "Q6_K" -> Block!SixBits
                       [] format = "IQ4_XS" -> Block!PairsOf32
<1>1. /\ packing = "quants" /\ loop < Block!Rounds[format]
      /\ format' = format /\ choice' = choice /\ packing' = "quants" /\ loop' = loop + 1
      /\ DOMAIN block' = DOMAIN block
      /\ \A f \in DOMAIN block :
           block'[f] = IF f \in DOMAIN fields THEN fields[f] ELSE block[f]
  <2>1. /\ packing = "quants" /\ loop < Block!Rounds[format]
        /\ Block!Becomes(fields, "quants", loop + 1)
    BY DEF Block!PackQuants
  <2> HIDE DEF fields
  <2> QED
    BY <2>1, Changes
<1>2. /\ format = "Q5_0" => fields = Block!PairsAndWord
      /\ format \in {"Q2_K", "Q3_K"} => fields = Block!Quads
      /\ format = "Q4_K" => fields = Block!Pairs
      /\ format = "Q5_K" => fields = Block!PairsAndFifth
      /\ format = "Q6_K" => fields = Block!SixBits
      /\ format = "IQ4_XS" => fields = Block!PairsOf32
  OBVIOUS
<1> HIDE DEF fields
<1>3. /\ FieldsInv /\ format \in {"Q5_0", "Q2_K", "Q3_K", "Q4_K", "Q5_K", "Q6_K", "IQ4_XS"}
      /\ loop \in Nat /\ QuantsUpTo(loop) /\ ScalesAreThere /\ (format = "Q3_K" => ThirdBitsAreThere)
  BY <1>1 DEF BlockInv
<1>4. SUFFICES /\ FieldsInv'
               /\ QuantsUpTo(loop)'
  <2>1. \A f \in DOMAIN block : f \in {"scales", "scales_l", "scales_h", "hmask"} => block'[f] = block[f]
    <3>1. \A f \in DOMAIN fields : f \in {"qs", "qh", "ql"}
      BY <1>2, <1>3, QuantFields
    <3> QED
      BY <1>1, <3>1
  <2>2. ScalesAreThere'
    BY <1>1, <1>3, <2>1, ScalesUnwritten
  <2>3. format = "Q3_K" => ThirdBitsAreThere'
    <3>1. format = "Q3_K" => "hmask" \in DOMAIN block
      BY <1>3 DEF FieldsInv
    <3> QED
      BY <1>1, <1>3, <2>1, <3>1, ThirdBitsStay
  <2>4. Block!Rounds[format] \in Nat
    BY <1>3 DEF Block!Rounds
  <2>5. loop + 1 <= Block!Rounds[format] /\ loop + 1 \in Nat
    BY <1>1, <1>3, <2>4
  <2> QED
    BY <1>1, <1>3, <2>2, <2>3, <2>5 DEF BlockInv
<1>5. CASE format \in {"Q2_K", "Q3_K"}
  <2> DEFINE new == Block!Quads.qs
  <2>1. loop \in 0 .. 1 /\ QsUpTo(63, 32, loop)
    <3>1. loop < 2
      BY <1>1, <1>5, RoundCounts
    <3> QED
      BY <1>3, <1>5, <3>1 DEF QuantsUpTo
  <2>2. /\ new \in [0 .. 63 -> SUBSET (0 .. 7)]
        /\ \A i \in 0 .. 63, b \in 0 .. 7 :
             i \div 32 < loop + 1 => (b \in new[i] <=> Block!QuantBit(i, b))
    BY <1>5, <2>1, QuadsStep
  <2>3. DOMAIN fields = {"qs"} /\ fields["qs"] = new
    BY <1>2, <1>5, QuantFields
  <2>4. "qs" \in DOMAIN block /\ DOMAIN block["qs"] = 0 .. 63
    BY <1>3, <1>5 DEF FieldsInv
  <2> HIDE DEF new
  <2>5. block'["qs"] = new
    BY <1>1, <2>3, <2>4
  <2>6. FieldsInv'
    BY <1>1, <1>3, <2>2, <2>3, <2>4, FieldsStay
  <2>7. QsUpTo(63, 32, loop)'
    BY <1>1, <2>2, <2>5, NumbersStay DEF QsUpTo
  <2> QED
    BY <1>1, <1>5, <2>6, <2>7 DEF QuantsUpTo
<1>6. CASE format \in {"Q4_K", "Q5_K"}
  <2> DEFINE new == Block!Pairs.qs
             fifth == Block!PairsAndFifth.qh
  <2>1. loop \in 0 .. 3 /\ QsUpTo(127, 32, loop)
    <3>1. loop < 4
      BY <1>1, <1>6, RoundCounts
    <3> QED
      BY <1>3, <1>6, <3>1 DEF QuantsUpTo
  <2>2. /\ new \in [0 .. 127 -> SUBSET (0 .. 7)]
        /\ \A i \in 0 .. 127, b \in 0 .. 7 :
             i \div 32 < loop + 1 => (b \in new[i] <=> Block!QuantBit(i, b))
    BY <1>6, <2>1, PairsStep
  <2>3. format = "Q5_K" =>
          /\ fifth \in [0 .. 31 -> SUBSET (0 .. 7)]
          /\ \A l \in 0 .. 31, b \in 0 .. 7 :
               b \in fifth[l] <=> b < 2 * (loop + 1) /\ 4 \in Block!L(32 * b + l)
    BY <1>3, <2>1, FifthStep DEF QuantsUpTo
  <2>4. /\ "qs" \in DOMAIN fields /\ fields["qs"] = new
        /\ format = "Q4_K" => DOMAIN fields = {"qs"}
        /\ format = "Q5_K" => DOMAIN fields = {"qs", "qh"} /\ fields["qh"] = fifth
    <3>1. CASE format = "Q4_K"
      BY <1>2, <3>1, QuantFields
    <3>2. CASE format = "Q5_K"
      BY <1>2, <3>2, QuantFields
    <3> QED
      BY <1>6, <3>1, <3>2
  <2>5. /\ "qs" \in DOMAIN block /\ DOMAIN block["qs"] = 0 .. 127
        /\ format = "Q5_K" => "qh" \in DOMAIN block /\ DOMAIN block["qh"] = 0 .. 31
    BY <1>3, <1>6 DEF FieldsInv
  <2> HIDE DEF new, fifth
  <2>6. block'["qs"] = new /\ (format = "Q5_K" => block'["qh"] = fifth)
    BY <1>1, <2>4, <2>5
  <2>7. FieldsInv'
    <3>1. \A f \in DOMAIN fields : fields[f] \in [DOMAIN block[f] -> SUBSET (0 .. 7)]
      <4>1. CASE format = "Q4_K"
        BY <2>2, <2>4, <2>5, <4>1
      <4>2. CASE format = "Q5_K"
        <5>1. fields["qs"] \in [DOMAIN block["qs"] -> SUBSET (0 .. 7)]
          BY <2>2, <2>4, <2>5
        <5>2. fields["qh"] \in [DOMAIN block["qh"] -> SUBSET (0 .. 7)]
          BY <2>3, <2>4, <2>5, <4>2
        <5>3. DOMAIN fields = {"qs", "qh"}
          BY <2>4, <4>2
        <5> QED
          BY <5>1, <5>2, <5>3
      <4> QED
        BY <1>6, <4>1, <4>2
    <3> QED
      BY <1>1, <1>3, <3>1, FieldsStay
  <2>8. QsUpTo(127, 32, loop)'
    BY <1>1, <2>2, <2>6, NumbersStay DEF QsUpTo
  <2>9. format = "Q5_K" => FifthUpTo(loop)'
    <3> SUFFICES ASSUME format = "Q5_K" PROVE FifthUpTo(loop)'
      OBVIOUS
    <3> QED
      BY <1>1, <2>3, <2>6, NumbersStay, SMTT(30) DEF FifthUpTo
  <2> QED
    BY <1>1, <1>6, <2>7, <2>8, <2>9 DEF QuantsUpTo
<1>7. CASE format = "Q6_K"
  <2> DEFINE low == Block!SixBits.ql
             high == Block!SixBits.qh
  <2>1. loop \in 0 .. 1 /\ SixUpTo(loop)
    <3>1. loop < 2
      BY <1>1, <1>7, RoundCounts
    <3> QED
      BY <1>3, <1>7, <3>1 DEF QuantsUpTo
  <2>2. /\ low \in [0 .. 127 -> SUBSET (0 .. 7)]
        /\ high \in [0 .. 63 -> SUBSET (0 .. 7)]
        /\ \A i \in 0 .. 127, b \in 0 .. 7 :
             i \div 64 < loop + 1 => (b \in low[i] <=> Block!Nibbles(i, b, 64))
        /\ \A i \in 0 .. 63, b \in 0 .. 7 :
             i \div 32 < loop + 1 => (b \in high[i] <=> Block!Twos(i, b, 4))
    BY <1>7, <2>1, SixBitsStep
  <2>3. DOMAIN fields = {"ql", "qh"} /\ fields["ql"] = low /\ fields["qh"] = high
    BY <1>2, <1>7, QuantFields
  <2>4. /\ "ql" \in DOMAIN block /\ DOMAIN block["ql"] = 0 .. 127
        /\ "qh" \in DOMAIN block /\ DOMAIN block["qh"] = 0 .. 63
    BY <1>3, <1>7 DEF FieldsInv
  <2> HIDE DEF low, high
  <2>5. block'["ql"] = low /\ block'["qh"] = high
    BY <1>1, <2>3, <2>4
  <2>6. FieldsInv'
    <3>1. \A f \in DOMAIN block : block'[f] = block[f] \/ block'[f] \in [DOMAIN block[f] -> SUBSET (0 .. 7)]
      BY <1>1, <2>2, <2>3, <2>4, <2>5
    <3> QED
      BY <1>1, <1>3, <3>1, FieldsStay
  <2>7. SixUpTo(loop)'
    BY <1>1, <2>2, <2>5, NumbersStay DEF SixUpTo
  <2> QED
    BY <1>1, <1>7, <2>6, <2>7 DEF QuantsUpTo
<1>8. CASE format = "IQ4_XS"
  <2> DEFINE new == Block!PairsOf32.qs
  <2>1. loop \in 0 .. 8 - 1 /\ QsUpTo(127, 16, loop) /\ 8 = Block!Rounds[format]
    <3>1. loop < 8 /\ 8 = Block!Rounds[format]
      BY <1>1, <1>8, RoundCounts
    <3> QED
      BY <1>3, <1>8, <3>1 DEF QuantsUpTo
  <2>2. /\ new \in [0 .. 127 -> SUBSET (0 .. 7)]
        /\ \A i \in 0 .. 127, b \in 0 .. 7 :
             i \div 16 < loop + 1 => (b \in new[i] <=> Block!QuantBit(i, b))
    <3>1. 127 \in Nat /\ 8 \in Nat /\ 127 = 16 * 8 - 1
      OBVIOUS
    <3> QED
      BY <1>8, <2>1, <3>1, PairsOf32Step
  <2>3. DOMAIN fields = {"qs"} /\ fields["qs"] = new
    BY <1>2, <1>8, QuantFields
  <2>4. "qs" \in DOMAIN block /\ DOMAIN block["qs"] = 0 .. 127
    BY <1>3, <1>8 DEF FieldsInv
  <2> HIDE DEF new
  <2>5. block'["qs"] = new
    BY <1>1, <2>3, <2>4
  <2>6. FieldsInv'
    BY <1>1, <1>3, <2>2, <2>3, <2>4, FieldsStay
  <2>7. QsUpTo(127, 16, loop)'
    BY <1>1, <2>2, <2>5, NumbersStay DEF QsUpTo
  <2> QED
    BY <1>1, <1>8, <2>6, <2>7 DEF QuantsUpTo
<1>9. CASE format = "Q5_0"
  <2> DEFINE new == Block!PairsOf32.qs
             word == Block!PairsAndWord.qh
  <2>1. loop \in 0 .. 1 - 1 /\ QsUpTo(15, 16, loop) /\ 1 = Block!Rounds[format]
    <3>1. loop < 1 /\ 1 = Block!Rounds[format]
      BY <1>1, <1>9, RoundCounts
    <3> QED
      BY <1>3, <1>9, <3>1 DEF QuantsUpTo
  <2>2. /\ new \in [0 .. 15 -> SUBSET (0 .. 7)]
        /\ \A i \in 0 .. 15, b \in 0 .. 7 :
             i \div 16 < loop + 1 => (b \in new[i] <=> Block!QuantBit(i, b))
    <3>1. 15 \in Nat /\ 1 \in Nat /\ 15 = 16 * 1 - 1
      OBVIOUS
    <3> QED
      BY <1>9, <2>1, <3>1, PairsOf32Step
  <2>3. /\ word \in [0 .. 3 -> SUBSET (0 .. 7)]
        /\ \A i \in 0 .. 3, b \in 0 .. 7 : b \in word[i] <=> 4 \in Block!L(8 * i + b)
    BY <1>9, WordStep
  <2>4. DOMAIN fields = {"qs", "qh"} /\ fields["qs"] = new /\ fields["qh"] = word
    BY <1>2, <1>9, QuantFields
  <2>5. /\ "qs" \in DOMAIN block /\ DOMAIN block["qs"] = 0 .. 15
        /\ "qh" \in DOMAIN block /\ DOMAIN block["qh"] = 0 .. 3
    BY <1>3, <1>9 DEF FieldsInv
  <2> HIDE DEF new, word
  <2>6. block'["qs"] = new /\ block'["qh"] = word
    BY <1>1, <2>4, <2>5
  <2>7. FieldsInv'
    BY <1>1, <1>3, <2>2, <2>3, <2>4, <2>5, FieldsStay
  <2>8. QsUpTo(15, 16, loop)'
    BY <1>1, <2>2, <2>6, NumbersStay DEF QsUpTo
  <2>9. FifthBitsAreThere'
    BY <1>1, <2>3, <2>6, NumbersStay DEF FifthBitsAreThere
  <2> QED
    BY <1>1, <1>9, <2>7, <2>8, <2>9 DEF QuantsUpTo
<1> QED
  BY <1>3, <1>5, <1>6, <1>7, <1>8, <1>9

(* BlockInv is inductive. *)
LEMMA BlockStep == BlockInv /\ [Block!Next]_blockVars => BlockInv'
<1> SUFFICES ASSUME BlockInv, [Block!Next]_blockVars PROVE BlockInv'
  OBVIOUS
<1>1. CASE Block!Clear
  BY <1>1, ClearStep
<1>2. CASE Block!PackScale
  BY <1>2, PackScaleStep
<1>3. CASE Block!EndScales
  BY <1>3, EndScalesStep
<1>4. CASE Block!PackMinimum
  BY <1>4, PackMinimumStep
<1>5. CASE Block!EndMinimums
  BY <1>5, EndMinimumsStep
<1>6. CASE Block!PackHigh
  BY <1>6, PackHighStep
<1>7. CASE Block!PackQuants
  BY <1>7, PackQuantsStep
<1>8. CASE Block!EndQuants
  BY <1>8, EndQuantsStep
<1>9. CASE UNCHANGED blockVars
  <2>1. /\ format' = format /\ choice' = choice /\ block' = block /\ packing' = packing /\ loop' = loop
    BY <1>9 DEF blockVars
  <2>2. /\ ScalesAreThere => ScalesAreThere'
        /\ format = "Q2_K" => \A n : LoopMinimums(n) => LoopMinimums(n)'
        /\ \A n : ScalesUpTo(n) => ScalesUpTo(n)'
    BY <2>1, ScalesStay
  <2>3. ThirdBitsAreThere => ThirdBitsAreThere'
    BY <2>1, ThirdBitsStay
  <2>4. /\ FieldsInv /\ format \in {"Q5_0", "Q2_K", "Q3_K", "Q4_K", "Q5_K", "Q6_K", "IQ4_XS"}
    BY DEF BlockInv
  <2>5. \A n : QuantsUpTo(n) => QuantsUpTo(n)'
    BY <2>1, <2>4, QuantsStay
  <2>6. FieldsInv'
    BY <2>1, <2>4, FieldsStay
  <2>7. /\ \A n : ScalesUpTo(n) => ScalesUpTo(n)'
        /\ packing = "mins" => \A n : LoopMinimums(n) => LoopMinimums(n)'
    BY <2>2 DEF BlockInv
  <2>8. packing = "scales" => ScalesUpTo(loop)'
    <3>1. packing = "scales" => ScalesUpTo(loop)
      BY DEF BlockInv
    <3>2. \A n : n = loop /\ ScalesUpTo(n) => ScalesUpTo(n)' /\ n = loop'
      BY <2>1, <2>7
    <3> QED
      BY <2>1, <3>1, <3>2
  <2>9. packing = "mins" => LoopMinimums(loop)'
    <3>1. packing = "mins" => LoopMinimums(loop)
      BY DEF BlockInv
    <3>2. packing = "mins" => \A n : n = loop /\ LoopMinimums(n) => LoopMinimums(n)' /\ n = loop'
      BY <2>1, <2>7
    <3> QED
      BY <2>1, <3>1, <3>2
  <2>10. packing = "quants" => QuantsUpTo(loop)'
    <3>1. packing = "quants" => QuantsUpTo(loop)
      BY DEF BlockInv
    <3>2. \A n : n = loop /\ QuantsUpTo(n) => QuantsUpTo(n)' /\ n = loop'
      BY <2>1, <2>5
    <3> QED
      BY <2>1, <3>1, <3>2
  <2>11. packing = "packed" => QuantsUpTo(Block!Rounds[format])'
    <3>1. packing = "packed" => QuantsUpTo(Block!Rounds[format])
      BY DEF BlockInv
    <3>2. \A n : n = Block!Rounds[format] /\ QuantsUpTo(n) => QuantsUpTo(n)' /\ n = (Block!Rounds[format])'
      BY <2>1, <2>5
    <3> QED
      BY <3>1, <3>2
  <2> QED
    BY <2>1, <2>2, <2>3, <2>6, <2>8, <2>9, <2>10, <2>11 DEF BlockInv
<1> QED
  BY <1>1, <1>2, <1>3, <1>4, <1>5, <1>6, <1>7, <1>8, <1>9 DEF Block!Next

-----------------------------------------------------------------------------
(* What a packed block holds *)

(* The bits of a field are those that the layout of its format names. *)
Placed(f) ==
  \A i \in DOMAIN block[f] :
    /\ block[f][i] \in SUBSET (0 .. 7)
    /\ \A b \in 0 .. 7 : b \in block[f][i] <=> Block!Holds(f, i, b)

(* What the loops of the scales have placed is all that a field of scales holds. *)
LEMMA ScalesPlaced ==
  ASSUME FieldsInv, ScalesAreThere
  PROVE  /\ format \in {"Q2_K", "Q3_K", "Q4_K", "Q5_K"} => Placed("scales")
         /\ format = "IQ4_XS" => Placed("scales_l") /\ Placed("scales_h")
<1>1. \A i, b : Block!Holds("scales", i, b) <=> Block!ScaleBit(i, b)
  BY DEF Block!Holds
<1>2. CASE format = "Q2_K"
  <2>1. LoopMinimums(16) /\ DOMAIN block["scales"] = 0 .. 15
    BY <1>2 DEF ScalesAreThere, FieldsInv
  <2>2. \A i \in 0 .. 15 : i < 16
    OBVIOUS
  <2>3. \A i, b : Block!ScaleBit(i, b) <=> IF b < 4 THEN b \in Block!Scale(i) ELSE b - 4 \in Block!Minimum(i)
    BY <1>2 DEF Block!ScaleBit
  <2> QED
    BY <1>1, <1>2, <2>1, <2>2, <2>3 DEF LoopMinimums, Placed
<1>3. CASE format = "Q3_K"
  <2>1. LoopQ3K(16) /\ DOMAIN block["scales"] = 0 .. 11
    BY <1>3 DEF ScalesAreThere, FieldsInv
  <2>2. \A i \in 0 .. 11, b \in 0 .. 7 : ScaleOfBit(i, b) < 16
    <3> SUFFICES ASSUME NEW i \in 0 .. 11, NEW b \in 0 .. 7 PROVE ScaleOfBit(i, b) < 16
      OBVIOUS
    <3>1. b \div 4 \in 0 .. 1 /\ b \div 2 \in 0 .. 3
      BY Z3
    <3> QED
      BY <3>1 DEF ScaleOfBit
  <2> QED
    BY <1>1, <1>3, <2>1, <2>2 DEF LoopQ3K, Placed
<1>4. CASE format \in {"Q4_K", "Q5_K"}
  <2>1. LoopK4(8) /\ DOMAIN block["scales"] = 0 .. 11
    BY <1>4 DEF ScalesAreThere, FieldsInv
  <2>2. \A i, b : Block!ScaleBit(i, b) <=>
          CASE i < 4 -> IF b < 6 THEN b \in Block!Scale(i) ELSE b - 2 \in Block!Scale(i + 4)
            [] i \in 4 .. 7 -> IF b < 6 THEN b \in Block!Minimum(i - 4) ELSE b - 2 \in Block!Minimum(i)
            [] OTHER -> IF b < 4 THEN b \in Block!Scale(i - 4) ELSE b - 4 \in Block!Minimum(i - 4)
    BY <1>4 DEF Block!ScaleBit
  <2>3. ASSUME NEW i \in 0 .. 11, NEW b \in 0 .. 7
        PROVE  b \in block.scales[i] <=> Block!ScaleBit(i, b)
    <3>1. CASE i < 4
      <4>1. i \in 0 .. 3 /\ i < 8 /\ i + 4 < 8
        BY <3>1
      <4>2. Block!ScaleBit(i, b) <=> IF b < 6 THEN b \in Block!Scale(i) ELSE b - 2 \in Block!Scale(i + 4)
        BY <2>2, <3>1
      <4> QED
        BY <2>1, <4>1, <4>2 DEF LoopK4
    <3>2. CASE i \in 4 .. 7
      <4>1. i - 4 \in 0 .. 3 /\ i - 4 < 8 /\ (i - 4) + 4 < 8 /\ (i - 4) + 4 = i /\ ~ (i < 4)
        BY <3>2
      <4>2. Block!ScaleBit(i, b) <=> IF b < 6 THEN b \in Block!Minimum(i - 4) ELSE b - 2 \in Block!Minimum(i)
        BY <2>2, <3>2, <4>1
      <4>3. b \in block.scales[(i - 4) + 4] <=>
              IF b < 6 THEN b \in Block!Minimum(i - 4)
                       ELSE (i - 4) + 4 < 8 /\ b - 2 \in Block!Minimum((i - 4) + 4)
        BY <2>1, <4>1 DEF LoopK4
      <4> QED
        BY <4>1, <4>2, <4>3
    <3>3. CASE i \in 8 .. 11
      <4>1. i - 8 \in 0 .. 3 /\ (i - 8) + 4 < 8 /\ (i - 8) + 8 = i /\ (i - 8) + 4 = i - 4
            /\ ~ (i < 4) /\ i \notin 4 .. 7
        BY <3>3
      <4>2. Block!ScaleBit(i, b) <=> IF b < 4 THEN b \in Block!Scale(i - 4) ELSE b - 4 \in Block!Minimum(i - 4)
        BY <2>2, <4>1
      <4>3. b \in block.scales[(i - 8) + 8] <=>
              IF b < 4 THEN b \in Block!Scale((i - 8) + 4) ELSE b - 4 \in Block!Minimum((i - 8) + 4)
        BY <2>1, <4>1 DEF LoopK4
      <4> QED
        BY <4>1, <4>2, <4>3
    <3> QED
      BY <3>1, <3>2, <3>3
  <2> QED
    BY <1>1, <1>4, <2>1, <2>3 DEF LoopK4, Placed
<1>5. CASE format = "IQ4_XS"
  <2>1. LoopIQ4XS(8) /\ DOMAIN block["scales_l"] = 0 .. 3 /\ DOMAIN block["scales_h"] = 0 .. 1
    BY <1>5 DEF ScalesAreThere, FieldsInv
  <2>2. \A i, b : /\ Block!Holds("scales_l", i, b) <=> (b % 4) \in Block!Scale(2 * i + (b \div 4))
                  /\ Block!Holds("scales_h", i, b) <=> (4 + (b % 2)) \in Block!Scale(4 * i + (b \div 2))
    BY DEF Block!Holds
  <2>3. \A b \in 0 .. 7 : b \div 4 \in 0 .. 1 /\ b \div 2 \in 0 .. 3
    BY BitPlaces
  <2>4. \A i \in 0 .. 3, b \in 0 .. 7 : 2 * i < 8 /\ 2 * i + (b \div 4) < 8
    BY <2>3
  <2>5. \A i \in 0 .. 1, b \in 0 .. 7 : 4 * i + (b \div 2) < 8
    BY <2>3
  <2>6. Placed("scales_l")
    BY <2>1, <2>2, <2>4 DEF LoopIQ4XS, Placed
  <2>7. Placed("scales_h")
    BY <2>1, <2>2, <2>5 DEF LoopIQ4XS, Placed
  <2> QED
    BY <1>5, <2>6, <2>7
<1> QED
  BY <1>2, <1>3, <1>4, <1>5

(* The same of the fields of quants. *)
LEMMA QuantsPlaced ==
  ASSUME FieldsInv, QuantsUpTo(Block!Rounds[format])
  PROVE  /\ format \in {"Q5_0", "Q2_K", "Q3_K", "Q4_K", "Q5_K", "IQ4_XS"} => Placed("qs")
         /\ format \in {"Q5_0", "Q5_K", "Q6_K"} => Placed("qh")
         /\ format = "Q6_K" => Placed("ql")
<1>1. \A i, b : /\ Block!Holds("qs", i, b) <=> Block!QuantBit(i, b)
                /\ Block!Holds("qh", i, b) <=> Block!HighBit(i, b)
                /\ Block!Holds("ql", i, b) <=> Block!Nibbles(i, b, 64)
  BY DEF Block!Holds
<1>2. CASE format \in {"Q2_K", "Q3_K"}
  <2>1. QsUpTo(63, 32, 2) /\ DOMAIN block["qs"] = 0 .. 63
    BY <1>2, RoundCounts DEF QuantsUpTo, FieldsInv
  <2>2. \A i \in 0 .. 63 : i \div 32 < 2
    OBVIOUS
  <2> QED
    BY <1>1, <1>2, <2>1, <2>2 DEF QsUpTo, Placed
<1>3. CASE format \in {"Q4_K", "Q5_K"}
  <2>1. QsUpTo(127, 32, 4) /\ DOMAIN block["qs"] = 0 .. 127
    BY <1>3, RoundCounts DEF QuantsUpTo, FieldsInv
  <2>2. \A i \in 0 .. 127 : i \div 32 < 4
    OBVIOUS
  <2>3. Placed("qs")
    BY <1>1, <2>1, <2>2 DEF QsUpTo, Placed
  <2>4. ASSUME format = "Q5_K" PROVE Placed("qh")
    <3>1. FifthUpTo(4) /\ DOMAIN block["qh"] = 0 .. 31
      BY <2>4, RoundCounts DEF QuantsUpTo, FieldsInv
    <3>2. \A i, b : Block!HighBit(i, b) <=> 4 \in Block!L(32 * b + i)
      BY <2>4 DEF Block!HighBit
    <3>3. \A b \in 0 .. 7 : b < 2 * 4
      OBVIOUS
    <3> QED
      BY <1>1, <3>1, <3>2, <3>3 DEF FifthUpTo, Placed
  <2> QED
    BY <1>3, <2>3, <2>4
<1>4. CASE format = "Q6_K"
  <2>1. SixUpTo(2) /\ DOMAIN block["ql"] = 0 .. 127 /\ DOMAIN block["qh"] = 0 .. 63
    BY <1>4, RoundCounts DEF QuantsUpTo, FieldsInv
  <2>2. (\A i \in 0 .. 63 : i \div 32 < 2) /\ (\A i \in 0 .. 127 : i \div 64 < 2)
    OBVIOUS
  <2>3. \A i, b : Block!HighBit(i, b) <=> Block!Twos(i, b, 4)
    BY <1>4 DEF Block!HighBit
  <2>4. Placed("ql")
    BY <1>1, <2>1, <2>2, ZenonT(60) DEF SixUpTo, Placed
  <2>5. Placed("qh")
    BY <1>1, <2>1, <2>2, <2>3, ZenonT(60) DEF SixUpTo, Placed
  <2> QED
    BY <1>4, <2>4, <2>5
<1>5. CASE format = "IQ4_XS"
  <2>1. QsUpTo(127, 16, 8) /\ DOMAIN block["qs"] = 0 .. 127
    BY <1>5, RoundCounts DEF QuantsUpTo, FieldsInv
  <2>2. \A i \in 0 .. 127 : i \div 16 < 8
    OBVIOUS
  <2> QED
    BY <1>1, <1>5, <2>1, <2>2 DEF QsUpTo, Placed
<1>6. CASE format = "Q5_0"
  <2>1. QsUpTo(15, 16, 1) /\ FifthBitsAreThere /\ DOMAIN block["qs"] = 0 .. 15 /\ DOMAIN block["qh"] = 0 .. 3
    BY <1>6, RoundCounts DEF QuantsUpTo, FieldsInv
  <2>2. \A i \in 0 .. 15 : i \div 16 < 1
    OBVIOUS
  <2>3. \A i, b : Block!HighBit(i, b) <=> 4 \in Block!L(8 * i + b)
    BY <1>6 DEF Block!HighBit
  <2>4. Placed("qs")
    BY <1>1, <2>1, <2>2 DEF QsUpTo, Placed
  <2>5. Placed("qh")
    BY <1>1, <2>1, <2>3 DEF FifthBitsAreThere, Placed
  <2> QED
    BY <1>6, <2>4, <2>5
<1> QED
  BY <1>2, <1>3, <1>4, <1>5, <1>6

LEMMA ThirdBitsPlaced ==
  ASSUME FieldsInv, format = "Q3_K", ThirdBitsAreThere
  PROVE  Placed("hmask")
<1>1. \A i, b : Block!Holds("hmask", i, b) <=> 2 \in Block!L(32 * b + i)
  BY DEF Block!Holds
<1> QED
  BY <1>1 DEF ThirdBitsAreThere, Placed

(* Nothing but the bits of the numbers is in a packed block. *)
LEMMA NothingElse == BlockInv => Block!NothingElseIsStored
<1> SUFFICES ASSUME BlockInv, packing = "packed", NEW f \in DOMAIN block, NEW i \in DOMAIN block[f]
             PROVE  block[f][i] = {b \in 0 .. 7 : Block!Holds(f, i, b)}
  BY Lows DEF Block!NothingElseIsStored
<1>1. FieldsInv /\ ScalesAreThere /\ (format = "Q3_K" => ThirdBitsAreThere) /\ QuantsUpTo(Block!Rounds[format])
      /\ format \in {"Q5_0", "Q2_K", "Q3_K", "Q4_K", "Q5_K", "Q6_K", "IQ4_XS"}
  BY DEF BlockInv
<1>2. /\ format = "Q5_0" => f \in {"qh", "qs"}
      /\ format = "Q2_K" => f \in {"scales", "qs"}
      /\ format = "Q3_K" => f \in {"hmask", "qs", "scales"}
      /\ format = "Q4_K" => f \in {"scales", "qs"}
      /\ format = "Q5_K" => f \in {"scales", "qh", "qs"}
      /\ format = "Q6_K" => f \in {"ql", "qh"}
      /\ format = "IQ4_XS" => f \in {"scales_h", "scales_l", "qs"}
  BY <1>1 DEF FieldsInv
<1>3. Placed(f)
  BY <1>1, <1>2, ScalesPlaced, QuantsPlaced, ThirdBitsPlaced
<1>4. block[f][i] \in SUBSET (0 .. 7) /\ \A b \in 0 .. 7 : b \in block[f][i] <=> Block!Holds(f, i, b)
  BY <1>3 DEF Placed
<1> QED
  BY <1>4

-----------------------------------------------------------------------------
(* The decoders *)

(* What a byte holds in its lower and in its upper half. *)
LEMMA Halves ==
  ASSUME NEW byte \in SUBSET (0 .. 7), NEW s, NEW t,
         \A b \in 0 .. 7 : b \in byte <=> IF b < 4 THEN b \in s ELSE b - 4 \in t
  PROVE  /\ byte \intersect (0 .. 3) = s \intersect (0 .. 3)
         /\ Block!Right(byte, 4) = t \intersect (0 .. 3)
<1>1. \A b \in 0 .. 3 : b \in 0 .. 7 /\ b < 4
  OBVIOUS
<1>2. byte \intersect (0 .. 3) = s \intersect (0 .. 3)
  BY <1>1
<1>3. byte \in SUBSET Nat /\ 4 \in Nat
  OBVIOUS
<1>4. Block!Right(byte, 4) \in SUBSET Nat
  BY <1>3, ShiftsAreBits
<1>5. \A b \in Nat : b \in Block!Right(byte, 4) <=> b + 4 \in byte
  BY <1>3, RightHas
<1>6. \A b \in Nat : b + 4 \in byte <=> b \in 0 .. 3 /\ b \in t
  <2> SUFFICES ASSUME NEW b \in Nat PROVE b + 4 \in byte <=> b \in 0 .. 3 /\ b \in t
    OBVIOUS
  <2>1. (b + 4 \in 0 .. 7 <=> b \in 0 .. 3) /\ (b + 4) - 4 = b /\ ~ (b + 4 < 4)
    OBVIOUS
  <2> QED
    BY <2>1
<1>7. t \intersect (0 .. 3) \in SUBSET Nat
  OBVIOUS
<1>8. Block!Right(byte, 4) = t \intersect (0 .. 3)
  BY <1>4, <1>5, <1>6, <1>7
<1> QED
  BY <1>2, <1>8

(* Two bits of a byte, moved to where the upper two of six belong. *)
LEMMA PairAbove ==
  ASSUME NEW byte \in SUBSET (0 .. 7), NEW q \in 0 .. 3, NEW s \in SUBSET (0 .. 5),
         \A b \in {2 * q, 2 * q + 1} : b \in byte <=> 4 + (b - 2 * q) \in s
  PROVE  Block!Left(Block!Right(byte, 2 * q) \intersect (0 .. 1), 4) = s \intersect {4, 5}
<1> DEFINE r == Block!Right(byte, 2 * q)
           p == r \intersect (0 .. 1)
<1>1. byte \in SUBSET Nat /\ 2 * q \in Nat /\ 4 \in Nat
  OBVIOUS
<1>2. p \in SUBSET Nat
  OBVIOUS
<1>3. \A x \in Nat : x \in r <=> x + 2 * q \in byte
  BY <1>1, RightHas
<1> HIDE DEF r
<1>4. \A x \in 0 .. 1 : x \in p <=> 4 + x \in s
  <2> SUFFICES ASSUME NEW x \in 0 .. 1 PROVE x \in p <=> 4 + x \in s
    OBVIOUS
  <2>1. x \in Nat /\ x + 2 * q \in {2 * q, 2 * q + 1} /\ (x + 2 * q) - 2 * q = x
    OBVIOUS
  <2>2. x + 2 * q \in byte <=> 4 + x \in s
    BY <2>1
  <2> QED
    BY <1>3, <2>1, <2>2
<1>5. \A x \in p : x \in 0 .. 1
  OBVIOUS
<1> HIDE DEF p
<1>6. Block!Left(p, 4) \in SUBSET Nat /\ \A x \in Nat : x \in Block!Left(p, 4) <=> x >= 4 /\ x - 4 \in p
  BY <1>1, <1>2, LeftHas, ShiftsAreBits
<1>7. \A x \in Nat : x >= 4 /\ x - 4 \in p <=> x \in s \intersect {4, 5}
  <2> SUFFICES ASSUME NEW x \in Nat PROVE x >= 4 /\ x - 4 \in p <=> x \in s \intersect {4, 5}
    OBVIOUS
  <2>1. x - 4 \in 0 .. 1 <=> x \in {4, 5}
    OBVIOUS
  <2>2. x \in {4, 5} => x >= 4 /\ 4 + (x - 4) = x
    OBVIOUS
  <2> QED
    BY <1>4, <1>5, <2>1, <2>2
<1>8. s \intersect {4, 5} \in SUBSET Nat
  OBVIOUS
<1>9. Block!Left(p, 4) = s \intersect {4, 5}
  BY <1>6, <1>7, <1>8
<1> QED
  BY <1>9 DEF p, r

LEMMA SixBitsAre ==
  ASSUME NEW s \in SUBSET (0 .. 5)
  PROVE  (s \intersect (0 .. 3)) \union (s \intersect {4, 5}) = s
<1>1. \A x \in 0 .. 5 : x \in 0 .. 3 \/ x \in {4, 5}
  OBVIOUS
<1> QED
  BY <1>1

(* Each decoder of scales undoes the layout of its format. *)
LEMMA Q2KDecodes ==
  ASSUME format = "Q2_K", FieldsInv, Placed("scales"), NEW i \in 0 .. 15
  PROVE  Block!DecodedScale(i) = Block!Scale(i) /\ Block!DecodedMinimum(i) = Block!Minimum(i)
<1>1. /\ block.scales[i] \in SUBSET (0 .. 7)
      /\ \A b \in 0 .. 7 : b \in block.scales[i] <=>
           IF b < 4 THEN b \in Block!Scale(i) ELSE b - 4 \in Block!Minimum(i)
  BY DEF FieldsInv, Placed, Block!Holds, Block!ScaleBit
<1>2. /\ block.scales[i] \intersect (0 .. 3) = Block!Scale(i) \intersect (0 .. 3)
      /\ Block!Right(block.scales[i], 4) = Block!Minimum(i) \intersect (0 .. 3)
  BY <1>1, Halves
<1>3. Block!Scale(i) \subseteq 0 .. 3 /\ Block!Minimum(i) \subseteq 0 .. 3
  BY Widths
<1> QED
  BY <1>2, <1>3, Lows DEF Block!DecodedScale, Block!DecodedMinimum

LEMMA Q3KReadsBack ==
  ASSUME format = "Q3_K", FieldsInv, Placed("scales"), NEW i \in 0 .. 15
  PROVE  Block!ReadBackScale(i) = Block!Scale(i)
<1> DEFINE s == Block!Scale(i)
<1>1. s \in SUBSET (0 .. 5)
  BY Widths
<1>2. \A k \in 0 .. 11 : /\ block.scales[k] \in SUBSET (0 .. 7)
                         /\ \A b \in 0 .. 7 : b \in block.scales[k] <=> Block!ScaleBit(k, b)
  BY DEF FieldsInv, Placed, Block!Holds
<1>3. PICK g \in 0 .. 3, r \in 0 .. 3 : g = i \div 4 /\ r = i % 4 /\ i = 4 * g + r
  <2>1. i \div 4 \in 0 .. 3 /\ i % 4 \in 0 .. 3 /\ i = 4 * (i \div 4) + (i % 4)
    BY Z3
  <2> QED
    BY <2>1
<1>4. (IF i < 8 THEN block.scales[i] \intersect (0 .. 3) ELSE Block!Right(block.scales[i - 8], 4))
        = s \intersect (0 .. 3)
  <2> DEFINE k == IF i < 8 THEN i ELSE i - 8
  <2>1. k \in 0 .. 11 /\ k < 8 /\ (i < 8 => k = i) /\ (~ (i < 8) => k = i - 8 /\ k + 8 = i)
    OBVIOUS
  <2> HIDE DEF k
  <2>2. \A b \in 0 .. 7 : b \in block.scales[k] <=>
          IF b < 4 THEN b \in Block!Scale(k) ELSE b - 4 \in Block!Scale(k + 8)
    <3> SUFFICES ASSUME NEW b \in 0 .. 7
                 PROVE  b \in block.scales[k] <=>
                          IF b < 4 THEN b \in Block!Scale(k) ELSE b - 4 \in Block!Scale(k + 8)
      OBVIOUS
    <3>1. b \in block.scales[k] <=> (b % 4) \in Block!Scale(k + 8 * (b \div 4))
      BY <1>2, <2>1 DEF Block!ScaleBit
    <3>2. /\ b < 4 => k + 8 * (b \div 4) = k /\ b % 4 = b
          /\ ~ (b < 4) => k + 8 * (b \div 4) = k + 8 /\ b % 4 = b - 4
      BY <2>1, BitPlaces
    <3> QED
      BY <3>1, <3>2
  <2>3. block.scales[k] \in SUBSET (0 .. 7)
    BY <1>2, <2>1
  <2>4. /\ block.scales[k] \intersect (0 .. 3) = Block!Scale(k) \intersect (0 .. 3)
        /\ Block!Right(block.scales[k], 4) = Block!Scale(k + 8) \intersect (0 .. 3)
    BY <2>2, <2>3, Halves
  <2> QED
    BY <2>1, <2>4
<1>5. Block!Left(Block!Right(block.scales[8 + r], 2 * g) \intersect (0 .. 1), 4) = s \intersect {4, 5}
  <2>1. 8 + r \in 0 .. 11 /\ ~ (8 + r < 8)
    OBVIOUS
  <2>2. \A b \in {2 * g, 2 * g + 1} : b \in block.scales[8 + r] <=> 4 + (b - 2 * g) \in s
    <3> SUFFICES ASSUME NEW b \in {2 * g, 2 * g + 1}
                 PROVE  b \in block.scales[8 + r] <=> 4 + (b - 2 * g) \in s
      OBVIOUS
    <3>1. b \in 0 .. 7 /\ b \div 2 = g /\ b % 2 = b - 2 * g
      OBVIOUS
    <3>2. b \in block.scales[8 + r] <=> (4 + (b % 2)) \in Block!Scale(8 + r - 8 + 4 * (b \div 2))
      BY <1>2, <2>1, <3>1 DEF Block!ScaleBit
    <3>3. 8 + r - 8 + 4 * g = i
      BY <1>3
    <3> QED
      BY <3>1, <3>2, <3>3
  <2>3. block.scales[8 + r] \in SUBSET (0 .. 7)
    BY <1>2, <2>1
  <2> HIDE DEF s
  <2> QED
    BY <1>1, <2>2, <2>3, PairAbove
<1> QED
  BY <1>1, <1>3, <1>4, <1>5, SixBitsAre, Lows DEF Block!ReadBackScale

(* Little-endian words *)
LEMMA WordHas ==
  ASSUME NEW bytes, NEW first \in Nat, NEW n \in Nat,
         \A k \in 0 .. n - 1 : bytes[first + k] \in SUBSET (0 .. 7),
         NEW k \in Nat, NEW b \in 0 .. 7
  PROVE  b + 8 * k \in Block!Word(bytes, first, n) <=> k < n /\ b \in bytes[first + k]
<1>1. \A m \in 0 .. n - 1 : \A x \in Nat :
        x \in Block!Left(bytes[first + m], 8 * m) <=> x >= 8 * m /\ x - 8 * m \in bytes[first + m]
  <2> SUFFICES ASSUME NEW m \in 0 .. n - 1, NEW x \in Nat
               PROVE  x \in Block!Left(bytes[first + m], 8 * m) <=>
                        x >= 8 * m /\ x - 8 * m \in bytes[first + m]
    OBVIOUS
  <2>1. bytes[first + m] \in SUBSET Nat /\ 8 * m \in Nat
    <3>1. bytes[first + m] \in SUBSET (0 .. 7)
      OBVIOUS
    <3> QED
      BY <3>1
  <2> QED
    BY <2>1, LeftHas
<1>2. b + 8 * k \in Nat
  OBVIOUS
<1>3. ASSUME NEW m \in 0 .. n - 1
      PROVE  b + 8 * k \in Block!Left(bytes[first + m], 8 * m) <=> m = k /\ b \in bytes[first + m]
  <2>1. bytes[first + m] \in SUBSET (0 .. 7)
    OBVIOUS
  <2>2. (b + 8 * k) - 8 * m \in 0 .. 7 => m = k
    OBVIOUS
  <2>3. (b + 8 * k) - 8 * k = b /\ b + 8 * k >= 8 * k
    OBVIOUS
  <2> QED
    BY <1>1, <1>2, <2>1, <2>2, <2>3
<1>4. b + 8 * k \in Block!Word(bytes, first, n) <=>
        \E m \in 0 .. n - 1 : b + 8 * k \in Block!Left(bytes[first + m], 8 * m)
  BY DEF Block!Word, Block!Low
<1>5. k \in 0 .. n - 1 <=> k < n
  OBVIOUS
<1> QED
  BY <1>3, <1>4, <1>5

LEMMA WordsAreBits ==
  ASSUME NEW bytes, NEW first \in Nat, NEW n \in Nat,
         \A k \in 0 .. n - 1 : bytes[first + k] \in SUBSET (0 .. 7)
  PROVE  Block!Word(bytes, first, n) \in SUBSET Nat
<1> SUFFICES ASSUME NEW x \in Block!Word(bytes, first, n) PROVE x \in Nat
  OBVIOUS
<1>1. PICK m \in 0 .. n - 1 : x \in Block!Left(bytes[first + m], 8 * m)
  BY DEF Block!Word, Block!Low
<1>2. bytes[first + m] \in SUBSET Nat /\ 8 * m \in Nat
  <2>1. bytes[first + m] \in SUBSET (0 .. 7)
    OBVIOUS
  <2> QED
    BY <2>1
<1> QED
  BY <1>1, <1>2, ShiftsAreBits

LEMMA EachByteHas ==
  ASSUME NEW n \in 0 .. 4, NEW b \in 0 .. 7, NEW k \in 0 .. 3
  PROVE  b + 8 * k \in Block!EachByte(n) <=> b < n
<1>1. b + 8 * k \in Block!EachByte(n) <=> \E i \in 0 .. 3, c \in 0 .. n - 1 : b + 8 * k = 8 * i + c
  BY DEF Block!EachByte, Block!Low
<1>2. \A i \in 0 .. 3, c \in 0 .. n - 1 : b + 8 * k = 8 * i + c => b = c
  OBVIOUS
<1>3. b < n => b \in 0 .. n - 1 /\ b + 8 * k = 8 * k + b
  OBVIOUS
<1>4. \A c \in 0 .. n - 1 : c < n
  OBVIOUS
<1> QED
  BY <1>1, <1>2, <1>3, <1>4

(* The word of Q3_K's decoder that the scales 4 * g .. 4 * g + 3 come from. *)
Aux(w, first, upper) ==
  (Block!Right(Block!Word(block.scales, 4 * w, 4), first) \intersect Block!EachByte(4))
    \union Block!Left(Block!Right(Block!Word(block.scales, 8, 4), upper) \intersect Block!EachByte(2), 4)

(* A byte of the words into which Q3_K's decoder sorts the scales is one scale. *)
LEMMA AuxHas ==
  ASSUME format = "Q3_K", FieldsInv, NEW w \in 0 .. 1, NEW first \in {0, 4},
         NEW upper \in 0 .. 6, NEW r \in 0 .. 3
  PROVE  /\ Aux(w, first, upper) \in SUBSET Nat
         /\ \A x \in 0 .. 7 :
              x + 8 * r \in Aux(w, first, upper) <=>
                \/ x < 4 /\ x + first \in block.scales[4 * w + r]
                \/ x \in {4, 5} /\ (x - 4) + upper \in block.scales[8 + r]
<1> DEFINE low == Block!Word(block.scales, 4 * w, 4)
           tmp == Block!Word(block.scales, 8, 4)
           four == Block!Right(low, first) \intersect Block!EachByte(4)
           two == Block!Right(tmp, upper) \intersect Block!EachByte(2)
<1>0. first \in Nat /\ upper \in Nat /\ 4 \in Nat /\ 8 \in Nat /\ 4 * w \in Nat /\ r \in Nat
  OBVIOUS
<1>1. \A k \in 0 .. 11 : block.scales[k] \in SUBSET (0 .. 7)
  BY DEF FieldsInv
<1>2. /\ \A k \in 0 .. 4 - 1 : block.scales[4 * w + k] \in SUBSET (0 .. 7)
      /\ \A k \in 0 .. 4 - 1 : block.scales[8 + k] \in SUBSET (0 .. 7)
  <2>1. \A k \in 0 .. 4 - 1 : 4 * w + k \in 0 .. 11 /\ 8 + k \in 0 .. 11
    OBVIOUS
  <2> QED
    BY <1>1, <2>1
<1>3. low \in SUBSET Nat /\ tmp \in SUBSET Nat
  BY <1>0, <1>2, WordsAreBits
<1>4. \A k \in Nat, b \in 0 .. 7 :
        /\ b + 8 * k \in low <=> k < 4 /\ b \in block.scales[4 * w + k]
        /\ b + 8 * k \in tmp <=> k < 4 /\ b \in block.scales[8 + k]
  BY <1>0, <1>2, WordHas
<1> HIDE DEF low, tmp
<1>5. four \in SUBSET Nat /\ two \in SUBSET Nat
  BY <1>0, <1>3, ShiftsAreBits
<1>6. Block!Left(two, 4) \in SUBSET Nat
  <2> HIDE DEF two
  <2> QED
    BY <1>0, <1>5, ShiftsAreBits
<1>7. Aux(w, first, upper) = four \union Block!Left(two, 4)
  BY DEF Aux, low, tmp
<1>8. ASSUME NEW x \in 0 .. 7
      PROVE  x + 8 * r \in four <=> x < 4 /\ x + first \in block.scales[4 * w + r]
  <2>1. x + 8 * r \in Nat /\ r < 4 /\ 4 \in 0 .. 4
    OBVIOUS
  <2>2. x + 8 * r \in Block!Right(low, first) <=> (x + 8 * r) + first \in low
    BY <1>0, <1>3, <2>1, RightHas
  <2>3. x + 8 * r \in Block!EachByte(4) <=> x < 4
    BY <2>1, EachByteHas
  <2>4. x < 4 => x + first \in 0 .. 7 /\ (x + 8 * r) + first = (x + first) + 8 * r
    OBVIOUS
  <2> QED
    BY <1>0, <1>4, <2>1, <2>2, <2>3, <2>4
<1>9. ASSUME NEW x \in 0 .. 7
      PROVE  x + 8 * r \in Block!Left(two, 4) <=> x \in {4, 5} /\ (x - 4) + upper \in block.scales[8 + r]
  <2>1. x + 8 * r \in Nat /\ r < 4 /\ 2 \in 0 .. 4
    OBVIOUS
  <2>2. x + 8 * r \in Block!Left(two, 4) <=> x + 8 * r >= 4 /\ (x + 8 * r) - 4 \in two
    <3> HIDE DEF two
    <3> QED
      BY <1>0, <1>5, <2>1, LeftHas
  <2>3. CASE x >= 4
    <3>1. /\ x - 4 \in 0 .. 7 /\ (x + 8 * r) - 4 = (x - 4) + 8 * r /\ x + 8 * r >= 4
          /\ (x - 4) + 8 * r \in Nat /\ (x - 4 < 2 <=> x \in {4, 5})
      BY <2>3
    <3>2. (x - 4) + 8 * r \in Block!EachByte(2) <=> x \in {4, 5}
      BY <2>1, <3>1, EachByteHas
    <3>3. (x - 4) + 8 * r \in Block!Right(tmp, upper) <=> ((x - 4) + 8 * r) + upper \in tmp
      BY <1>0, <1>3, <3>1, RightHas
    <3>4. x \in {4, 5} => (x - 4) + upper \in 0 .. 7 /\ ((x - 4) + 8 * r) + upper = ((x - 4) + upper) + 8 * r
      OBVIOUS
    <3>5. x \in {4, 5} => (((x - 4) + upper) + 8 * r \in tmp <=> (x - 4) + upper \in block.scales[8 + r])
      BY <1>0, <1>4, <2>1, <3>4
    <3> QED
      BY <2>2, <3>1, <3>2, <3>3, <3>4, <3>5
  <2>4. CASE x < 4
    <3>1. x \notin {4, 5}
      BY <2>4
    <3>2. ASSUME x + 8 * r >= 4 PROVE (x + 8 * r) - 4 \notin Block!EachByte(2)
      <4>1. r - 1 \in 0 .. 3 /\ x + 4 \in 0 .. 7 /\ (x + 8 * r) - 4 = (x + 4) + 8 * (r - 1) /\ ~ (x + 4 < 2)
        BY <2>4, <3>2
      <4> QED
        BY <2>1, <4>1, EachByteHas
    <3> QED
      BY <2>2, <3>1, <3>2
  <2>5. x >= 4 \/ x < 4
    OBVIOUS
  <2> QED
    BY <2>3, <2>4, <2>5
<1> HIDE DEF four, two
<1> QED
  BY <1>5, <1>6, <1>7, <1>8, <1>9

LEMMA Q3KDecodes ==
  ASSUME format = "Q3_K", FieldsInv, Placed("scales"), NEW i \in 0 .. 15
  PROVE  Block!DecodedScale(i) = Block!Scale(i)
<1> DEFINE s == Block!Scale(i)
<1>1. s \in SUBSET (0 .. 5)
  BY Widths
<1>2. \A k \in 0 .. 11, b \in 0 .. 7 : b \in block.scales[k] <=> Block!ScaleBit(k, b)
  BY DEF FieldsInv, Placed, Block!Holds
<1>3. PICK g \in 0 .. 3, r \in 0 .. 3 : g = i \div 4 /\ r = i % 4 /\ i = 4 * g + r
  <2>1. i \div 4 \in 0 .. 3 /\ i % 4 \in 0 .. 3 /\ i = 4 * (i \div 4) + (i % 4)
    BY Z3
  <2> QED
    BY <2>1
<1>4. PICK w \in 0 .. 1, first \in {0, 4} :
        /\ Block!ScalesOfQ3K[i] = Block!Stored(Block!Right(Aux(w, first, 2 * g), 8 * r))
        /\ first = 0 => i < 8 /\ 4 * w + r = i
        /\ first = 4 => i >= 8 /\ 4 * w + r = i - 8
  <2> DEFINE aux == <<Aux(0, 0, 0), Aux(1, 0, 2), Aux(0, 4, 4), Aux(1, 4, 6)>>
  <2>1. Block!ScalesOfQ3K = [k \in 0 .. 15 |-> Block!Stored(Block!Right(aux[k \div 4 + 1], 8 * (k % 4)))]
    BY DEF Block!ScalesOfQ3K, Block!Low, Aux
  <2> HIDE DEF aux
  <2>2. Block!ScalesOfQ3K[i] = Block!Stored(Block!Right(aux[g + 1], 8 * r))
    BY <1>3, <2>1
  <2>3. CASE g = 0
    <3>1. aux[g + 1] = Aux(0, 0, 2 * g)
      BY <2>3 DEF aux
    <3>2. i < 8 /\ 4 * 0 + r = i /\ 0 \in 0 .. 1 /\ 0 \in {0, 4} /\ 0 # 4
      BY <1>3, <2>3
    <3> QED
      BY <2>2, <3>1, <3>2
  <2>4. CASE g = 1
    <3>1. aux[g + 1] = Aux(1, 0, 2 * g)
      BY <2>4 DEF aux
    <3>2. i < 8 /\ 4 * 1 + r = i /\ 1 \in 0 .. 1 /\ 0 \in {0, 4} /\ 0 # 4
      BY <1>3, <2>4
    <3> QED
      BY <2>2, <3>1, <3>2
  <2>5. CASE g = 2
    <3>1. aux[g + 1] = Aux(0, 4, 2 * g)
      BY <2>5 DEF aux
    <3>2. i >= 8 /\ 4 * 0 + r = i - 8 /\ 0 \in 0 .. 1 /\ 4 \in {0, 4} /\ 0 # 4
      BY <1>3, <2>5
    <3> QED
      BY <2>2, <3>1, <3>2
  <2>6. CASE g = 3
    <3>1. aux[g + 1] = Aux(1, 4, 2 * g)
      BY <2>6 DEF aux
    <3>2. i >= 8 /\ 4 * 1 + r = i - 8 /\ 1 \in 0 .. 1 /\ 4 \in {0, 4} /\ 0 # 4
      BY <1>3, <2>6
    <3> QED
      BY <2>2, <3>1, <3>2
  <2>7. g = 0 \/ g = 1 \/ g = 2 \/ g = 3
    OBVIOUS
  <2> QED
    BY <2>3, <2>4, <2>5, <2>6, <2>7
<1> DEFINE a == Aux(w, first, 2 * g)
<1>5. /\ a \in SUBSET Nat
      /\ \A x \in 0 .. 7 :
           x + 8 * r \in a <=>
             \/ x < 4 /\ x + first \in block.scales[4 * w + r]
             \/ x \in {4, 5} /\ (x - 4) + 2 * g \in block.scales[8 + r]
  <2>1. 2 * g \in 0 .. 6
    OBVIOUS
  <2> QED
    BY <2>1, AuxHas
<1> HIDE DEF a
<1>6. \A x \in 0 .. 7 : x \in Block!Right(a, 8 * r) <=> x + 8 * r \in a
  <2>1. 8 * r \in Nat /\ \A x \in 0 .. 7 : x \in Nat
    OBVIOUS
  <2> QED
    BY <1>5, <2>1, RightHas
<1>7. ASSUME NEW x \in 0 .. 7, x < 4 PROVE x + first \in block.scales[4 * w + r] <=> x \in s
  <2>1. CASE first = 0
    <3>1. i < 8 /\ 4 * w + r = i /\ x + first = x /\ i \in 0 .. 11
      BY <1>4, <2>1
    <3>2. x \div 4 = 0 /\ x % 4 = x /\ i + 8 * 0 = i
      BY <1>7, BitPlaces
    <3>3. Block!ScaleBit(i, x) <=> (x % 4) \in Block!Scale(i + 8 * (x \div 4))
      BY <3>1 DEF Block!ScaleBit
    <3> QED
      BY <1>2, <3>1, <3>2, <3>3
  <2>2. CASE first = 4
    <3>1. 4 * w + r = i - 8 /\ i - 8 \in 0 .. 11 /\ i - 8 < 8 /\ x + first = x + 4 /\ x + 4 \in 0 .. 7
      BY <1>4, <1>7, <2>2
    <3>2. (x + 4) \div 4 = 1 /\ (x + 4) % 4 = x /\ (i - 8) + 8 * 1 = i
      BY <1>7, <3>1, BitPlaces
    <3>3. Block!ScaleBit(i - 8, x + 4) <=> ((x + 4) % 4) \in Block!Scale((i - 8) + 8 * ((x + 4) \div 4))
      BY <3>1 DEF Block!ScaleBit
    <3> QED
      BY <1>2, <3>1, <3>2, <3>3
  <2> QED
    BY <2>1, <2>2
<1>8. ASSUME NEW x \in {4, 5} PROVE (x - 4) + 2 * g \in block.scales[8 + r] <=> x \in s
  <2> DEFINE b == (x - 4) + 2 * g
  <2>1. b \in 0 .. 7 /\ b \div 2 = g /\ b % 2 = x - 4
    OBVIOUS
  <2>2. 8 + r \in 0 .. 11 /\ ~ (8 + r < 8) /\ 8 + r - 8 + 4 * g = i /\ 4 + (x - 4) = x
    BY <1>3
  <2> HIDE DEF b
  <2>3. Block!ScaleBit(8 + r, b) <=> (4 + (b % 2)) \in Block!Scale(8 + r - 8 + 4 * (b \div 2))
    BY <2>2 DEF Block!ScaleBit
  <2> QED
    BY <1>2, <2>1, <2>2, <2>3 DEF b
<1>9. \A x \in 0 .. 7 : x \in s <=> (x < 4 /\ x \in s) \/ (x \in {4, 5} /\ x \in s)
  <2>1. \A x \in 0 .. 5 : x < 4 \/ x \in {4, 5}
    OBVIOUS
  <2> QED
    BY <1>1, <2>1
<1>10. \A x \in 0 .. 7 : x \in Block!Right(a, 8 * r) <=> x \in s
  BY <1>5, <1>6, <1>7, <1>8, <1>9
<1>11. s \subseteq 0 .. 7
  BY <1>1
<1>12. Block!Stored(Block!Right(a, 8 * r)) = s
  BY <1>10, <1>11, Lows DEF Block!Stored
<1> QED
  BY <1>4, <1>12 DEF Block!DecodedScale, a

(* The bits from the sixth on of a byte, moved to where the upper two of   *)
(* six belong, and the lower six.                                          *)
LEMMA TopOf ==
  ASSUME NEW byte \in SUBSET (0 .. 7), NEW s \in SUBSET (0 .. 5), NEW t \in SUBSET (0 .. 5),
         \A b \in 0 .. 7 : b \in byte <=> IF b < 6 THEN b \in s ELSE b - 2 \in t
  PROVE  /\ byte \intersect (0 .. 5) = s
         /\ Block!Left(Block!Right(byte, 6), 4) = t \intersect {4, 5}
<1>1. \A b \in 0 .. 5 : b \in 0 .. 7 /\ b < 6
  OBVIOUS
<1>2. byte \intersect (0 .. 5) = s
  BY <1>1
<1> DEFINE r == Block!Right(byte, 6)
<1>3. byte \in SUBSET Nat /\ 6 \in Nat /\ 4 \in Nat
  OBVIOUS
<1>4. r \in SUBSET Nat /\ \A x \in Nat : x \in r <=> x + 6 \in byte
  BY <1>3, RightHas, ShiftsAreBits
<1> HIDE DEF r
<1>5. Block!Left(r, 4) \in SUBSET Nat /\ \A x \in Nat : x \in Block!Left(r, 4) <=> x >= 4 /\ x - 4 \in r
  BY <1>3, <1>4, LeftHas, ShiftsAreBits
<1>6. \A x \in Nat : x >= 4 /\ x - 4 \in r <=> x \in t \intersect {4, 5}
  <2> SUFFICES ASSUME NEW x \in Nat PROVE x >= 4 /\ x - 4 \in r <=> x \in t \intersect {4, 5}
    OBVIOUS
  <2>1. x >= 4 => x - 4 \in Nat /\ (x - 4) + 6 = x + 2
    OBVIOUS
  <2>2. x >= 4 => (x + 2 \in 0 .. 7 <=> x \in {4, 5})
    OBVIOUS
  <2>3. x \in {4, 5} => x >= 4 /\ ~ (x + 2 < 6) /\ (x + 2) - 2 = x
    OBVIOUS
  <2> QED
    BY <1>4, <2>1, <2>2, <2>3
<1>7. t \intersect {4, 5} \in SUBSET Nat
  OBVIOUS
<1>8. Block!Left(r, 4) = t \intersect {4, 5}
  BY <1>5, <1>6, <1>7
<1> QED
  BY <1>2, <1>8 DEF r

(* get_scale_min_k4 finds both numbers, before and after the fourth. *)
LEMMA K4Decodes ==
  ASSUME format \in {"Q4_K", "Q5_K"}, FieldsInv, Placed("scales"), NEW i \in 0 .. 7
  PROVE  Block!DecodedScale(i) = Block!Scale(i) /\ Block!DecodedMinimum(i) = Block!Minimum(i)
<1>1. \A k : Block!Scale(k) \in SUBSET (0 .. 5) /\ Block!Minimum(k) \in SUBSET (0 .. 5)
  BY Widths
<1>2. \A k \in 0 .. 11 : block.scales[k] \in SUBSET (0 .. 7)
  BY ZenonT(60) DEF FieldsInv
<1>3. \A k \in 0 .. 11, b \in 0 .. 7 : b \in block.scales[k] <=> Block!ScaleBit(k, b)
  BY DEF FieldsInv, Placed, Block!Holds
<1>4. ASSUME NEW k \in 0 .. 3
      PROVE  \A b \in 0 .. 7 :
        /\ b \in block.scales[k] <=> IF b < 6 THEN b \in Block!Scale(k) ELSE b - 2 \in Block!Scale(k + 4)
        /\ b \in block.scales[k + 4] <=> IF b < 6 THEN b \in Block!Minimum(k) ELSE b - 2 \in Block!Minimum(k + 4)
        /\ b \in block.scales[k + 8] <=> IF b < 4 THEN b \in Block!Scale(k + 4) ELSE b - 4 \in Block!Minimum(k + 4)
  <2>1. /\ k \in 0 .. 11 /\ k + 4 \in 0 .. 11 /\ k + 8 \in 0 .. 11
        /\ k < 4 /\ ~ (k + 4 < 4) /\ k + 4 \in 4 .. 7 /\ ~ (k + 8 < 4) /\ k + 8 \notin 4 .. 7
        /\ (k + 4) - 4 = k /\ (k + 8) - 4 = k + 4
    OBVIOUS
  <2>2. \A b : Block!ScaleBit(k, b) <=> IF b < 6 THEN b \in Block!Scale(k) ELSE b - 2 \in Block!Scale(k + 4)
    BY <2>1 DEF Block!ScaleBit
  <2>3. \A b : Block!ScaleBit(k + 4, b) <=>
          IF b < 6 THEN b \in Block!Minimum((k + 4) - 4) ELSE b - 2 \in Block!Minimum(k + 4)
    BY <2>1 DEF Block!ScaleBit
  <2>4. \A b : Block!ScaleBit(k + 8, b) <=>
          IF b < 4 THEN b \in Block!Scale((k + 8) - 4) ELSE b - 4 \in Block!Minimum((k + 8) - 4)
    BY <2>1 DEF Block!ScaleBit
  <2> QED
    BY <1>3, <2>1, <2>2, <2>3, <2>4
<1>5. ASSUME NEW k \in 0 .. 3
      PROVE  /\ block.scales[k] \intersect (0 .. 5) = Block!Scale(k)
             /\ Block!Left(Block!Right(block.scales[k], 6), 4) = Block!Scale(k + 4) \intersect {4, 5}
             /\ block.scales[k + 4] \intersect (0 .. 5) = Block!Minimum(k)
             /\ Block!Left(Block!Right(block.scales[k + 4], 6), 4) = Block!Minimum(k + 4) \intersect {4, 5}
             /\ block.scales[k + 8] \intersect (0 .. 3) = Block!Scale(k + 4) \intersect (0 .. 3)
             /\ Block!Right(block.scales[k + 8], 4) = Block!Minimum(k + 4) \intersect (0 .. 3)
  <2>1. block.scales[k] \in SUBSET (0 .. 7) /\ block.scales[k + 4] \in SUBSET (0 .. 7)
        /\ block.scales[k + 8] \in SUBSET (0 .. 7)
    BY <1>2
  <2> DEFINE b0 == block.scales[k]
             b4 == block.scales[k + 4]
             b8 == block.scales[k + 8]
             s0 == Block!Scale(k)
             s4 == Block!Scale(k + 4)
             m0 == Block!Minimum(k)
             m4 == Block!Minimum(k + 4)
  <2>2. /\ b0 \in SUBSET (0 .. 7) /\ b4 \in SUBSET (0 .. 7) /\ b8 \in SUBSET (0 .. 7)
        /\ s0 \in SUBSET (0 .. 5) /\ s4 \in SUBSET (0 .. 5)
        /\ m0 \in SUBSET (0 .. 5) /\ m4 \in SUBSET (0 .. 5)
    BY <1>1, <2>1
  <2>3. \A b \in 0 .. 7 :
          /\ b \in b0 <=> IF b < 6 THEN b \in s0 ELSE b - 2 \in s4
          /\ b \in b4 <=> IF b < 6 THEN b \in m0 ELSE b - 2 \in m4
          /\ b \in b8 <=> IF b < 4 THEN b \in s4 ELSE b - 4 \in m4
    BY <1>4
  <2> HIDE DEF b0, b4, b8, s0, s4, m0, m4
  <2>4. b0 \intersect (0 .. 5) = s0 /\ Block!Left(Block!Right(b0, 6), 4) = s4 \intersect {4, 5}
    BY <2>2, <2>3, TopOf
  <2>5. b4 \intersect (0 .. 5) = m0 /\ Block!Left(Block!Right(b4, 6), 4) = m4 \intersect {4, 5}
    BY <2>2, <2>3, TopOf
  <2>6. b8 \intersect (0 .. 3) = s4 \intersect (0 .. 3) /\ Block!Right(b8, 4) = m4 \intersect (0 .. 3)
    BY <2>2, <2>3, Halves
  <2> QED
    BY <2>4, <2>5, <2>6 DEF b0, b4, b8, s0, s4, m0, m4
<1>6. /\ Block!DecodedScale(i) = Block!ScaleOfK4(i)
      /\ Block!DecodedMinimum(i) = Block!MinimumOfK4(i)
  BY DEF Block!DecodedScale, Block!DecodedMinimum
<1>7. CASE i < 4
  <2>1. i \in 0 .. 3
    BY <1>7
  <2> QED
    BY <1>5, <1>6, <1>7, <2>1, Lows DEF Block!ScaleOfK4, Block!MinimumOfK4
<1>8. CASE ~ (i < 4)
  <2>1. PICK k \in 0 .. 3 : i = k + 4 /\ i - 4 = k /\ i + 4 = k + 8
    <3>1. i - 4 \in 0 .. 3 /\ i = (i - 4) + 4 /\ i + 4 = (i - 4) + 8
      BY <1>8
    <3> QED
      BY <3>1
  <2>2. /\ Block!ScaleOfK4(i) = (block.scales[k + 8] \intersect (0 .. 3))
                                  \union Block!Left(Block!Right(block.scales[k], 6), 4)
        /\ Block!MinimumOfK4(i) = Block!Right(block.scales[k + 8], 4)
                                    \union Block!Left(Block!Right(block.scales[k + 4], 6), 4)
    BY <1>8, <2>1, Lows DEF Block!ScaleOfK4, Block!MinimumOfK4
  <2>3. /\ (Block!Scale(k + 4) \intersect (0 .. 3)) \union (Block!Scale(k + 4) \intersect {4, 5}) = Block!Scale(k + 4)
        /\ (Block!Minimum(k + 4) \intersect (0 .. 3)) \union (Block!Minimum(k + 4) \intersect {4, 5}) = Block!Minimum(k + 4)
    BY <1>1, SixBitsAre
  <2> QED
    BY <1>5, <1>6, <2>1, <2>2, <2>3
<1> QED
  BY <1>7, <1>8

LEMMA IQ4XSDecodes ==
  ASSUME format = "IQ4_XS", FieldsInv, Placed("scales_l"), Placed("scales_h"), NEW i \in 0 .. 7
  PROVE  Block!DecodedScale(i) = Block!Scale(i)
<1> DEFINE s == Block!Scale(i)
           word == Block!Word(block.scales_h, 0, 2)
<1>1. \A k : Block!Scale(k) \in SUBSET (0 .. 5)
  BY Widths
<1>2. /\ \A k \in 0 .. 3 : block.scales_l[k] \in SUBSET (0 .. 7)
      /\ \A k \in 0 .. 1 : block.scales_h[k] \in SUBSET (0 .. 7)
      /\ \A k \in 0 .. 3, b \in 0 .. 7 :
           b \in block.scales_l[k] <=> (b % 4) \in Block!Scale(2 * k + (b \div 4))
      /\ \A k \in 0 .. 1, b \in 0 .. 7 :
           b \in block.scales_h[k] <=> (4 + (b % 2)) \in Block!Scale(4 * k + (b \div 2))
  BY DEF FieldsInv, Placed, Block!Holds
<1>3. Block!Right(block.scales_l[i \div 2], 4 * (i % 2)) \intersect (0 .. 3) = s \intersect (0 .. 3)
  <2>1. PICK k \in 0 .. 3, m \in 0 .. 1 : k = i \div 2 /\ m = i % 2 /\ i = 2 * k + m
    <3>1. i \div 2 \in 0 .. 3 /\ i % 2 \in 0 .. 1 /\ i = 2 * (i \div 2) + (i % 2)
      BY Z3
    <3> QED
      BY <3>1
  <2>2. \A x \in 0 .. 3 : x \in Block!Right(block.scales_l[k], 4 * m) <=> x + 4 * m \in block.scales_l[k]
    <3>1. block.scales_l[k] \in SUBSET Nat /\ 4 * m \in Nat /\ \A x \in 0 .. 3 : x \in Nat
      BY <1>2
    <3> QED
      BY <3>1, RightHas
  <2>3. \A x \in 0 .. 3 : x + 4 * m \in block.scales_l[k] <=> x \in s
    <3> SUFFICES ASSUME NEW x \in 0 .. 3 PROVE x + 4 * m \in block.scales_l[k] <=> x \in s
      OBVIOUS
    <3>1. x + 4 * m \in 0 .. 7 /\ (x + 4 * m) % 4 = x /\ (x + 4 * m) \div 4 = m
      OBVIOUS
    <3>2. x + 4 * m \in block.scales_l[k] <=>
            ((x + 4 * m) % 4) \in Block!Scale(2 * k + ((x + 4 * m) \div 4))
      BY <1>2, <3>1
    <3> QED
      BY <2>1, <3>1, <3>2
  <2> QED
    BY <2>1, <2>2, <2>3
<1>4. Block!Left(Block!Right(word, 2 * i) \intersect (0 .. 1), 4) = s \intersect {4, 5}
  <2> DEFINE r == Block!Right(word, 2 * i)
             p == r \intersect (0 .. 1)
  <2>1. \A k \in 0 .. 2 - 1 : block.scales_h[0 + k] \in SUBSET (0 .. 7)
    <3>1. \A k \in 0 .. 2 - 1 : k \in 0 .. 1 /\ 0 + k = k
      OBVIOUS
    <3> QED
      BY <1>2, <3>1
  <2>2. 0 \in Nat /\ 2 \in Nat /\ 4 \in Nat /\ 2 * i \in Nat
    OBVIOUS
  <2>3. word \in SUBSET Nat
    BY <2>1, <2>2, WordsAreBits
  <2>4. \A k \in Nat, b \in 0 .. 7 : b + 8 * k \in word <=> k < 2 /\ b \in block.scales_h[0 + k]
    BY <2>1, <2>2, WordHas
  <2> HIDE DEF word
  <2>5. \A x \in 0 .. 1 : x \in r <=> 4 + x \in s
    <3> SUFFICES ASSUME NEW x \in 0 .. 1 PROVE x \in r <=> 4 + x \in s
      OBVIOUS
    <3>1. x \in r <=> x + 2 * i \in word
      <4>1. x \in Nat
        OBVIOUS
      <4> QED
        BY <2>2, <2>3, <4>1, RightHas
    <3>2. PICK k \in 0 .. 1, h \in 0 .. 3 : i = 4 * k + h
      <4>1. i \div 4 \in 0 .. 1 /\ i % 4 \in 0 .. 3 /\ i = 4 * (i \div 4) + (i % 4)
        BY Z3
      <4> QED
        BY <4>1
    <3>3. /\ x + 2 * h \in 0 .. 7 /\ x + 2 * i = (x + 2 * h) + 8 * k
          /\ (x + 2 * h) \div 2 = h /\ (x + 2 * h) % 2 = x /\ k \in Nat /\ k < 2 /\ 0 + k = k
      BY <3>2
    <3>4. x + 2 * i \in word <=> x + 2 * h \in block.scales_h[k]
      BY <2>4, <3>3
    <3>5. x + 2 * h \in block.scales_h[k] <=>
            (4 + ((x + 2 * h) % 2)) \in Block!Scale(4 * k + ((x + 2 * h) \div 2))
      BY <1>2, <3>3
    <3> QED
      BY <3>1, <3>2, <3>3, <3>4, <3>5
  <2>6. p \in SUBSET Nat /\ \A x \in p : x \in 0 .. 1
    OBVIOUS
  <2>7. \A x \in 0 .. 1 : x \in p <=> 4 + x \in s
    BY <2>5
  <2> HIDE DEF p, r, s
  <2>8. Block!Left(p, 4) \in SUBSET Nat /\ \A x \in Nat : x \in Block!Left(p, 4) <=> x >= 4 /\ x - 4 \in p
    BY <2>2, <2>6, LeftHas, ShiftsAreBits
  <2>9. \A x \in Nat : x >= 4 /\ x - 4 \in p <=> x \in s \intersect {4, 5}
    <3> SUFFICES ASSUME NEW x \in Nat PROVE x >= 4 /\ x - 4 \in p <=> x \in s \intersect {4, 5}
      OBVIOUS
    <3>1. x - 4 \in 0 .. 1 <=> x \in {4, 5}
      OBVIOUS
    <3>2. x \in {4, 5} => x >= 4 /\ 4 + (x - 4) = x
      OBVIOUS
    <3> QED
      BY <2>6, <2>7, <3>1, <3>2
  <2>10. s \intersect {4, 5} \in SUBSET Nat
    OBVIOUS
  <2>11. Block!Left(p, 4) = s \intersect {4, 5}
    BY <2>8, <2>9, <2>10
  <2> QED
    BY <2>11 DEF p, r
<1>5. Block!DecodedScale(i) = (Block!Right(block.scales_l[i \div 2], 4 * (i % 2)) \intersect (0 .. 3))
        \union Block!Left(Block!Right(word, 2 * i) \intersect (0 .. 1), 4)
  BY Lows DEF Block!DecodedScale, Block!ScaleOfIQ4XS
<1>6. (s \intersect (0 .. 3)) \union (s \intersect {4, 5}) = s
  BY <1>1, SixBitsAre
<1> HIDE DEF word, s
<1>7. Block!DecodedScale(i) = s
  BY <1>3, <1>4, <1>5, <1>6
<1> QED
  BY <1>7 DEF s

(* All scales and minimums come back. *)
LEMMA ScalesDecode == BlockInv => Block!ScalesComeBack
<1> SUFFICES ASSUME BlockInv, packing \in {"high", "quants", "packed"}
             PROVE  /\ \A i \in Block!Low(Block!Numbers[format].scale.n) : Block!DecodedScale(i) = Block!Scale(i)
                    /\ \A i \in Block!Low(Block!Numbers[format].min.n) : Block!DecodedMinimum(i) = Block!Minimum(i)
                    /\ format = "Q3_K" => \A i \in Block!Low(16) : Block!ReadBackScale(i) = Block!Scale(i)
  BY DEF Block!ScalesComeBack
<1>1. FieldsInv /\ ScalesAreThere /\ format \in {"Q5_0", "Q2_K", "Q3_K", "Q4_K", "Q5_K", "Q6_K", "IQ4_XS"}
  BY DEF BlockInv
<1>2. Block!Low(16) = 0 .. 15 /\ Block!Low(8) = 0 .. 7 /\ Block!Low(0) = {}
  BY DEF Block!Low
<1>3. /\ format \in {"Q5_0", "Q3_K", "Q6_K", "IQ4_XS"} => Block!Numbers[format].min.n = 0
      /\ format = "Q2_K" => Block!Numbers[format].min.n = 16
      /\ format \in {"Q4_K", "Q5_K"} => Block!Numbers[format].min.n = 8
  BY DEF Block!Numbers
<1>4. /\ format \in {"Q2_K", "Q3_K", "Q4_K", "Q5_K"} => Placed("scales")
      /\ format = "IQ4_XS" => Placed("scales_l") /\ Placed("scales_h")
  BY <1>1, ScalesPlaced
<1>5. CASE format = "Q2_K"
  BY <1>1, <1>2, <1>3, <1>4, <1>5, ScaleCounts, Q2KDecodes
<1>6. CASE format = "Q3_K"
  BY <1>1, <1>2, <1>3, <1>4, <1>6, ScaleCounts, Q3KDecodes, Q3KReadsBack
<1>7. CASE format \in {"Q4_K", "Q5_K"}
  BY <1>1, <1>2, <1>3, <1>4, <1>7, ScaleCounts, K4Decodes
<1>8. CASE format = "IQ4_XS"
  BY <1>1, <1>2, <1>3, <1>4, <1>8, ScaleCounts, IQ4XSDecodes
<1>9. CASE format \in {"Q5_0", "Q6_K"}
  BY <1>2, <1>3, <1>9, ScaleCounts
<1> QED
  BY <1>1, <1>5, <1>6, <1>7, <1>8, <1>9

(* Where the layout by nibbles puts the bits of an element. *)
LEMMA NibblePlaces ==
  ASSUME NEW n \in {16, 32, 64}, NEW e \in 0 .. 255
  PROVE  LET i == n * (e \div (2 * n)) + (e % n) IN
         /\ i \div n = e \div (2 * n) /\ i % n = e % n
         /\ 2 * n * (e \div (2 * n)) + (e % n) = IF e % (2 * n) >= n THEN e - n ELSE e
<1>1. CASE n = 16
  <2>1. LET i == 16 * (e \div 32) + (e % 16) IN
         /\ i \div 16 = e \div 32 /\ i % 16 = e % 16
         /\ 32 * (e \div 32) + (e % 16) = IF e % 32 >= 16 THEN e - 16 ELSE e
    BY Z3
  <2> QED
    BY <1>1, <2>1
<1>2. CASE n = 32
  <2>1. LET i == 32 * (e \div 64) + (e % 32) IN
         /\ i \div 32 = e \div 64 /\ i % 32 = e % 32
         /\ 64 * (e \div 64) + (e % 32) = IF e % 64 >= 32 THEN e - 32 ELSE e
    BY Z3
  <2> QED
    BY <1>2, <2>1
<1>3. CASE n = 64
  <2>1. LET i == 64 * (e \div 128) + (e % 64) IN
         /\ i \div 64 = e \div 128 /\ i % 64 = e % 64
         /\ 128 * (e \div 128) + (e % 64) = IF e % 128 >= 64 THEN e - 64 ELSE e
    BY Z3
  <2> QED
    BY <1>3, <2>1
<1> QED
  BY <1>1, <1>2, <1>3

(* The nibble of an element holds its lower four bits. *)
LEMMA NibbleHas ==
  ASSUME NEW n \in {16, 32, 64}, NEW e \in 0 .. 255, NEW byte \in SUBSET (0 .. 7),
         \A b \in 0 .. 7 : b \in byte <=> Block!Nibbles(n * (e \div (2 * n)) + (e % n), b, n)
  PROVE  Block!Nibble(byte, e % (2 * n) >= n) = Block!L(e) \intersect (0 .. 3)
<1> DEFINE i == n * (e \div (2 * n)) + (e % n)
           first == 2 * n * (i \div n) + (i % n)
           s == Block!L(first)
           t == Block!L(first + n)
<1>1. first = IF e % (2 * n) >= n THEN e - n ELSE e
  <2>1. /\ i \div n = e \div (2 * n) /\ i % n = e % n
        /\ 2 * n * (e \div (2 * n)) + (e % n) = IF e % (2 * n) >= n THEN e - n ELSE e
    BY NibblePlaces, ZenonT(60)
  <2> HIDE DEF i
  <2>2. first = 2 * n * (e \div (2 * n)) + (e % n)
    BY <2>1, Zenon
  <2> QED
    BY <2>1, <2>2, Zenon
<1>2. \A b : Block!Nibbles(i, b, n) <=> (b % 4) \in Block!L(first + n * (b \div 4))
  BY DEF Block!Nibbles
<1>3. n \in Nat /\ first \in Nat
  <2>1. n \in Nat /\ e \in Nat
    OBVIOUS
  <2>2. e % (2 * n) >= n => e - n \in Nat
    <3>1. (n = 16 \/ n = 32 \/ n = 64) => (e % (2 * n) >= n => e - n >= 0)
      BY Z3
    <3> QED
      BY <2>1, <3>1
  <2> QED
    BY <1>1, <2>1, <2>2
<1> HIDE DEF first
<1>4. \A b \in 0 .. 7 : b \in byte <=> IF b < 4 THEN b \in s ELSE b - 4 \in t
  <2> SUFFICES ASSUME NEW b \in 0 .. 7
               PROVE  b \in byte <=> IF b < 4 THEN b \in s ELSE b - 4 \in t
    OBVIOUS
  <2>1. b \in byte <=> (b % 4) \in Block!L(first + n * (b \div 4))
    BY <1>2
  <2>2. CASE b < 4
    <3>1. b \div 4 = 0 /\ b % 4 = b
      BY <2>2, BitPlaces
    <3>2. first + n * 0 = first
      BY <1>3
    <3> QED
      BY <2>1, <2>2, <3>1, <3>2
  <2>3. CASE ~ (b < 4)
    <3>1. b \div 4 = 1 /\ b % 4 = b - 4
      BY <2>3, BitPlaces
    <3>2. first + n * 1 = first + n
      BY <1>3
    <3> QED
      BY <2>1, <2>3, <3>1, <3>2
  <2> QED
    BY <2>2, <2>3
<1> HIDE DEF s, t
<1>5. byte \intersect (0 .. 3) = s \intersect (0 .. 3) /\ Block!Right(byte, 4) = t \intersect (0 .. 3)
  BY <1>4, Halves
<1>6. CASE e % (2 * n) >= n
  <2>1. first + n = e
    <3>1. first = e - n /\ e \in Nat
      BY <1>1, <1>6
    <3> QED
      BY <1>3, <3>1
  <2> QED
    BY <1>5, <1>6, <2>1 DEF Block!Nibble, t
<1>7. CASE ~ (e % (2 * n) >= n)
  BY <1>1, <1>5, <1>7, Lows DEF Block!Nibble, s
<1> QED
  BY <1>6, <1>7

(* The pair of bits of an element in the layout by twos. *)
LEMMA TwosHas ==
  ASSUME NEW e \in 0 .. 255, NEW b, NEW first \in {0, 4},
         b \in {2 * ((e % 128) \div 32), 2 * ((e % 128) \div 32) + 1}
  PROVE  /\ b \in 0 .. 7
         /\ Block!Twos(32 * (e \div 128) + (e % 32), b, first) <=>
              first + (b - 2 * ((e % 128) \div 32)) \in Block!L(e)
<1> DEFINE q == (e % 128) \div 32
           i == 32 * (e \div 128) + (e % 32)
<1>1. q \in 0 .. 3 /\ i \div 32 = e \div 128 /\ i % 32 = e % 32
      /\ 128 * (e \div 128) + (e % 32) + 32 * q = e
  BY Z3
<1> HIDE DEF q
<1>2. b \in {2 * q, 2 * q + 1}
  BY DEF q
<1>3. b \in 0 .. 7 /\ b \div 2 = q /\ b % 2 = b - 2 * q
  <2>1. b = 2 * q \/ b = 2 * q + 1
    BY <1>2
  <2> QED
    BY <1>1, <2>1
<1>4. Block!Twos(i, b, first) <=>
        (first + (b % 2)) \in Block!L(128 * (i \div 32) + (i % 32) + 32 * (b \div 2))
  BY DEF Block!Twos
<1>5. 128 * (i \div 32) + (i % 32) + 32 * (b \div 2) = e
  BY <1>1, <1>3
<1> QED
  BY <1>3, <1>4, <1>5 DEF q

(* Two bits of a byte, moved to where the lower two belong. *)
LEMMA LowPair ==
  ASSUME NEW byte \in SUBSET (0 .. 7), NEW q \in 0 .. 3, NEW s,
         \A b \in {2 * q, 2 * q + 1} : b \in byte <=> 0 + (b - 2 * q) \in s
  PROVE  Block!Right(byte, 2 * q) \intersect (0 .. 1) = s \intersect (0 .. 1)
<1>1. byte \in SUBSET Nat /\ 2 * q \in Nat
  OBVIOUS
<1>2. \A x \in Nat : x \in Block!Right(byte, 2 * q) <=> x + 2 * q \in byte
  BY <1>1, RightHas
<1>3. \A x \in 0 .. 1 : x + 2 * q \in byte <=> x \in s
  <2> SUFFICES ASSUME NEW x \in 0 .. 1 PROVE x + 2 * q \in byte <=> x \in s
    OBVIOUS
  <2>1. x + 2 * q \in {2 * q, 2 * q + 1} /\ 0 + ((x + 2 * q) - 2 * q) = x
    OBVIOUS
  <2>2. x + 2 * q \in byte <=> 0 + ((x + 2 * q) - 2 * q) \in s
    BY <2>1
  <2> QED
    BY <2>1, <2>2
<1>4. \A x \in 0 .. 1 : x \in Nat
  OBVIOUS
<1> QED
  BY <1>2, <1>3, <1>4

(* Where the bytes of an element are. *)
LEMMA BytesOf ==
  ASSUME NEW e \in 0 .. 255
  PROVE  /\ 32 * (e \div 128) + (e % 32) \in 0 .. 63
         /\ 32 * (e \div 64) + (e % 32) \in 0 .. 127
         /\ 16 * (e \div 32) + (e % 16) \in 0 .. 127
         /\ 64 * (e \div 128) + (e % 64) \in 0 .. 127
         /\ (e % 128) \div 32 \in 0 .. 3
         /\ e % 32 \in 0 .. 31 /\ e \div 32 \in 0 .. 7
         /\ 32 * (e \div 32) + (e % 32) = e
         /\ 2 * (e \div 64) + (e % 64) \div 32 = e \div 32
BY Z3

(* What the decoder of Q2_K, and of Q3_K first, takes out. *)
LEMMA TwoBitsAre ==
  ASSUME format \in {"Q2_K", "Q3_K"}, FieldsInv, Placed("qs"), NEW e \in 0 .. 255
  PROVE  Block!TwoBits(e) = Block!L(e) \intersect (0 .. 1)
<1> DEFINE q == (e % 128) \div 32
           i == 32 * (e \div 128) + (e % 32)
           byte == block.qs[i]
<1>1. i \in 0 .. 63 /\ q \in 0 .. 3
  BY BytesOf
<1>2. DOMAIN block["qs"] = 0 .. 63
  BY DEF FieldsInv
<1>3. byte \in SUBSET (0 .. 7) /\ \A b \in 0 .. 7 : b \in byte <=> Block!Twos(i, b, 0)
  BY <1>1, <1>2 DEF Placed, Block!Holds, Block!QuantBit
<1>4. \A b \in {2 * q, 2 * q + 1} :
        b \in 0 .. 7 /\ (Block!Twos(i, b, 0) <=> 0 + (b - 2 * q) \in Block!L(e))
  BY TwosHas
<1>5. Block!TwoBits(e) = Block!Right(byte, 2 * q) \intersect (0 .. 1)
  BY Lows DEF Block!TwoBits
<1> HIDE DEF byte, q, i
<1>6. \A b \in {2 * q, 2 * q + 1} : b \in byte <=> 0 + (b - 2 * q) \in Block!L(e)
  BY <1>3, <1>4
<1>7. Block!Right(byte, 2 * q) \intersect (0 .. 1) = Block!L(e) \intersect (0 .. 1)
  BY <1>1, <1>3, <1>6, LowPair
<1> QED
  BY <1>5, <1>7

LEMMA Q2KQuants ==
  ASSUME format = "Q2_K", FieldsInv, Placed("qs"), NEW e \in 0 .. 255
  PROVE  Block!DecodedQuant(e) = Block!L(e)
<1>1. Block!L(e) \subseteq 0 .. 1
  BY Widths
<1>2. Block!TwoBits(e) = Block!L(e) \intersect (0 .. 1)
  BY TwoBitsAre
<1> QED
  BY <1>1, <1>2 DEF Block!DecodedQuant

LEMMA Q3KQuants ==
  ASSUME format = "Q3_K", FieldsInv, Placed("qs"), Placed("hmask"), NEW e \in 0 .. 255
  PROVE  Block!DecodedQuant(e) = Block!L(e)
<1>1. Block!L(e) \subseteq 0 .. 2
  BY Widths
<1>2. Block!TwoBits(e) = Block!L(e) \intersect (0 .. 1)
  BY TwoBitsAre
<1>3. e \div 32 \in block.hmask[e % 32] <=> 2 \in Block!L(e)
  <2>1. e % 32 \in 0 .. 31 /\ e \div 32 \in 0 .. 7 /\ 32 * (e \div 32) + (e % 32) = e
    BY BytesOf
  <2>2. DOMAIN block["hmask"] = 0 .. 31
    BY DEF FieldsInv
  <2>3. \A i \in 0 .. 31, b \in 0 .. 7 : b \in block["hmask"][i] <=> 2 \in Block!L(32 * b + i)
    BY <2>2 DEF Placed, Block!Holds
  <2> QED
    BY <2>1, <2>3
<1>4. Block!DecodedQuant(e) = (Block!L(e) \intersect (0 .. 1)) \union (IF 2 \in Block!L(e) THEN {2} ELSE {})
  BY <1>2, <1>3 DEF Block!DecodedQuant, Block!ThreeBits
<1>5. \A x \in 0 .. 2 : x \in 0 .. 1 \/ x = 2
  OBVIOUS
<1> QED
  BY <1>1, <1>4, <1>5

(* The lower four bits, 32 elements apart and 16 apart. *)
LEMMA FourBitsAre ==
  ASSUME FieldsInv, Placed("qs"), NEW e \in 0 .. 255
  PROVE  /\ format \in {"Q4_K", "Q5_K"} => Block!FourBitsOf64(e) = Block!L(e) \intersect (0 .. 3)
         /\ format = "IQ4_XS" => Block!FourBitsOf32(e) = Block!L(e) \intersect (0 .. 3)
         /\ format = "Q5_0" /\ e < 32 => Block!FourBitsOf32(e) = Block!L(e) \intersect (0 .. 3)
<1>1. ASSUME format \in {"Q4_K", "Q5_K"}
      PROVE  Block!FourBitsOf64(e) = Block!L(e) \intersect (0 .. 3)
  <2> DEFINE i == 32 * (e \div 64) + (e % 32)
             byte == block.qs[i]
  <2>1. i \in 0 .. 127 /\ DOMAIN block["qs"] = 0 .. 127
    BY <1>1, BytesOf, ZenonT(60) DEF FieldsInv
  <2>2. byte \in SUBSET (0 .. 7) /\ \A b \in 0 .. 7 : b \in byte <=> Block!Nibbles(i, b, 32)
    BY <1>1, <2>1 DEF Placed, Block!Holds, Block!QuantBit
  <2>3. 2 * 32 = 64 /\ 32 \in {16, 32, 64}
    OBVIOUS
  <2> HIDE DEF byte
  <2>4. Block!Nibble(byte, e % 64 >= 32) = Block!L(e) \intersect (0 .. 3)
    <3>1. \A b \in 0 .. 7 : b \in byte <=> Block!Nibbles(32 * (e \div (2 * 32)) + (e % 32), b, 32)
      BY <2>2, <2>3, Zenon
    <3>2. Block!Nibble(byte, e % (2 * 32) >= 32) = Block!L(e) \intersect (0 .. 3)
      BY <2>2, <2>3, <3>1, NibbleHas
    <3> QED
      BY <2>3, <3>2, Zenon
  <2> QED
    BY <2>4 DEF byte, Block!FourBitsOf64
<1>2. ASSUME format \in {"IQ4_XS", "Q5_0"}, format = "Q5_0" => e < 32
      PROVE  Block!FourBitsOf32(e) = Block!L(e) \intersect (0 .. 3)
  <2> DEFINE i == 16 * (e \div 32) + (e % 16)
             byte == block.qs[i]
  <2>1. i \in 0 .. 127 /\ (e < 32 => i \in 0 .. 15)
    BY Z3
  <2>2. i \in DOMAIN block["qs"]
    <3>1. format = "IQ4_XS" => DOMAIN block["qs"] = 0 .. 127
      BY DEF FieldsInv
    <3>2. format = "Q5_0" => DOMAIN block["qs"] = 0 .. 15
      BY DEF FieldsInv
    <3> QED
      BY <1>2, <2>1, <3>1, <3>2
  <2>3. byte \in SUBSET (0 .. 7) /\ \A b \in 0 .. 7 : b \in byte <=> Block!Nibbles(i, b, 16)
    BY <1>2, <2>2 DEF Placed, Block!Holds, Block!QuantBit
  <2>4. 2 * 16 = 32 /\ 16 \in {16, 32, 64}
    OBVIOUS
  <2> HIDE DEF byte
  <2>5. Block!Nibble(byte, e % 32 >= 16) = Block!L(e) \intersect (0 .. 3)
    <3>1. \A b \in 0 .. 7 : b \in byte <=> Block!Nibbles(16 * (e \div (2 * 16)) + (e % 16), b, 16)
      BY <2>3, <2>4, Zenon
    <3>2. Block!Nibble(byte, e % (2 * 16) >= 16) = Block!L(e) \intersect (0 .. 3)
      BY <2>3, <2>4, <3>1, NibbleHas
    <3> QED
      BY <2>4, <3>2, Zenon
  <2> QED
    BY <2>5 DEF byte, Block!FourBitsOf32
<1> QED
  BY <1>1, <1>2

LEMMA FourBitQuants ==
  ASSUME format \in {"Q4_K", "IQ4_XS"}, FieldsInv, Placed("qs"), NEW e \in 0 .. 255
  PROVE  Block!DecodedQuant(e) = Block!L(e)
<1>1. Block!L(e) \subseteq 0 .. 3
  BY Widths
<1> QED
  BY <1>1, FourBitsAre DEF Block!DecodedQuant

LEMMA FiveBitsAre ==
  ASSUME NEW s \in SUBSET (0 .. 4)
  PROVE  (s \intersect (0 .. 3)) \union (IF 4 \in s THEN {4} ELSE {}) = s
<1>1. \A x \in 0 .. 4 : x \in 0 .. 3 \/ x = 4
  OBVIOUS
<1> QED
  BY <1>1

LEMMA Q5KQuants ==
  ASSUME format = "Q5_K", FieldsInv, Placed("qs"), Placed("qh"), NEW e \in 0 .. 255
  PROVE  Block!DecodedQuant(e) = Block!L(e)
<1>1. Block!L(e) \subseteq 0 .. 4
  BY Widths
<1>2. Block!FourBitsOf64(e) = Block!L(e) \intersect (0 .. 3)
  BY FourBitsAre
<1>3. 2 * (e \div 64) + (e % 64) \div 32 \in block.qh[e % 32] <=> 4 \in Block!L(e)
  <2>1. /\ e % 32 \in 0 .. 31 /\ e \div 32 \in 0 .. 7 /\ 32 * (e \div 32) + (e % 32) = e
        /\ 2 * (e \div 64) + (e % 64) \div 32 = e \div 32
    BY BytesOf
  <2>2. DOMAIN block["qh"] = 0 .. 31
    BY DEF FieldsInv
  <2>3. \A i \in 0 .. 31, b \in 0 .. 7 : b \in block["qh"][i] <=> 4 \in Block!L(32 * b + i)
    BY <2>2 DEF Placed, Block!Holds, Block!HighBit
  <2>4. e \div 32 \in block["qh"][e % 32] <=> 4 \in Block!L(32 * (e \div 32) + (e % 32))
    BY <2>1, <2>3
  <2> QED
    BY <2>1, <2>4, Zenon
<1>4. Block!DecodedQuant(e) = (Block!L(e) \intersect (0 .. 3)) \union (IF 4 \in Block!L(e) THEN {4} ELSE {})
  BY <1>2, <1>3 DEF Block!DecodedQuant, Block!FiveBitsOfK5
<1> QED
  BY <1>1, <1>4, FiveBitsAre

LEMMA Q6KQuants ==
  ASSUME format = "Q6_K", FieldsInv, Placed("ql"), Placed("qh"), NEW e \in 0 .. 255
  PROVE  Block!DecodedQuant(e) = Block!L(e)
<1> DEFINE i == 64 * (e \div 128) + (e % 64)
           k == 32 * (e \div 128) + (e % 32)
           q == (e % 128) \div 32
           lower == block.ql[i]
           upper == block.qh[k]
           s == Block!L(e)
<1>1. i \in 0 .. 127 /\ k \in 0 .. 63 /\ q \in 0 .. 3
  BY BytesOf
<1>2. DOMAIN block["ql"] = 0 .. 127 /\ DOMAIN block["qh"] = 0 .. 63
  BY DEF FieldsInv
<1>3. lower \in SUBSET (0 .. 7) /\ \A b \in 0 .. 7 : b \in lower <=> Block!Nibbles(i, b, 64)
  <2>1. lower \in SUBSET (0 .. 7) /\ \A b \in 0 .. 7 : b \in lower <=> Block!Holds("ql", i, b)
    BY <1>1, <1>2, Zenon DEF Placed
  <2>2. \A b : Block!Holds("ql", i, b) <=> Block!Nibbles(i, b, 64)
    BY DEF Block!Holds
  <2> QED
    BY <2>1, <2>2, Zenon
<1>4. upper \in SUBSET (0 .. 7) /\ \A b \in 0 .. 7 : b \in upper <=> Block!Twos(k, b, 4)
  <2>1. upper \in SUBSET (0 .. 7) /\ \A b \in 0 .. 7 : b \in upper <=> Block!Holds("qh", k, b)
    BY <1>1, <1>2, Zenon DEF Placed
  <2>2. \A b : Block!Holds("qh", k, b) <=> Block!Twos(k, b, 4)
    BY DEF Block!Holds, Block!HighBit
  <2> QED
    BY <2>1, <2>2, Zenon
<1>5. s \in SUBSET (0 .. 5)
  BY Widths
<1>6. \A b \in {2 * q, 2 * q + 1} : b \in 0 .. 7 /\ (Block!Twos(k, b, 4) <=> 4 + (b - 2 * q) \in s)
  BY TwosHas
<1>7. Block!DecodedQuant(e) = Block!Nibble(lower, e % 128 >= 64)
        \union Block!Left(Block!Right(upper, 2 * q) \intersect (0 .. 1), 4)
  BY Lows DEF Block!DecodedQuant, Block!SixBitsOf
<1>8. Block!Nibble(lower, e % 128 >= 64) = s \intersect (0 .. 3)
  <2> HIDE DEF lower
  <2>1. 2 * 64 = 128 /\ 64 \in {16, 32, 64}
    OBVIOUS
  <2>2. \A b \in 0 .. 7 : b \in lower <=> Block!Nibbles(64 * (e \div (2 * 64)) + (e % 64), b, 64)
    BY <1>3, <2>1, Zenon
  <2>3. Block!Nibble(lower, e % (2 * 64) >= 64) = s \intersect (0 .. 3)
    BY <1>3, <2>1, <2>2, NibbleHas
  <2> QED
    BY <2>1, <2>3, Zenon
<1>9. Block!Left(Block!Right(upper, 2 * q) \intersect (0 .. 1), 4) = s \intersect {4, 5}
  <2> HIDE DEF upper, q, k, s
  <2>1. \A b \in {2 * q, 2 * q + 1} : b \in upper <=> 4 + (b - 2 * q) \in s
    BY <1>4, <1>6
  <2> QED
    BY <1>1, <1>4, <1>5, <2>1, PairAbove
<1> HIDE DEF lower, upper, q, s
<1>10. Block!DecodedQuant(e) = s
  BY <1>5, <1>7, <1>8, <1>9, SixBitsAre
<1> QED
  BY <1>10 DEF s

(* The fifth bit of Q5_0 is found at another place in the second half. *)
LEMMA Q50Quants ==
  ASSUME format = "Q5_0", FieldsInv, Placed("qs"), Placed("qh"), NEW e \in 0 .. 31
  PROVE  Block!DecodedQuant(e) = Block!L(e)
<1> DEFINE word == Block!Word(block.qh, 0, 4)
           fifth == IF e < 16 THEN Block!Left(Block!Right(word, e), 4) \intersect {4}
                              ELSE Block!Right(word, e - 16 + 12) \intersect {4}
<1>1. Block!L(e) \subseteq 0 .. 4
  BY Widths
<1>2. Block!FourBitsOf32(e) = Block!L(e) \intersect (0 .. 3)
  <2>1. e \in 0 .. 255 /\ e < 32
    OBVIOUS
  <2> QED
    BY <2>1, FourBitsAre
<1>3. DOMAIN block["qh"] = 0 .. 3
  BY DEF FieldsInv
<1>4. \A i \in 0 .. 3 : block["qh"][i] \in SUBSET (0 .. 7)
                        /\ \A b \in 0 .. 7 : b \in block["qh"][i] <=> 4 \in Block!L(8 * i + b)
  BY <1>3 DEF Placed, Block!Holds, Block!HighBit
<1>5. \A i \in 0 .. 4 - 1 : block.qh[0 + i] \in SUBSET (0 .. 7)
  <2>1. \A i \in 0 .. 4 - 1 : i \in 0 .. 3 /\ 0 + i = i
    OBVIOUS
  <2> QED
    BY <1>4, <2>1
<1>6. word \in SUBSET Nat
  BY <1>5, WordsAreBits
<1>7. e \in word <=> 4 \in Block!L(e)
  <2>1. PICK k \in 0 .. 3, b \in 0 .. 7 : e = b + 8 * k
    <3>1. e \div 8 \in 0 .. 3 /\ e % 8 \in 0 .. 7 /\ e = (e % 8) + 8 * (e \div 8)
      BY Z3
    <3> QED
      BY <3>1
  <2>2. k \in Nat /\ k < 4 /\ 0 + k = k /\ 8 * k + b = e
    BY <2>1
  <2>3. b + 8 * k \in word <=> k < 4 /\ b \in block.qh[0 + k]
    BY <1>5, <2>2, WordHas
  <2>4. b \in block["qh"][k] <=> 4 \in Block!L(8 * k + b)
    BY <1>4
  <2> QED
    BY <2>1, <2>2, <2>3, <2>4
<1>8. Block!DecodedQuant(e) = Block!FourBitsOf32(e) \union fifth
  BY DEF Block!DecodedQuant, Block!FiveBitsOfWord
<1> HIDE DEF word
<1>9. fifth = IF 4 \in Block!L(e) THEN {4} ELSE {}
  <2>1. CASE e < 16
    <3>1. e \in Nat /\ 4 \in Nat /\ 4 >= 4 /\ 4 - 4 = 0 /\ 0 \in Nat /\ 0 + e = e
      OBVIOUS
    <3>2. Block!Right(word, e) \in SUBSET Nat
      BY <1>6, <3>1, ShiftsAreBits
    <3>3. 4 \in Block!Left(Block!Right(word, e), 4) <=> 0 \in Block!Right(word, e)
      BY <3>1, <3>2, LeftHas
    <3>4. 0 \in Block!Right(word, e) <=> e \in word
      BY <1>6, <3>1, RightHas
    <3> QED
      BY <1>7, <2>1, <3>3, <3>4
  <2>2. CASE ~ (e < 16)
    <3>1. e - 16 + 12 \in Nat /\ 4 \in Nat /\ 4 + (e - 16 + 12) = e
      BY <2>2
    <3>2. 4 \in Block!Right(word, e - 16 + 12) <=> 4 + (e - 16 + 12) \in word
      BY <1>6, <3>1, RightHas
    <3> QED
      BY <1>7, <2>2, <3>1, <3>2
  <2> QED
    BY <2>1, <2>2
<1> HIDE DEF fifth
<1> QED
  BY <1>1, <1>2, <1>8, <1>9, FiveBitsAre

(* All quants come back. *)
LEMMA QuantsDecode == BlockInv => Block!QuantsComeBack
<1> SUFFICES ASSUME BlockInv, packing = "packed", NEW e \in Block!Low(Block!Numbers[format].quant.n)
             PROVE  Block!DecodedQuant(e) = Block!L(e)
  BY DEF Block!QuantsComeBack
<1>1. FieldsInv /\ QuantsUpTo(Block!Rounds[format]) /\ (format = "Q3_K" => ThirdBitsAreThere)
      /\ format \in {"Q5_0", "Q2_K", "Q3_K", "Q4_K", "Q5_K", "Q6_K", "IQ4_XS"}
  BY DEF BlockInv
<1>2. /\ format = "Q5_0" => Block!Numbers[format].quant.n = 32
      /\ format # "Q5_0" => Block!Numbers[format].quant.n = 256
  BY <1>1 DEF Block!Numbers
<1>3. Block!Low(32) = 0 .. 31 /\ Block!Low(256) = 0 .. 255
  BY DEF Block!Low
<1>4. /\ format \in {"Q5_0", "Q2_K", "Q3_K", "Q4_K", "Q5_K", "IQ4_XS"} => Placed("qs")
      /\ format \in {"Q5_0", "Q5_K", "Q6_K"} => Placed("qh")
      /\ format = "Q6_K" => Placed("ql")
      /\ format = "Q3_K" => Placed("hmask")
  BY <1>1, QuantsPlaced, ThirdBitsPlaced
<1>5. CASE format = "Q5_0"
  BY <1>1, <1>2, <1>3, <1>4, <1>5, Q50Quants
<1>6. CASE format # "Q5_0"
  <2>1. e \in 0 .. 255
    BY <1>2, <1>3, <1>6
  <2> QED
    BY <1>1, <1>4, <1>6, <2>1, Q2KQuants, Q3KQuants, FourBitQuants, Q5KQuants, Q6KQuants
<1> QED
  BY <1>5, <1>6

-----------------------------------------------------------------------------
(* A behaviour that is not about a block leaves it idle. *)

BlocksInv == (BlockInv \/ BlockIdle) /\ TernaryInv

LEMMA BlocksHold == KernelsSpec => []BlocksInv
<1>1. KernelsInit => BlocksInv
  <2>1. TernaryIdle => TernaryInv
    BY DEF TernaryIdle, TernaryInv
  <2> QED
    BY <2>1, BlockInit, TernaryInit DEF KernelsInit, BlocksInv
<1>2. BlocksInv /\ [KernelsNext]_<<tableVars, blockVars, ternaryVars>> => BlocksInv'
  <2> SUFFICES ASSUME BlocksInv, [KernelsNext]_<<tableVars, blockVars, ternaryVars>>
               PROVE  BlocksInv'
    OBVIOUS
  <2>1. /\ Block!Next \/ UNCHANGED blockVars
        /\ Ternary!Next \/ UNCHANGED ternaryVars
    BY DEF KernelsNext
  <2>2. ASSUME BlockIdle, UNCHANGED blockVars PROVE BlockIdle'
    BY <2>2 DEF BlockIdle, blockVars
  <2>3. BlockIdle => ~ Block!Next
    BY DEF BlockIdle, Block!Next, Block!Clear, Block!PackScale, Block!EndScales,
           Block!PackMinimum, Block!EndMinimums, Block!PackHigh, Block!PackQuants,
           Block!EndQuants
  <2>4. (BlockInv \/ BlockIdle)'
    BY <2>1, <2>2, <2>3, BlockStep DEF BlocksInv
  <2>5. TernaryInv'
    BY <2>1, TernaryStep DEF BlocksInv
  <2> QED
    BY <2>4, <2>5 DEF BlocksInv
<1> QED
  BY <1>1, <1>2, PTL DEF KernelsSpec

(* Of the formats of bit fields and of the ternary one, the decoder finds  *)
(* every number and every digit that the encoder put into a block, and     *)
(* the block holds nothing else: for all numbers that the encoder may      *)
(* choose, and whatever the block's memory held before.                    *)
THEOREM BlocksAreFaithful == KernelsSpec => []BlocksComeBack
<1>1. BlockIdle => Block!BlockComesBack
  BY DEF BlockIdle, Block!BlockComesBack, Block!ScalesComeBack, Block!QuantsComeBack,
         Block!NothingElseIsStored
<1>2. BlockInv => Block!BlockComesBack
  BY ScalesDecode, QuantsDecode, NothingElse DEF Block!BlockComesBack
<1>3. BlocksInv => BlocksComeBack
  BY <1>1, <1>2, TernaryComesBack DEF BlocksInv, BlocksComeBack
<1> QED
  BY <1>3, BlocksHold, PTL

=============================================================================
