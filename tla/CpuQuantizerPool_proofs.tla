----------------------- MODULE CpuQuantizerPool_proofs -----------------------
(***************************************************************************)
(* The safety of the CPU pool for every number of threads, rows and calls: *)
(* IndInv is inductive, and the properties the runs check follow from it.  *)
(***************************************************************************)
EXTENDS CpuQuantizerPool, RowPartition_proofs, FiniteSetTheorems

(* The workers are numbered from 0, and there is one per slot when there   *)
(* is more than one.                                                       *)
LEMMA WorkersAreSlots ==
  /\ Workers \subseteq Slot
  /\ Slot \subseteq Nat
  /\ IsFiniteSet(Workers)
  /\ MaxThreads > 1 => Workers = Slot /\ Cardinality(Workers) = MaxThreads
<1>1. IsFiniteSet(Slot) /\ Cardinality(Slot) = MaxThreads
  BY PoolAssumption, FS_Interval DEF Slot
<1>2. IsFiniteSet({})
  BY FS_EmptySet
<1> QED
  BY <1>1, <1>2, PoolAssumption DEF Workers, Slot

(* The tile a worker is about to encode lies within its own range, which   *)
(* lies within the block.                                                  *)
LEMMA TileIsMine ==
  ASSUME IndInv, NEW w \in Workers, worker[w] = "encode"
  PROVE  /\ TaskOut /\ Taken(w) /\ w < activeThreads
         /\ FirstRow(w) \in Nat /\ Share(w) \in Nat /\ NextTile(w) \in Nat
         /\ NextTile(w) > 0
         /\ NextTile(w) <= tileRows
         /\ processed[w] + NextTile(w) <= Share(w)
         /\ FirstRow(w) + Share(w) <= rowCount
         /\ Mine(w) = FirstRow(w) .. FirstRow(w) + Share(w) - 1
<1>1. /\ w \in Nat /\ w < activeThreads /\ TaskOut /\ Taken(w)
      /\ job[w] = [rows |-> rowCount, active |-> activeThreads]
      /\ processed[w] < Share(w)
  BY WorkersAreSlots DEF IndInv, WorkerInv
<1>2. /\ rowCount \in Nat /\ activeThreads \in Nat \ {0}
      /\ tileRows \in Nat \ {0} /\ processed[w] \in Nat
  BY PoolAssumption DEF IndInv, TypeOK
<1>3. /\ RowBegin(w, rowCount, activeThreads) \in Nat
      /\ RowEnd(w, rowCount, activeThreads) \in Nat
      /\ RowEnd(w, rowCount, activeThreads) <= rowCount
  BY <1>1, <1>2, RangeBounds
<1>4. /\ FirstRow(w) = RowBegin(w, rowCount, activeThreads)
      /\ Share(w) = RowEnd(w, rowCount, activeThreads) - FirstRow(w)
  BY <1>1 DEF FirstRow, Share
<1>5. Mine(w) = FirstRow(w) .. FirstRow(w) + Share(w) - 1
  BY <1>3, <1>4 DEF Mine, RowsOf
<1>6. NextTile(w) = IF tileRows <= Share(w) - processed[w]
                      THEN tileRows ELSE Share(w) - processed[w]
  BY DEF NextTile, MinOf
<1>7. Share(w) \in Nat /\ FirstRow(w) \in Nat /\ FirstRow(w) + Share(w) <= rowCount
  BY <1>1, <1>2, <1>3, <1>4
<1>8. /\ NextTile(w) \in Nat /\ NextTile(w) > 0 /\ NextTile(w) <= tileRows
      /\ processed[w] + NextTile(w) <= Share(w)
  BY <1>1, <1>2, <1>6, <1>7
<1> QED
  BY <1>1, <1>5, <1>7, <1>8

(* Two workers never share a row. *)
LEMMA MineIsDisjoint ==
  ASSUME TypeOK, NEW v \in Workers, NEW w \in Workers, v # w, NEW r \in Mine(v)
  PROVE  r \notin Mine(w)
<1>1. v \in Nat /\ w \in Nat
  BY WorkersAreSlots
<1>2. rowCount \in Nat /\ activeThreads \in Nat \ {0}
  BY PoolAssumption DEF TypeOK
<1> QED
  BY <1>1, <1>2, RangesAreDisjoint DEF Mine

(* A worker's range lies within the instance's rows. *)
LEMMA MineInBlock ==
  ASSUME TypeOK, NEW w \in Workers
  PROVE  Mine(w) \subseteq Row
<1>1. w \in Nat
  BY WorkersAreSlots
<1>2. /\ rowCount \in Nat /\ rowCount <= MaxRows /\ MaxRows \in Nat
      /\ activeThreads \in Nat \ {0}
  BY PoolAssumption DEF TypeOK
<1> QED
  BY <1>1, <1>2, RangeInBlock DEF Mine, Row

(* The tiles of the block are at least one and at most MaxRows rows long.  *)
LEMMA TileRowsBounds ==
  ASSUME NEW q \in Requests, NEW active \in Nat \ {0}
  PROVE  TileRows(q, active) \in 1 .. MaxRows
<1>1. /\ q.rows \in 1 .. MaxRows /\ q.budget \in 1 .. MaxRows
      /\ MaxRows \in Nat
  BY PoolAssumption DEF Requests
<1>2. /\ RowsPerThread(q.rows, active) \in Nat
      /\ RowsPerThread(q.rows, active) <= q.rows
      /\ RowsPerThread(q.rows, active) > 0
  BY <1>1, RowsPerThreadBounds
<1> QED
  BY <1>1, <1>2 DEF TileRows, MinOf

-----------------------------------------------------------------------------
(* The steps that move threads between their waits and change nothing that *)
(* a task depends on.                                                      *)
LEMMA QuietStep ==
  ASSUME IndInv,
         UNCHANGED <<request, verdict, inlineDone, configVars, taskVars, seen,
                     job, processed, fine, history>>,
         \/ caller' = caller
         \/ TaskOut /\ TaskOut'
         \/ {caller, caller'} \subseteq {"notifyStop", "join", "gone"},
         worker' \in [Workers -> WorkerStates],
         \A w \in Workers :
           \/ worker'[w] = worker[w]
           \/ /\ {worker[w], worker'[w]} \cap {"encode", "report"} = {}
              /\ worker'[w] = "exited" => stop
  PROVE  IndInv'
<1> USE DEF IndInv, TypeOK, Calling, TaskOut, configVars, taskVars, history
<1>1. \A w \in Workers :
        /\ worker'[w] = "encode" <=> worker[w] = "encode"
        /\ worker'[w] = "report" <=> worker[w] = "report"
  OBVIOUS
<1>2. (TaskOut' <=> TaskOut) /\ (Calling' <=> Calling)
  OBVIOUS
<1>3. TypeOK'
  BY DEF CallerStates
<1>4. CallerInv'
  BY <1>2 DEF CallerInv
<1>5. WorkerInv'
  BY <1>1, <1>2 DEF WorkerInv, Taken, Share, FirstRow
<1>6. Reported' = Reported
  BY <1>1 DEF Reported, Taken
<1>7. CountInv'
  BY <1>2, <1>6 DEF CountInv
<1>8. ShareInv'
  BY <1>1, <1>2, <1>6 DEF ShareInv, Mine, Taken, FirstRow
<1>9. BrokenInv'
  BY <1>2 DEF BrokenInv, Taken
<1>10. InlineInv'
  BY DEF InlineInv
<1>11. ScratchInv'
  BY <1>2 DEF ScratchInv
<1>12. RowsWrittenAtMostOnce' /\ TrueMeansEncoded'
  BY DEF RowsWrittenAtMostOnce, TrueMeansEncoded
<1> QED
  BY <1>3, <1>4, <1>5, <1>7, <1>8, <1>9, <1>10, <1>11, <1>12

LEMMA InitStep == Init => IndInv
<1> SUFFICES ASSUME Init PROVE IndInv
  OBVIOUS
<1> USE PoolAssumption DEF Init
<1>1. TypeOK
  <2>1. /\ request \in [plan : Plans, rows : 0 .. MaxRows, budget : 1 .. MaxRows]
        /\ scratch \in [Slot -> Nat] /\ ok \in [Slot -> BOOLEAN]
        /\ writes \in [Row -> Nat]
    OBVIOUS
  <2>2. /\ worker \in [Workers -> WorkerStates] /\ seen \in [Workers -> Nat]
        /\ job \in [Workers -> [rows : 0 .. MaxRows, active : 1 .. MaxThreads]]
        /\ processed \in [Workers -> 0 .. MaxRows] /\ fine \in [Workers -> BOOLEAN]
    BY DEF WorkerStates
  <2>3. stop \in BOOLEAN /\ broken \in BOOLEAN
    OBVIOUS
  <2>4. 0 \in 0 .. MaxRows /\ 1 \in 1 .. MaxRows /\ 1 \in 1 .. MaxThreads
    OBVIOUS
  <2> QED
    BY <2>1, <2>2, <2>3, <2>4 DEF TypeOK, CallerStates
<1>2. CallerInv /\ WorkerInv
  BY DEF CallerInv, WorkerInv, Calling, TaskOut, Taken
<1>3. CountInv /\ ShareInv /\ BrokenInv /\ InlineInv /\ ScratchInv
  BY DEF CountInv, ShareInv, BrokenInv, InlineInv, ScratchInv, Calling, TaskOut
<1>4. RowsWrittenAtMostOnce /\ TrueMeansEncoded
  BY DEF RowsWrittenAtMostOnce, TrueMeansEncoded, Row
<1> QED
  BY <1>1, <1>2, <1>3, <1>4 DEF IndInv

-----------------------------------------------------------------------------
(* The steps of the caller *)

LEMMA CallStep == ASSUME IndInv, NEW q \in Requests, Call(q) PROVE IndInv'
<1> USE PoolAssumption
    DEF IndInv, Call, Calling, TaskOut, configVars, taskVars, workerVars
<1>1. request' \in [plan : Plans, rows : 0 .. MaxRows, budget : 1 .. MaxRows]
  BY DEF Requests
<1>2. TypeOK'
  <2>1. writes' \in [Row -> Nat]
    OBVIOUS
  <2>2. broken' \in BOOLEAN
    OBVIOUS
  <2>3. inlineDone' \in 0 .. MaxRows
    OBVIOUS
  <2> QED
    BY <1>1, <2>1, <2>2, <2>3 DEF TypeOK, CallerStates
<1>3. CallerInv' /\ WorkerInv'
  BY DEF TypeOK, CallerInv, WorkerInv, Taken, Share, FirstRow
<1>4. CountInv' /\ ShareInv' /\ BrokenInv' /\ InlineInv' /\ ScratchInv'
  BY DEF CountInv, ShareInv, BrokenInv, InlineInv, ScratchInv
<1>5. RowsWrittenAtMostOnce' /\ TrueMeansEncoded'
  BY DEF RowsWrittenAtMostOnce, TrueMeansEncoded
<1> QED
  BY <1>2, <1>3, <1>4, <1>5

(* The number of threads chosen for the current call. *)
LEMMA ActiveIsSlot ==
  ASSUME IndInv, Calling
  PROVE  LET active == ActiveThreadCount(request.rows, MaxThreads, ParallelRows)
         IN  /\ active \in 1 .. MaxThreads
             /\ active <= request.rows
             /\ request.rows \in 1 .. MaxRows
             /\ request.plan \in Plans
<1>1. request \in Requests
  BY DEF IndInv, CallerInv
<1>2. request.rows \in Nat \ {0}
  BY <1>1, PoolAssumption DEF Requests
<1> QED
  BY <1>1, <1>2, PoolAssumption, ActiveThreadBounds DEF Requests

LEMMA ConfigureFailsStep == ASSUME IndInv, ConfigureFails PROVE IndInv'
<1> USE PoolAssumption
    DEF IndInv, ConfigureFails, Calling, TaskOut, taskVars, workerVars, history
<1>1. TypeOK'
  BY ActiveIsSlot DEF TypeOK, CallerStates
<1>2. CallerInv' /\ WorkerInv'
  BY DEF TypeOK, CallerInv, WorkerInv, Taken, Share, FirstRow
<1>3. CountInv' /\ ShareInv' /\ BrokenInv' /\ InlineInv' /\ ScratchInv'
  BY DEF CountInv, ShareInv, BrokenInv, InlineInv, ScratchInv
<1>4. RowsWrittenAtMostOnce' /\ TrueMeansEncoded'
  BY DEF RowsWrittenAtMostOnce, TrueMeansEncoded
<1> QED
  BY <1>1, <1>2, <1>3, <1>4

LEMMA ConfigureStep == ASSUME IndInv, Configure PROVE IndInv'
<1> USE PoolAssumption
    DEF IndInv, Configure, Calling, TaskOut, taskVars, workerVars, history
<1> DEFINE active == ActiveThreadCount(request.rows, MaxThreads, ParallelRows)
<1>1. /\ active \in 1 .. MaxThreads /\ active <= request.rows
      /\ request.plan \in Plans /\ request \in Requests
      /\ request.plan.width \in Nat
  BY ActiveIsSlot DEF CallerInv
<1>2. TileRows(request, active) \in 1 .. MaxRows
  BY <1>1, TileRowsBounds
<1>3. TileRows(request, active) * request.plan.width \in Nat
  BY <1>1, <1>2
<1> HIDE DEF active
<1>4. TypeOK'
  <2>1. scratch' \in [Slot -> Nat]
    BY <1>3 DEF TypeOK, ScratchSize, active
  <2> QED
    BY <1>1, <1>2, <2>1 DEF TypeOK, CallerStates, active
<1>5. CallerInv'
  BY <1>1 DEF TypeOK, CallerInv, active
<1>6. WorkerInv'
  BY DEF TypeOK, CallerInv, WorkerInv, Taken, Share, FirstRow
<1>7. CountInv' /\ ShareInv' /\ BrokenInv'
  BY DEF CountInv, ShareInv, BrokenInv
<1>8. InlineInv'
  BY <1>1 DEF TypeOK, InlineInv, Requests, Row
<1>9. ScratchInv'
  BY DEF TypeOK, ScratchInv, ScratchSize, active
<1>10. RowsWrittenAtMostOnce' /\ TrueMeansEncoded'
  BY DEF RowsWrittenAtMostOnce, TrueMeansEncoded
<1> QED
  BY <1>4, <1>5, <1>6, <1>7, <1>8, <1>9, <1>10

LEMMA InlineTileStep ==
  ASSUME IndInv, NEW good \in BOOLEAN, InlineTile(good)
  PROVE  IndInv'
<1> USE PoolAssumption
    DEF IndInv, InlineTile, WriteRows, Calling, TaskOut, configVars, taskVars, workerVars
<1> DEFINE count == MinOf(tileRows, request.rows - inlineDone)
<1>1. /\ request.rows \in 1 .. MaxRows /\ tileRows \in 1 .. MaxRows
      /\ inlineDone \in 0 .. MaxRows
      /\ inlineDone < request.rows
  BY DEF TypeOK, CallerInv, Requests
<1>2. /\ count \in Nat /\ count > 0
      /\ inlineDone + count <= request.rows
  BY <1>1 DEF MinOf
<1> HIDE DEF count
<1>3. writes' = [r \in Row |-> IF r \in inlineDone .. inlineDone + count - 1
                                 THEN writes[r] + 1 ELSE writes[r]]
  BY DEF count
<1>4. inlineDone' = IF good THEN inlineDone + count ELSE inlineDone
  BY DEF count
<1>5. \A r \in Row : writes[r] = IF r < inlineDone THEN 1 ELSE 0
  BY DEF InlineInv
<1>6. \A r \in Row :
        /\ writes'[r] = IF r < inlineDone + count THEN 1 ELSE 0
        /\ writes'[r] \in Nat
  BY <1>1, <1>2, <1>3, <1>5 DEF Row
<1>7. TypeOK'
  <2>1. writes' \in [Row -> Nat]
    BY <1>3, <1>6
  <2>2. broken' \in BOOLEAN
    BY DEF TypeOK
  <2>3. inlineDone' \in 0 .. MaxRows
    BY <1>1, <1>2, <1>4
  <2> QED
    BY <2>1, <2>2, <2>3 DEF TypeOK, CallerStates
<1>8. CallerInv' /\ WorkerInv'
  BY DEF CallerInv, WorkerInv, Taken, Share, FirstRow
<1>9. CountInv' /\ ShareInv' /\ BrokenInv' /\ ScratchInv'
  BY DEF CountInv, ShareInv, BrokenInv, ScratchInv
<1>10. InlineInv'
  <2>1. caller' = "inline" => ~ broken'
    BY DEF InlineInv
  <2> QED
    BY <1>2, <1>4, <1>6, <2>1 DEF InlineInv
<1>11. RowsWrittenAtMostOnce'
  BY <1>1, <1>2, <1>6 DEF RowsWrittenAtMostOnce, Row
<1>12. TrueMeansEncoded'
  BY DEF TrueMeansEncoded, CallerInv
<1> QED
  BY <1>7, <1>8, <1>9, <1>10, <1>11, <1>12

LEMMA InlineReturnStep == ASSUME IndInv, InlineReturn PROVE IndInv'
<1> USE PoolAssumption
    DEF IndInv, InlineReturn, Calling, TaskOut, configVars, taskVars, workerVars, history
<1>1. TypeOK'
  BY DEF TypeOK, CallerStates
<1>2. CallerInv' /\ WorkerInv'
  BY DEF CallerInv, WorkerInv, Taken, Share, FirstRow
<1>3. CountInv' /\ ShareInv' /\ BrokenInv' /\ InlineInv' /\ ScratchInv'
  BY DEF CountInv, ShareInv, BrokenInv, InlineInv, ScratchInv
<1>4. RowsWrittenAtMostOnce'
  BY DEF RowsWrittenAtMostOnce
<1>5. TrueMeansEncoded'
  <2>1. request.rows \in 0 .. MaxRows /\ inlineDone \in 0 .. MaxRows
    BY DEF TypeOK
  <2>2. caller = "inline" => ~ broken /\ \A r \in 0 .. request.rows - 1 : writes[r] = 1
    BY <2>1 DEF InlineInv, Row
  <2>3. verdict' = "encoded" => caller = "inline"
    OBVIOUS
  <2> QED
    BY <2>2, <2>3 DEF TrueMeansEncoded
<1> QED
  BY <1>1, <1>2, <1>3, <1>4, <1>5

LEMMA PublishStep == ASSUME IndInv, Publish PROVE IndInv'
<1> USE PoolAssumption
    DEF IndInv, Publish, Calling, TaskOut, workerVars, history
<1>1. \A w \in Workers :
        /\ ~ Taken(w)'
        /\ worker[w] \notin {"encode", "report", "exited"}
  BY DEF TypeOK, CallerInv, WorkerInv, Taken
<1>2. request.rows \in 0 .. MaxRows /\ request.plan \in Plans
  BY DEF CallerInv, Requests
<1>3. TypeOK'
  <2>1. ok' \in [Slot -> BOOLEAN]
    BY DEF TypeOK
  <2>2. completed' \in 0 .. MaxThreads
    OBVIOUS
  <2>3. generation' \in Nat
    BY DEF TypeOK
  <2> QED
    BY <1>2, <2>1, <2>2, <2>3 DEF TypeOK, CallerStates
<1>4. CallerInv'
  BY DEF CallerInv
<1>5. WorkerInv'
  BY <1>1 DEF WorkerInv, Share, FirstRow
<1>6. CountInv'
  <2>1. Reported' = {}
    BY <1>1 DEF Reported
  <2> QED
    BY <2>1, FS_EmptySet DEF CountInv
<1>7. ShareInv'
  <2> SUFFICES ASSUME NEW w \in Workers, w < activeThreads'
               PROVE  /\ \A r \in Mine(w)' : writes[r] = 0
                      /\ w \notin Reported'
    BY <1>1 DEF ShareInv
  <2>1. Mine(w)' \subseteq Row
    <3>1. w \in Nat
      BY WorkersAreSlots
    <3>2. /\ activeThreads' \in Nat \ {0}
          /\ rowCount' \in Nat /\ rowCount' <= MaxRows
      BY <1>3 DEF TypeOK
    <3> QED
      BY <3>1, <3>2, RangeInBlock DEF Mine, Row
  <2> QED
    BY <1>1, <2>1 DEF InlineInv, Reported
<1>8. BrokenInv' /\ InlineInv'
  BY DEF BrokenInv, InlineInv
<1>9. ScratchInv'
  BY DEF ScratchInv, CallerInv
<1>10. RowsWrittenAtMostOnce' /\ TrueMeansEncoded'
  BY DEF RowsWrittenAtMostOnce, TrueMeansEncoded
<1> QED
  BY <1>3, <1>4, <1>5, <1>6, <1>7, <1>8, <1>9, <1>10

(* When the count is full, every worker has reported. *)
LEMMA AllHaveReported ==
  ASSUME IndInv, TaskOut, AllReported
  PROVE  /\ Workers = Slot
         /\ Reported = Workers
<1>1. MaxThreads > 1
  BY PoolAssumption DEF IndInv, TypeOK, CallerInv
<1>2. Workers = Slot /\ IsFiniteSet(Workers) /\ Cardinality(Workers) = MaxThreads
  BY <1>1, WorkersAreSlots
<1>3. Reported \subseteq Workers /\ Cardinality(Reported) = MaxThreads
  BY DEF Reported, IndInv, CountInv, AllReported
<1> QED
  BY <1>2, <1>3, FS_Subset

LEMMA AwaitReturnStep == ASSUME IndInv, AwaitReturn PROVE IndInv'
<1> USE PoolAssumption
    DEF IndInv, AwaitReturn, Calling, TaskOut, configVars, taskVars, workerVars, history
<1>1. Workers = Slot /\ \A w \in Workers : w \in Reported
  BY AllHaveReported
<1>2. TypeOK'
  BY DEF TypeOK, CallerStates, Verdict
<1>3. CallerInv'
  BY DEF CallerInv
<1>4. WorkerInv'
  BY <1>1 DEF WorkerInv, Taken, Share, FirstRow, Reported
<1>5. CountInv' /\ ShareInv' /\ BrokenInv' /\ InlineInv' /\ ScratchInv'
  BY DEF CountInv, ShareInv, BrokenInv, InlineInv, ScratchInv
<1>6. RowsWrittenAtMostOnce'
  BY DEF RowsWrittenAtMostOnce
<1>7. TrueMeansEncoded'
  <2> SUFFICES ASSUME Verdict = "encoded"
               PROVE  ~ broken /\ \A r \in 0 .. request.rows - 1 : writes[r] = 1
    BY DEF TrueMeansEncoded
  <2>1. \A w \in Workers : w < activeThreads =>
          /\ fine[w] /\ Taken(w) /\ worker[w] # "encode"
          /\ \A r \in Mine(w) : writes[r] = 1
    BY <1>1 DEF Verdict, ShareInv, Reported
  <2>2. ~ broken
    BY <2>1 DEF BrokenInv
  <2>3. ASSUME NEW r \in 0 .. request.rows - 1
        PROVE  writes[r] = 1
    <3>1. /\ rowCount \in Nat /\ r \in 0 .. rowCount - 1
          /\ activeThreads \in Nat \ {0} /\ activeThreads <= MaxThreads
      BY DEF CallerInv, TypeOK
    <3>2. PICK w \in 0 .. activeThreads - 1 : r \in Mine(w)
      BY <3>1, RangesCoverTheBlock DEF Mine
    <3>3. w \in Workers /\ w < activeThreads
      BY <1>1, <3>1 DEF Slot
    <3> QED
      BY <2>1, <3>2, <3>3
  <2> QED
    BY <2>2, <2>3
<1> QED
  BY <1>2, <1>3, <1>4, <1>5, <1>6, <1>7

LEMMA DestroyStep == ASSUME IndInv, Destroy PROVE IndInv'
<1> USE PoolAssumption
    DEF IndInv, Destroy, Calling, TaskOut, configVars, taskVars, workerVars, history
<1>1. TypeOK'
  BY DEF TypeOK, CallerStates
<1>2. CallerInv' /\ WorkerInv'
  BY DEF CallerInv, WorkerInv, Taken, Share, FirstRow
<1>3. CountInv' /\ ShareInv' /\ BrokenInv' /\ InlineInv' /\ ScratchInv'
  BY DEF CountInv, ShareInv, BrokenInv, InlineInv, ScratchInv
<1>4. RowsWrittenAtMostOnce' /\ TrueMeansEncoded'
  BY DEF RowsWrittenAtMostOnce, TrueMeansEncoded
<1> QED
  BY <1>1, <1>2, <1>3, <1>4

LEMMA SetStopStep == ASSUME IndInv, SetStop PROVE IndInv'
<1> USE PoolAssumption
    DEF IndInv, SetStop, Calling, TaskOut, configVars, workerVars, history
<1>1. TypeOK'
  <2>1. stop' \in BOOLEAN
    OBVIOUS
  <2> QED
    BY <2>1 DEF TypeOK, CallerStates
<1>2. CallerInv' /\ WorkerInv'
  BY DEF CallerInv, WorkerInv, Taken, Share, FirstRow
<1>3. CountInv' /\ ShareInv' /\ BrokenInv' /\ InlineInv' /\ ScratchInv'
  BY DEF CountInv, ShareInv, BrokenInv, InlineInv, ScratchInv
<1>4. RowsWrittenAtMostOnce' /\ TrueMeansEncoded'
  BY DEF RowsWrittenAtMostOnce, TrueMeansEncoded
<1> QED
  BY <1>1, <1>2, <1>3, <1>4

-----------------------------------------------------------------------------
(* The steps of a worker that move a task along *)

LEMMA WorkerTakeStep ==
  ASSUME IndInv, NEW w \in Workers, WorkerTake(w)
  PROVE  IndInv'
<1> USE PoolAssumption
    DEF IndInv, WorkerTake, Calling, TaskOut, callerVars, configVars, taskVars, history
<1> DEFINE j == [rows |-> rowCount, active |-> activeThreads]
<1>1. /\ TaskOut /\ ~ Taken(w) /\ Taken(w)'
      /\ worker[w] = "check"
      /\ worker'[w] = IF HasRows(w, j) THEN "encode" ELSE "report"
      /\ job'[w] = j /\ processed'[w] = 0 /\ fine'[w] = TRUE
  BY DEF TypeOK, WorkerInv, Taken
<1>2. \A v \in Workers : v # w =>
        /\ worker'[v] = worker[v] /\ (Taken(v)' <=> Taken(v))
        /\ job'[v] = job[v] /\ processed'[v] = processed[v] /\ fine'[v] = fine[v]
  BY DEF TypeOK, Taken
<1>3. w \in Nat /\ rowCount \in Nat /\ activeThreads \in Nat \ {0}
  <2>1. w \in Nat
    BY WorkersAreSlots
  <2>2. rowCount \in 0 .. MaxRows /\ activeThreads \in 1 .. MaxThreads
    BY DEF TypeOK
  <2> QED
    BY <2>1, <2>2
<1>4. /\ RowBegin(w, rowCount, activeThreads) \in Nat
      /\ RowEnd(w, rowCount, activeThreads) \in Nat
  BY <1>3, RangeBounds
<1>5. TypeOK'
  <2>1. /\ seen' \in [Workers -> Nat]
        /\ processed' \in [Workers -> 0 .. MaxRows]
    BY DEF TypeOK
  <2>2. job' \in [Workers -> [rows : 0 .. MaxRows, active : 1 .. MaxThreads]]
    BY DEF TypeOK
  <2>3. fine' \in [Workers -> BOOLEAN]
    BY DEF TypeOK
  <2>4. worker' \in [Workers -> WorkerStates]
    BY DEF TypeOK, WorkerStates
  <2> QED
    BY <2>1, <2>2, <2>3, <2>4 DEF TypeOK
<1>6. CallerInv' /\ InlineInv' /\ ScratchInv' /\ RowsWrittenAtMostOnce' /\ TrueMeansEncoded'
  BY DEF CallerInv, InlineInv, ScratchInv, RowsWrittenAtMostOnce, TrueMeansEncoded
<1>7. Mine(w)' = Mine(w)
  BY DEF Mine
<1>8. worker'[w] = "encode" =>
        /\ w < activeThreads
        /\ FirstRow(w)' = RowBegin(w, rowCount, activeThreads)
        /\ Share(w)' > 0
  <2> SUFFICES ASSUME worker'[w] = "encode"
               PROVE  /\ w < activeThreads
                      /\ FirstRow(w)' = RowBegin(w, rowCount, activeThreads)
                      /\ Share(w)' > 0
    OBVIOUS
  <2>1. w < activeThreads /\ RowsOf(w, rowCount, activeThreads) # {}
    BY <1>1 DEF HasRows
  <2>2. /\ FirstRow(w)' = RowBegin(w, rowCount, activeThreads)
        /\ Share(w)' = RowEnd(w, rowCount, activeThreads)
                         - RowBegin(w, rowCount, activeThreads)
    BY <1>1 DEF FirstRow, Share
  <2> QED
    BY <1>4, <2>1, <2>2 DEF RowsOf
<1>9. WorkerInv'
  <2> SUFFICES ASSUME NEW v \in Workers
               PROVE  /\ worker'[v] = "exited" => stop
                      /\ worker'[v] \in {"encode", "report"} => Taken(v)'
                      /\ Taken(v)' => job'[v] = j
                      /\ worker'[v] = "encode" =>
                           v < activeThreads /\ fine'[v] /\ processed'[v] < Share(v)'
    BY <1>1 DEF WorkerInv
  <2>1. CASE v = w
    BY <1>1, <1>8, <2>1
  <2>2. CASE v # w
    BY <1>1, <1>2, <2>2 DEF WorkerInv, Share, FirstRow
  <2> QED
    BY <2>1, <2>2
<1>10. Reported' = Reported
  BY <1>1, <1>2 DEF Reported
<1>11. CountInv'
  BY <1>10 DEF CountInv
<1>12. ShareInv'
  <2> SUFFICES ASSUME NEW v \in Workers, v < activeThreads
      PROVE  /\ \A r \in Mine(v) :
                  /\ ~ Taken(v)' => writes[r] = 0
                  /\ worker'[v] = "encode" /\ r >= FirstRow(v)' + processed'[v]
                       => writes[r] = 0
                  /\ Taken(v)' /\ (worker'[v] = "encode" =>
                                     r < FirstRow(v)' + processed'[v])
                       /\ fine'[v] => writes[r] = 1
             /\ v \in Reported => ok[v] = fine'[v]
    BY <1>10, ZenonT(60) DEF ShareInv, Mine
  <2>1. CASE v # w
    BY <1>1, <1>2, <2>1 DEF ShareInv, FirstRow
  <2>2. CASE v = w
    <3>1. \A r \in Mine(w) : writes[r] = 0
      BY <1>1, <2>2 DEF ShareInv
    <3>2. w \notin Reported
      BY <1>1 DEF Reported
    <3>3. ASSUME NEW r \in Mine(w)
          PROVE  worker'[w] = "encode" /\ ~ (r < FirstRow(w)' + processed'[w])
      <4>1. HasRows(w, j)
        BY <3>3, <2>2 DEF HasRows, Mine
      <4>2. r >= RowBegin(w, rowCount, activeThreads) /\ r \in Int
        BY <1>4 DEF Mine, RowsOf
      <4> QED
        BY <1>1, <1>4, <1>8, <4>1, <4>2
    <3> QED
      BY <2>2, <3>1, <3>2, <3>3
  <2> QED
    BY <2>1, <2>2
<1>13. BrokenInv'
  BY <1>1, <1>2 DEF BrokenInv
<1> QED
  BY <1>5, <1>6, <1>9, <1>11, <1>12, <1>13

LEMMA ReportStep ==
  ASSUME IndInv, NEW w \in Workers, Report(w)
  PROVE  IndInv'
<1> USE PoolAssumption
    DEF IndInv, Report, Calling, TaskOut, callerVars, configVars, history
<1>1. /\ TaskOut /\ Taken(w) /\ w \notin Reported
      /\ worker'[w] = "signal"
      /\ w \in Slot
  BY WorkersAreSlots DEF TypeOK, WorkerInv, Reported
<1>2. \A v \in Workers : v # w => worker'[v] = worker[v] /\ ok'[v] = ok[v]
  BY WorkersAreSlots DEF TypeOK
<1>3. Reported' = Reported \cup {w}
  BY <1>1, <1>2 DEF Reported, Taken
<1>4. /\ IsFiniteSet(Reported)
      /\ Cardinality(Reported') = Cardinality(Reported) + 1
      /\ Cardinality(Reported') <= MaxThreads
  <2>1. MaxThreads > 1
    BY <1>1 DEF TypeOK, CallerInv
  <2>2. Reported \subseteq Workers /\ Reported' \subseteq Workers
    BY DEF Reported
  <2>3. IsFiniteSet(Reported)
    BY <2>2, WorkersAreSlots, FS_Subset
  <2>4. Cardinality(Reported') = Cardinality(Reported) + 1
    BY <1>1, <1>3, <2>3, FS_AddElement
  <2>5. Cardinality(Reported') <= MaxThreads
    BY <2>1, <2>2, WorkersAreSlots, FS_Subset
  <2> QED
    BY <2>3, <2>4, <2>5
<1>5. CountInv' /\ completed' \in 0 .. MaxThreads
  BY <1>1, <1>4 DEF CountInv, TypeOK
<1>6. TypeOK'
  <2>1. ok' \in [Slot -> BOOLEAN]
    BY DEF TypeOK
  <2>2. worker' \in [Workers -> WorkerStates]
    BY DEF TypeOK, WorkerStates
  <2> QED
    BY <1>5, <2>1, <2>2 DEF TypeOK
<1>7. CallerInv' /\ InlineInv' /\ ScratchInv' /\ RowsWrittenAtMostOnce' /\ TrueMeansEncoded'
  BY DEF CallerInv, InlineInv, ScratchInv, RowsWrittenAtMostOnce, TrueMeansEncoded
<1>8. WorkerInv'
  BY <1>1, <1>2 DEF WorkerInv, Taken, Share, FirstRow
<1>9. ShareInv'
  <2> SUFFICES ASSUME NEW v \in Workers, v < activeThreads
      PROVE  /\ \A r \in Mine(v) :
                  /\ ~ Taken(v) => writes[r] = 0
                  /\ worker'[v] = "encode" /\ r >= FirstRow(v) + processed[v]
                       => writes[r] = 0
                  /\ Taken(v) /\ (worker'[v] = "encode" =>
                                     r < FirstRow(v) + processed[v])
                       /\ fine[v] => writes[r] = 1
             /\ v \in Reported' => ok'[v] = fine[v]
    BY DEF ShareInv, Mine, Taken, FirstRow
  <2>1. CASE v # w
    BY <1>1, <1>2, <1>3, <2>1 DEF ShareInv
  <2>2. CASE v = w
    BY <1>1, <2>2 DEF ShareInv, TypeOK
  <2> QED
    BY <2>1, <2>2
<1>10. BrokenInv'
  BY DEF BrokenInv, Taken
<1> QED
  BY <1>5, <1>6, <1>7, <1>8, <1>9, <1>10

(* The rows of that tile lie within the block and are not written yet. *)
LEMMA TileIsFresh ==
  ASSUME IndInv, NEW w \in Workers, worker[w] = "encode"
  PROVE  LET first == FirstRow(w) + processed[w]
             last  == first + NextTile(w) - 1
         IN  /\ first \in Nat /\ last \in Nat /\ last < rowCount
             /\ rowCount = request.rows
             /\ \A r \in first .. last : /\ r \in Nat /\ r >= first
                                        /\ r \in Mine(w) /\ r \in Row
             /\ \A r \in first .. last : writes[r] = 0
<1> USE PoolAssumption DEF IndInv, TaskOut
<1> DEFINE first == FirstRow(w) + processed[w]
           last  == first + NextTile(w) - 1
<1>1. /\ TaskOut /\ Taken(w) /\ w < activeThreads
      /\ FirstRow(w) \in Nat /\ Share(w) \in Nat /\ NextTile(w) \in Nat
      /\ NextTile(w) > 0
      /\ processed[w] + NextTile(w) <= Share(w)
      /\ FirstRow(w) + Share(w) <= rowCount
      /\ Mine(w) = FirstRow(w) .. FirstRow(w) + Share(w) - 1
  BY TileIsMine
<1>2. /\ processed[w] \in Nat /\ rowCount \in Nat /\ rowCount <= MaxRows
      /\ rowCount = request.rows
      /\ w \in Slot
  <2>1. processed[w] \in 0 .. MaxRows /\ rowCount \in 0 .. MaxRows
    BY DEF TypeOK
  <2> QED
    BY <1>1, <2>1, WorkersAreSlots DEF CallerInv
<1>3. /\ first \in Nat /\ last \in Nat /\ last < rowCount
      /\ \A r \in first .. last : /\ r \in Nat /\ r >= first
                                 /\ r \in Mine(w) /\ r \in Row
  <2> HIDE DEF IndInv
  <2>1. first \in Nat /\ last \in Nat /\ last < rowCount /\ last < FirstRow(w) + Share(w)
    <3>1. ASSUME NEW f \in Nat, NEW p \in Nat, NEW n \in Nat, NEW s \in Nat,
                 NEW c \in Nat, n > 0, p + n <= s, f + s <= c
          PROVE  /\ f + p \in Nat /\ f + p + n - 1 \in Nat
                 /\ f + p + n - 1 < c /\ f + p + n - 1 < f + s
      BY <3>1
    <3> QED
      BY <1>1, <1>2, <3>1
  <2>2. MaxRows \in Nat
    OBVIOUS
  <2> HIDE DEF last
  <2>3. ASSUME NEW r \in first .. last
        PROVE  r \in Nat /\ r >= first /\ r >= FirstRow(w) /\ r < FirstRow(w) + Share(w)
               /\ r < MaxRows
    <3>1. first >= FirstRow(w)
      BY <1>1, <1>2
    <3>2. r \in Nat /\ r >= first /\ r <= last
      BY <2>1, <2>3
    <3> HIDE DEF first
    <3> QED
      BY <1>1, <1>2, <2>1, <2>2, <3>1, <3>2, SMTT(30)
  <2>4. ASSUME NEW r \in first .. last
        PROVE  r \in Mine(w) /\ r \in Row
    BY <1>1, <2>2, <2>3, <2>4 DEF Row
  <2> QED
    BY <2>1, <2>3, <2>4
<1>4. \A r \in first .. last : writes[r] = 0
  <2>1. worker[w] = "encode"
    OBVIOUS
  <2> HIDE DEF last
  <2>2. ASSUME NEW r \in Mine(w), r >= first
        PROVE  writes[r] = 0
    <3> HIDE DEF first
    <3>1. first = FirstRow(w) + processed[w]
      BY DEF first
    <3>2. ShareInv
      OBVIOUS
    <3> HIDE DEF IndInv
    <3> QED
      BY <1>1, <2>1, <2>2, <3>1, <3>2 DEF ShareInv
  <2> QED
    BY <1>3, <2>2
<1> QED
  BY <1>2, <1>3, <1>4

LEMMA EncodeTileStep ==
  ASSUME IndInv, NEW w \in Workers, NEW good \in BOOLEAN, EncodeTile(w, good)
  PROVE  IndInv'
<1> USE PoolAssumption
    DEF IndInv, EncodeTile, Calling, TaskOut, callerVars, configVars, taskVars
<1> DEFINE first == FirstRow(w) + processed[w]
           last  == first + NextTile(w) - 1
<1>1. /\ TaskOut /\ Taken(w) /\ w < activeThreads
      /\ FirstRow(w) \in Nat /\ Share(w) \in Nat /\ NextTile(w) \in Nat
      /\ NextTile(w) > 0
      /\ processed[w] + NextTile(w) <= Share(w)
      /\ FirstRow(w) + Share(w) <= rowCount
      /\ Mine(w) = FirstRow(w) .. FirstRow(w) + Share(w) - 1
  BY TileIsMine
<1>2. /\ processed[w] \in Nat /\ rowCount \in Nat /\ rowCount <= MaxRows
      /\ rowCount = request.rows
      /\ w \in Slot
  <2>1. processed[w] \in 0 .. MaxRows /\ rowCount \in 0 .. MaxRows
    BY DEF TypeOK
  <2> QED
    BY <1>1, <2>1, WorkersAreSlots DEF CallerInv
<1>3. /\ first \in Nat /\ last \in Nat /\ last < rowCount
      /\ \A r \in first .. last : /\ r \in Nat /\ r >= first
                                 /\ r \in Mine(w) /\ r \in Row
      /\ \A r \in first .. last : writes[r] = 0
  BY TileIsFresh
<1>5. /\ writes' = [r \in Row |-> IF r \in first .. last THEN writes[r] + 1 ELSE writes[r]]
      /\ broken' = (broken \/ ~ good)
  BY DEF WriteRows
<1>6. /\ \A r \in first .. last : writes'[r] = 1
      /\ \A r \in Row : r \notin first .. last => writes'[r] = writes[r]
  BY <1>3, <1>5
<1>7. /\ fine' = [fine EXCEPT ![w] = good]
      /\ processed' = [processed EXCEPT ![w] = IF good THEN processed[w] + NextTile(w)
                                                       ELSE processed[w]]
      /\ worker' = [worker EXCEPT ![w] =
                      IF good /\ processed[w] + NextTile(w) < Share(w)
                        THEN "encode" ELSE "report"]
      /\ UNCHANGED <<seen, job, callerVars, configVars, taskVars>>
  OBVIOUS
<1>8. /\ fine'[w] = good
      /\ processed'[w] = IF good THEN processed[w] + NextTile(w) ELSE processed[w]
      /\ worker'[w] = IF good /\ processed[w] + NextTile(w) < Share(w)
                        THEN "encode" ELSE "report"
      /\ \A v \in Workers : v # w =>
           /\ worker'[v] = worker[v] /\ processed'[v] = processed[v]
           /\ fine'[v] = fine[v]
  BY DEF TypeOK
<1>9. \A v \in Workers :
        /\ FirstRow(v)' = FirstRow(v) /\ Share(v)' = Share(v)
        /\ Mine(v)' = Mine(v) /\ (Taken(v)' <=> Taken(v))
  BY DEF FirstRow, Share, Mine, Taken
<1> HIDE DEF EncodeTile, first, last
<1>10. TypeOK'
  <2>1. writes' \in [Row -> Nat]
    BY <1>5 DEF TypeOK
  <2>2. processed' \in [Workers -> 0 .. MaxRows]
    <3>1. processed[w] + NextTile(w) \in 0 .. MaxRows
      BY <1>1, <1>2
    <3> QED
      BY <1>7, <3>1 DEF TypeOK
  <2>3. fine' \in [Workers -> BOOLEAN] /\ broken' \in BOOLEAN
    BY <1>5, <1>7 DEF TypeOK
  <2>4. worker' \in [Workers -> WorkerStates]
    BY <1>7 DEF TypeOK, WorkerStates
  <2> QED
    BY <1>7, <2>1, <2>2, <2>3, <2>4 DEF TypeOK
<1>11. CallerInv' /\ ScratchInv'
  BY <1>7 DEF CallerInv, ScratchInv
<1>12. InlineInv' /\ TrueMeansEncoded'
  BY <1>1, <1>7 DEF InlineInv, TrueMeansEncoded, CallerInv
<1>13. RowsWrittenAtMostOnce'
  <2> SUFFICES ASSUME NEW r \in Row
               PROVE  writes'[r] <= (IF r < request.rows THEN 1 ELSE 0)
    BY <1>7 DEF RowsWrittenAtMostOnce
  <2>1. CASE r \in first .. last
    BY <1>2, <1>3, <1>6, <2>1
  <2>2. CASE r \notin first .. last
    BY <1>6, <2>2 DEF RowsWrittenAtMostOnce
  <2> QED
    BY <2>1, <2>2
<1>14. WorkerInv'
  <2> SUFFICES ASSUME NEW v \in Workers
               PROVE  /\ worker'[v] = "exited" => stop
                      /\ worker'[v] \in {"encode", "report"} => Taken(v)
                      /\ Taken(v) => job[v] = [rows |-> rowCount, active |-> activeThreads]
                      /\ worker'[v] = "encode" =>
                           v < activeThreads /\ fine'[v] /\ processed'[v] < Share(v)
    BY <1>1, <1>7, <1>9 DEF WorkerInv
  <2>1. CASE v = w
    BY <1>1, <1>8, <2>1 DEF WorkerInv
  <2>2. CASE v # w
    BY <1>1, <1>8, <2>2 DEF WorkerInv
  <2> QED
    BY <2>1, <2>2
<1>15. Reported' = Reported
  <2>1. worker[w] = "encode" /\ worker'[w] \in {"encode", "report"}
    BY <1>8 DEF EncodeTile
  <2> QED
    BY <1>8, <1>9, <2>1 DEF Reported
<1>16. CountInv'
  BY <1>7, <1>15 DEF CountInv
<1>17. ShareInv'
  <2> SUFFICES ASSUME NEW v \in Workers, v < activeThreads
      PROVE  /\ \A r \in Mine(v) :
                  /\ ~ Taken(v) => writes'[r] = 0
                  /\ worker'[v] = "encode" /\ r >= FirstRow(v) + processed'[v]
                       => writes'[r] = 0
                  /\ Taken(v) /\ (worker'[v] = "encode" =>
                                     r < FirstRow(v) + processed'[v])
                       /\ fine'[v] => writes'[r] = 1
             /\ v \in Reported => ok[v] = fine'[v]
    BY <1>7, <1>9, <1>15 DEF ShareInv
  <2>1. CASE v # w
    <3>1. \A r \in Mine(v) : r \in Row /\ writes'[r] = writes[r]
      <4> SUFFICES ASSUME NEW r \in Mine(v) PROVE r \in Row /\ writes'[r] = writes[r]
        OBVIOUS
      <4>1. r \notin Mine(w)
        BY <2>1, MineIsDisjoint
      <4>2. r \in Row
        BY MineInBlock
      <4> QED
        BY <1>3, <1>6, <4>1, <4>2
    <3> QED
      BY <1>1, <1>8, <2>1, <3>1 DEF ShareInv
  <2>2. CASE v = w
    <3>1. w \notin Reported
      BY DEF Reported, EncodeTile
    <3>2. worker[w] = "encode" /\ fine[w]
      BY DEF EncodeTile, WorkerInv
    <3>3. ASSUME NEW r \in Mine(w)
          PROVE  /\ r < first => writes'[r] = 1
                 /\ r > last => writes'[r] = 0
                 /\ r \in first .. last => writes'[r] = 1
      <4>1. r \in Row /\ r \in Nat
        BY MineInBlock DEF Row
      <4>2. r < first => writes[r] = 1
        BY <1>1, <3>2, <3>3 DEF ShareInv, first
      <4>3. r > last => writes[r] = 0
        <5>1. r > last => r >= FirstRow(w) + processed[w]
          BY <1>1, <1>2, <4>1, SMTT(30) DEF first, last
        <5> QED
          BY <1>1, <3>2, <3>3, <5>1 DEF ShareInv
      <4> QED
        BY <1>3, <1>6, <4>1, <4>2, <4>3
    <3>4. CASE good /\ processed[w] + NextTile(w) < Share(w)
      <4>1. worker'[w] = "encode" /\ FirstRow(w) + processed'[w] = last + 1
        BY <1>1, <1>2, <1>8, <3>4 DEF first, last
      <4>2. \A r \in Mine(w) : r \in Nat
        BY <1>1
      <4> QED
        BY <1>1, <1>3, <2>2, <3>1, <3>3, <4>1, <4>2
    <3>5. CASE good /\ ~ (processed[w] + NextTile(w) < Share(w))
      <4>1. worker'[w] = "report" /\ last = FirstRow(w) + Share(w) - 1
        <5>1. worker'[w] = "report"
          BY <1>8, <3>5
        <5>2. processed[w] + NextTile(w) = Share(w)
          <6> HIDE DEF IndInv
          <6>1. ~ (processed[w] + NextTile(w) < Share(w))
            BY <3>5
          <6> QED
            BY <1>1, <1>2, <6>1, SMTT(30)
        <5> QED
          BY <1>1, <1>2, <5>1, <5>2, SMTT(30) DEF first, last
      <4>2. \A r \in Mine(w) : r \in Nat /\ r <= last
        BY <1>1, <4>1
      <4> QED
        BY <1>1, <1>3, <2>2, <3>1, <3>3, <4>1, <4>2
    <3>6. CASE ~ good
      BY <1>1, <1>8, <2>2, <3>1, <3>6
    <3> QED
      BY <3>4, <3>5, <3>6
  <2> QED
    BY <2>1, <2>2
<1>18. BrokenInv'
  <2>1. CASE good
    <3>1. broken' => broken
      BY <1>5, <2>1, Zenon
    <3>2. fine[w]
      BY DEF EncodeTile, WorkerInv
    <3> QED
      BY <1>7, <1>8, <1>9, <2>1, <3>1, <3>2 DEF BrokenInv
  <2>2. CASE ~ good
    BY <1>1, <1>7, <1>8, <1>9, <2>2 DEF BrokenInv
  <2> QED
    BY <2>1, <2>2
<1> QED
  BY <1>10, <1>11, <1>12, <1>13, <1>14, <1>16, <1>17, <1>18

-----------------------------------------------------------------------------
(* Every step of the pool, and every step that is not its own, keeps the   *)
(* inductive invariant.                                                    *)
LEMMA NextStep == IndInv /\ [Next]_vars => IndInv'
<1> SUFFICES ASSUME IndInv, [Next]_vars PROVE IndInv'
  OBVIOUS
<1>1. worker \in [Workers -> WorkerStates]
  BY DEF IndInv, TypeOK
<1> USE DEF callerVars, configVars, taskVars, workerVars, history
<1>2. ASSUME NEW q \in Requests, Call(q) PROVE IndInv'
  BY <1>2, CallStep
<1>3. ASSUME CallerStep PROVE IndInv'
  <2>1. CASE ConfigureFails
    BY <2>1, ConfigureFailsStep
  <2>2. CASE Configure
    BY <2>2, ConfigureStep
  <2>3. ASSUME NEW good \in BOOLEAN, InlineTile(good) PROVE IndInv'
    BY <2>3, InlineTileStep
  <2>4. CASE InlineReturn
    BY <2>4, InlineReturnStep
  <2>5. CASE Publish
    BY <2>5, PublishStep
  <2>6. CASE Notify
    BY <1>1, <2>6, QuietStep DEF Notify, WakeAll, TaskOut, WorkerStates
  <2>7. CASE AwaitSleep
    BY <1>1, <2>7, QuietStep DEF AwaitSleep, TaskOut
  <2>8. CASE AwaitReturn
    BY <2>8, AwaitReturnStep
  <2>9. CASE SetStop
    BY <2>9, SetStopStep
  <2>10. CASE NotifyStop
    BY <1>1, <2>10, QuietStep DEF NotifyStop, WakeAll, WorkerStates
  <2>11. CASE Join
    BY <1>1, <2>11, QuietStep DEF Join
  <2> QED
    BY <1>3, <2>1, <2>2, <2>3, <2>4, <2>5, <2>6, <2>7, <2>8, <2>9, <2>10, <2>11
       DEF CallerStep
<1>4. CASE CallerSpuriousWake
  BY <1>1, <1>4, QuietStep DEF CallerSpuriousWake, TaskOut
<1>5. CASE Destroy
  BY <1>5, DestroyStep
<1>6. ASSUME NEW w \in Workers, WorkerStep(w) \/ WorkerSpuriousWake(w)
      PROVE  IndInv'
  <2>1. CASE WorkerExit(w)
    BY <1>1, <2>1, QuietStep DEF WorkerExit, WorkerStates
  <2>2. CASE WorkerSleep(w)
    BY <1>1, <2>2, QuietStep DEF WorkerSleep, WorkerStates
  <2>3. CASE WorkerTake(w)
    BY <2>3, WorkerTakeStep
  <2>4. ASSUME NEW good \in BOOLEAN, EncodeTile(w, good) PROVE IndInv'
    BY <2>4, EncodeTileStep
  <2>5. CASE Report(w)
    BY <2>5, ReportStep
  <2>6. CASE Signal(w)
    BY <1>1, <2>6, QuietStep DEF Signal, TaskOut, WorkerStates
  <2>7. CASE WorkerSpuriousWake(w)
    BY <1>1, <2>7, QuietStep DEF WorkerSpuriousWake, WorkerStates
  <2> QED
    BY <1>6, <2>1, <2>2, <2>3, <2>4, <2>5, <2>6, <2>7 DEF WorkerStep
<1>7. CASE UNCHANGED vars
  BY <1>1, <1>7, QuietStep DEF vars
<1> QED
  BY <1>2, <1>3, <1>4, <1>5, <1>6, <1>7 DEF Next

(* Every reachable state satisfies the inductive invariant. *)
THEOREM Inductive == Spec => []IndInv
BY InitStep, NextStep, PTL DEF Spec

-----------------------------------------------------------------------------
(* The fields of the pool and the locals of its threads keep their types.  *)
THEOREM TypeCorrect == Spec => []TypeOK
<1>1. IndInv => TypeOK
  BY DEF IndInv
<1> QED
  BY <1>1, Inductive, PTL

(* However many threads, rows and calls: while run() is not waiting for a  *)
(* task, no worker is in the middle of one or has one still to take, so    *)
(* configure_task and the caller may touch the shared fields and buffers.  *)
THEOREM Quiescence == Spec => []QuiescentOutsideTask
<1>1. IndInv => QuiescentOutsideTask
  BY DEF IndInv, WorkerInv, QuiescentOutsideTask, TaskOut, Taken
<1> QED
  BY <1>1, Inductive, PTL

(* The ranges that configure_task and worker_loop compute never make two   *)
(* workers, or two tiles, write one row, nor a row beyond the block.       *)
THEOREM NoRowTwice == Spec => []RowsWrittenAtMostOnce
<1>1. IndInv => RowsWrittenAtMostOnce
  BY DEF IndInv
<1> QED
  BY <1>1, Inductive, PTL

(* run() returns true only for a block of which every row was encoded.     *)
THEOREM TrueIsEncoded == Spec => []TrueMeansEncoded
<1>1. IndInv => TrueMeansEncoded
  BY DEF IndInv
<1> QED
  BY <1>1, Inductive, PTL

(* A tile decoded to F32 never exceeds the scratch vector it goes through. *)
THEOREM TilesFitScratch == Spec => []ScratchFits
<1>1. IndInv => ScratchFits
  <2> SUFFICES ASSUME IndInv, ~ plan.f32 PROVE
        /\ \A w \in Workers :
             worker[w] = "encode" => NextTile(w) * plan.width <= scratch[w]
        /\ caller = "inline" =>
             MinOf(tileRows, request.rows - inlineDone) * plan.width <= scratch[0]
    BY DEF ScratchFits
  <2>1. /\ tileRows \in Nat /\ plan.width \in Nat
        /\ request.rows \in Nat /\ inlineDone \in Nat
        /\ activeThreads \in Nat \ {0} /\ MaxThreads \in Nat \ {0}
    BY PoolAssumption DEF IndInv, TypeOK
  <2>2. ASSUME NEW n \in Int, n <= tileRows
        PROVE  n * plan.width <= tileRows * plan.width
    <3>1. ASSUME NEW a \in Nat, NEW b \in Nat PROVE a * b \in Nat
      BY <3>1, Z3
    <3>2. PICK d \in Nat : tileRows = n + d
      BY <2>1, <2>2
    <3>3. (n + d) * plan.width = n * plan.width + d * plan.width
      BY <2>1, Z3
    <3> QED
      BY <2>1, <3>1, <3>2, <3>3
  <2>3. ASSUME NEW w \in Workers, worker[w] = "encode"
        PROVE  NextTile(w) * plan.width <= scratch[w]
    <3>1. /\ TaskOut /\ w < activeThreads /\ w \in Slot
          /\ NextTile(w) \in Int /\ NextTile(w) <= tileRows
      BY <2>3, TileIsMine, WorkersAreSlots
    <3>2. scratch[w] = tileRows * plan.width
      BY <3>1 DEF IndInv, ScratchInv, Calling, TaskOut
    <3> QED
      BY <2>2, <3>1, <3>2
  <2>4. ASSUME caller = "inline"
        PROVE  MinOf(tileRows, request.rows - inlineDone) * plan.width <= scratch[0]
    <3>1. 0 \in Slot /\ 0 < activeThreads
      BY <2>1 DEF Slot
    <3>2. scratch[0] = tileRows * plan.width
      BY <2>4, <3>1 DEF IndInv, ScratchInv, Calling
    <3>3. /\ MinOf(tileRows, request.rows - inlineDone) \in Int
          /\ MinOf(tileRows, request.rows - inlineDone) <= tileRows
      BY <2>1 DEF MinOf
    <3> QED
      BY <2>2, <3>2, <3>3
  <2> QED
    BY <2>3, <2>4
<1> QED
  BY <1>1, Inductive, PTL

-----------------------------------------------------------------------------
(* No wakeup is lost.                                                      *)

(* The first part of NobodyWaitsInVain, which is inductive by itself.      *)
SleepInv ==
  \A w \in Workers :
    worker[w] = "waiting" /\ (stop \/ ~ Taken(w)) => caller \in {"notify", "notifyStop"}

(* The steps that put nobody to sleep and publish nothing. *)
LEMMA WakeKept ==
  ASSUME SleepInv, SignalInv,
         UNCHANGED <<generation, stop, seen, completed>>,
         \A w \in Workers :
           /\ worker'[w] = "waiting" => worker[w] = "waiting"
           /\ worker[w] = "signal" => worker'[w] = "signal",
         caller \in {"notify", "notifyStop"} => caller' = caller,
         caller' = "blocked" => caller = "blocked" \/ ~ AllReported
  PROVE  SleepInv' /\ SignalInv'
BY DEF SleepInv, SignalInv, Taken, AllReported

LEMMA WakeStep == IndInv /\ SleepInv /\ SignalInv /\ [Next]_vars => SleepInv' /\ SignalInv'
<1> SUFFICES ASSUME IndInv, SleepInv, SignalInv, [Next]_vars
             PROVE  SleepInv' /\ SignalInv'
  OBVIOUS
<1>1. worker \in [Workers -> WorkerStates] /\ seen \in [Workers -> Nat]
  BY DEF IndInv, TypeOK
<1> USE DEF callerVars, configVars, taskVars, workerVars, history
<1>2. ASSUME NEW q \in Requests, Call(q) PROVE SleepInv' /\ SignalInv'
  BY <1>2, WakeKept DEF Call
<1>3. ASSUME CallerStep PROVE SleepInv' /\ SignalInv'
  <2>1. CASE ConfigureFails
    BY <2>1, WakeKept DEF ConfigureFails
  <2>2. CASE Configure
    <3>1. caller = "configure" /\ caller' \in {"inline", "publish"}
      BY <2>2 DEF Configure
    <3> QED
      BY <2>2, <3>1, WakeKept DEF Configure
  <2>3. ASSUME NEW good \in BOOLEAN, InlineTile(good) PROVE SleepInv' /\ SignalInv'
    <3>1. caller = "inline" /\ caller' \in {"inline", "inlineFailed"}
      BY <2>3 DEF InlineTile
    <3> QED
      BY <2>3, <3>1, WakeKept DEF InlineTile
  <2>4. CASE InlineReturn
    BY <2>4, WakeKept DEF InlineReturn
  <2>5. CASE Publish
    BY <2>5 DEF Publish, SleepInv, SignalInv
  <2>6. CASE Notify
    BY <1>1, <2>6 DEF Notify, WakeAll, SleepInv, SignalInv
  <2>7. CASE AwaitSleep
    BY <2>7, WakeKept DEF AwaitSleep
  <2>8. CASE AwaitReturn
    BY <2>8, WakeKept DEF AwaitReturn
  <2>9. CASE SetStop
    BY <2>9 DEF SetStop, SleepInv, SignalInv
  <2>10. CASE NotifyStop
    BY <1>1, <2>10 DEF NotifyStop, WakeAll, SleepInv, SignalInv
  <2>11. CASE Join
    BY <2>11, WakeKept DEF Join
  <2> QED
    BY <1>3, <2>1, <2>2, <2>3, <2>4, <2>5, <2>6, <2>7, <2>8, <2>9, <2>10, <2>11
       DEF CallerStep
<1>4. CASE CallerSpuriousWake
  BY <1>4, WakeKept DEF CallerSpuriousWake
<1>5. CASE Destroy
  <2>1. caller = "idle" /\ caller' \in {"gone", "stopping"}
    BY <1>5 DEF Destroy
  <2> QED
    BY <1>5, <2>1, WakeKept DEF Destroy
<1>6. ASSUME NEW w \in Workers, WorkerStep(w) \/ WorkerSpuriousWake(w)
      PROVE  SleepInv' /\ SignalInv'
  <2>1. CASE WorkerExit(w)
    BY <1>1, <2>1, WakeKept DEF WorkerExit
  <2>2. CASE WorkerSleep(w)
    <3>1. \A v \in Workers :
            /\ v # w => worker'[v] = worker[v]
            /\ v = w => worker[v] = "check" /\ Taken(v) /\ ~ stop
      BY <1>1, <2>2 DEF WorkerSleep, Taken
    <3>2. UNCHANGED <<caller, generation, stop, seen, completed>>
      BY <2>2 DEF WorkerSleep
    <3> QED
      BY <3>1, <3>2 DEF SleepInv, SignalInv, Taken, AllReported
  <2>3. CASE WorkerTake(w)
    <3>1. \A v \in Workers :
            /\ v # w => worker'[v] = worker[v] /\ seen'[v] = seen[v]
            /\ v = w => worker[v] = "check" /\ worker'[v] \in {"encode", "report"}
      BY <1>1, <2>3 DEF WorkerTake
    <3>2. UNCHANGED <<caller, generation, stop, completed>>
      BY <2>3 DEF WorkerTake
    <3> QED
      BY <3>1, <3>2 DEF SleepInv, SignalInv, Taken, AllReported
  <2>4. ASSUME NEW good \in BOOLEAN, EncodeTile(w, good)
        PROVE  SleepInv' /\ SignalInv'
    <3>1. \A v \in Workers :
            /\ v # w => worker'[v] = worker[v]
            /\ v = w => worker[v] = "encode" /\ worker'[v] \in {"encode", "report"}
      BY <1>1, <2>4 DEF EncodeTile
    <3> QED
      BY <2>4, <3>1, WakeKept DEF EncodeTile
  <2>5. CASE Report(w)
    <3>1. \A v \in Workers :
            /\ v # w => worker'[v] = worker[v]
            /\ v = w => worker'[v] = "signal"
      BY <1>1, <2>5 DEF Report
    <3>2. UNCHANGED <<caller, generation, stop, seen>>
      BY <2>5 DEF Report
    <3> QED
      BY <3>1, <3>2 DEF SleepInv, SignalInv, Taken
  <2>6. CASE Signal(w)
    <3>1. \A v \in Workers :
            /\ v # w => worker'[v] = worker[v]
            /\ v = w => worker'[v] = "check"
      BY <1>1, <2>6 DEF Signal
    <3>2. UNCHANGED <<generation, stop, seen>> /\ caller' # "blocked"
      BY <2>6 DEF Signal
    <3>3. caller \in {"notify", "notifyStop"} => caller' = caller
      BY <2>6 DEF Signal
    <3> QED
      BY <3>1, <3>2, <3>3 DEF SleepInv, SignalInv, Taken
  <2>7. CASE WorkerSpuriousWake(w)
    BY <1>1, <2>7, WakeKept DEF WorkerSpuriousWake
  <2> QED
    BY <1>6, <2>1, <2>2, <2>3, <2>4, <2>5, <2>6, <2>7 DEF WorkerStep
<1>7. CASE UNCHANGED vars
  BY <1>7, WakeKept DEF vars
<1> QED
  BY <1>2, <1>3, <1>4, <1>5, <1>6, <1>7 DEF Next

(* A caller that sleeps before all have reported waits for a worker that   *)
(* is awake: the count lacks one, who has a task to take or to finish.     *)
LEMMA SomebodyIsAtWork ==
  ASSUME IndInv, SleepInv, SignalInv, caller = "blocked"
  PROVE  \E w \in Workers : \/ worker[w] \in {"encode", "report", "signal"}
                            \/ worker[w] = "check" /\ ~ Taken(w)
<1>1. TaskOut /\ ~ stop
  BY DEF TaskOut, IndInv, CallerInv
<1>2. CASE AllReported
  BY <1>2 DEF SignalInv
<1>3. CASE ~ AllReported
  <2>1. MaxThreads > 1
    BY <1>1, PoolAssumption DEF IndInv, TypeOK, CallerInv
  <2>2. IsFiniteSet(Workers) /\ Cardinality(Workers) = MaxThreads
    BY <2>1, WorkersAreSlots
  <2>3. Reported # Workers
    BY <1>1, <1>3, <2>2 DEF IndInv, CountInv, AllReported
  <2>4. PICK w \in Workers : w \notin Reported
    BY <2>3 DEF Reported
  <2>5. worker[w] \in WorkerStates /\ worker[w] # "exited"
    BY <1>1 DEF IndInv, TypeOK, WorkerInv
  <2>6. worker[w] = "waiting" => Taken(w)
    BY DEF SleepInv
  <2> QED
    BY <2>4, <2>5, <2>6 DEF Reported, WorkerStates
<1> QED
  BY <1>2, <1>3

(* For every number of threads and every interleaving: a worker never      *)
(* sleeps through a task or the end of the pool, the caller never through  *)
(* the last report, although notify_all() and notify_one() are called      *)
(* after the mutex is released and wake only who is asleep at that moment. *)
THEOREM NoWakeupIsLost == Spec => []NobodyWaitsInVain
<1>1. Init => SleepInv /\ SignalInv
  BY DEF Init, SleepInv, SignalInv
<1>2. IndInv /\ SleepInv /\ SignalInv => NobodyWaitsInVain
  <2> SUFFICES ASSUME IndInv, SleepInv, SignalInv PROVE NobodyWaitsInVain
    OBVIOUS
  <2>1. caller = "join" => \A w \in Workers : worker[w] \in {"check", "signal", "exited"}
    <3> SUFFICES ASSUME caller = "join", NEW w \in Workers
                 PROVE  worker[w] \in {"check", "signal", "exited"}
      OBVIOUS
    <3>1. stop /\ worker[w] \in WorkerStates /\ ~ TaskOut
      BY DEF IndInv, TypeOK, CallerInv, TaskOut
    <3>2. worker[w] \notin {"waiting", "encode", "report"}
      BY <3>1 DEF SleepInv, IndInv, WorkerInv
    <3> QED
      BY <3>1, <3>2 DEF WorkerStates
  <2> QED
    BY <2>1, SomebodyIsAtWork DEF NobodyWaitsInVain, SleepInv
<1> QED
  BY <1>1, <1>2, InitStep, NextStep, WakeStep, PTL DEF Spec

-----------------------------------------------------------------------------
(* The pool implements what cpu_quantizer promises.                        *)

(* A call that is going to fail knows a tile that failed, and a worker     *)
(* that found one says so.  The converse is BrokenInv.                     *)
FailInv ==
  /\ caller = "inlineFailed" => broken
  /\ TaskOut =>
       \A w \in Workers : w < activeThreads /\ Taken(w) /\ ~ fine[w] => broken

(* The steps that leave the verdicts of the workers alone. *)
LEMMA FailInvKept ==
  ASSUME FailInv,
         UNCHANGED <<generation, activeThreads, seen, fine, broken>>,
         caller' = "inlineFailed" => caller = "inlineFailed",
         TaskOut' => TaskOut
  PROVE  FailInv'
BY DEF FailInv, Taken

LEMMA FailStep == IndInv /\ FailInv /\ [Next]_vars => FailInv'
<1> SUFFICES ASSUME IndInv, FailInv, [Next]_vars PROVE FailInv'
  OBVIOUS
<1> USE DEF callerVars, configVars, taskVars, workerVars, history, TaskOut
<1>1. ASSUME NEW q \in Requests, Call(q) PROVE FailInv'
  BY <1>1 DEF Call, FailInv
<1>2. ASSUME CallerStep PROVE FailInv'
  <2>1. CASE ConfigureFails
    BY <2>1 DEF ConfigureFails, FailInv
  <2>2. CASE Configure
    BY <2>2 DEF Configure, FailInv
  <2>3. ASSUME NEW good \in BOOLEAN, InlineTile(good) PROVE FailInv'
    BY <2>3 DEF InlineTile, WriteRows, FailInv
  <2>4. CASE InlineReturn
    BY <2>4 DEF InlineReturn, FailInv
  <2>5. CASE Publish
    <3>1. \A w \in Workers : ~ Taken(w)'
      BY <2>5 DEF Publish, IndInv, TypeOK, CallerInv, WorkerInv, Taken
    <3>2. caller' = "notify"
      BY <2>5 DEF Publish
    <3> QED
      BY <3>1, <3>2 DEF FailInv
  <2>6. CASE Notify
    BY <2>6, FailInvKept DEF Notify
  <2>7. CASE AwaitSleep
    BY <2>7, FailInvKept DEF AwaitSleep
  <2>8. CASE AwaitReturn
    BY <2>8 DEF AwaitReturn, FailInv
  <2>9. CASE SetStop
    BY <2>9 DEF SetStop, FailInv
  <2>10. CASE NotifyStop
    BY <2>10 DEF NotifyStop, FailInv
  <2>11. CASE Join
    BY <2>11 DEF Join, FailInv
  <2> QED
    BY <1>2, <2>1, <2>2, <2>3, <2>4, <2>5, <2>6, <2>7, <2>8, <2>9, <2>10, <2>11
       DEF CallerStep
<1>3. CASE CallerSpuriousWake
  BY <1>3, FailInvKept DEF CallerSpuriousWake
<1>4. CASE Destroy
  BY <1>4 DEF Destroy, FailInv
<1>5. ASSUME NEW w \in Workers, WorkerStep(w) \/ WorkerSpuriousWake(w)
      PROVE  FailInv'
  <2>1. CASE WorkerExit(w)
    BY <2>1, FailInvKept DEF WorkerExit
  <2>2. CASE WorkerSleep(w)
    BY <2>2, FailInvKept DEF WorkerSleep
  <2>3. CASE WorkerTake(w)
    <3>1. \A v \in Workers : v # w => (Taken(v)' <=> Taken(v)) /\ fine'[v] = fine[v]
      BY <2>3 DEF WorkerTake, IndInv, TypeOK, Taken
    <3>2. fine'[w]
      BY <2>3 DEF WorkerTake, IndInv, TypeOK
    <3>3. UNCHANGED <<caller, broken, activeThreads>>
      BY <2>3 DEF WorkerTake
    <3> QED
      BY <3>1, <3>2, <3>3 DEF FailInv
  <2>4. ASSUME NEW good \in BOOLEAN, EncodeTile(w, good) PROVE FailInv'
    <3>1. \A v \in Workers : v # w => fine'[v] = fine[v]
      BY <2>4 DEF EncodeTile, IndInv, TypeOK
    <3>2. fine'[w] = good
      BY <2>4 DEF EncodeTile, IndInv, TypeOK
    <3>3. UNCHANGED <<caller, activeThreads, seen, generation>>
      BY <2>4 DEF EncodeTile
    <3>4. broken' = (broken \/ ~ good)
      BY <2>4 DEF EncodeTile, WriteRows
    <3> QED
      BY <3>1, <3>2, <3>3, <3>4 DEF FailInv, Taken
  <2>5. CASE Report(w)
    BY <2>5, FailInvKept DEF Report
  <2>6. CASE Signal(w)
    <3>1. UNCHANGED <<generation, activeThreads, seen, fine, broken>>
      BY <2>6 DEF Signal
    <3>2. caller' = caller \/ (caller = "blocked" /\ caller' = "await")
      BY <2>6 DEF Signal
    <3> QED
      BY <3>1, <3>2, FailInvKept
  <2>7. CASE WorkerSpuriousWake(w)
    BY <2>7, FailInvKept DEF WorkerSpuriousWake
  <2> QED
    BY <1>5, <2>1, <2>2, <2>3, <2>4, <2>5, <2>6, <2>7 DEF WorkerStep
<1>6. CASE UNCHANGED vars
  BY <1>6, FailInvKept DEF vars
<1> QED
  BY <1>1, <1>2, <1>3, <1>4, <1>5, <1>6 DEF Next

LEMMA FailHolds == Spec => [](IndInv /\ FailInv)
<1>1. Init => FailInv
  BY DEF Init, FailInv, TaskOut
<1> QED
  BY <1>1, InitStep, NextStep, FailStep, PTL DEF Spec

(* Where the abstract module's caller is. *)
Phase ==
  CASE caller \in {"idle", "stopping", "notifyStop", "join"} -> "idle"
    [] caller = "gone" -> "gone"
    [] OTHER -> "running"

(* The steps the caller of run() does not see. *)
LEMMA Unseen ==
  ASSUME IndInv, IndInv', UNCHANGED <<request, history, verdict>>,
         \/ caller' = caller
         \/ Calling /\ Calling'
         \/ {caller, caller'} \subseteq {"idle", "stopping", "notifyStop", "join"}
  PROVE  UNCHANGED (Promise!vars)
<1>1. Phase' = Phase
  BY DEF Phase, Calling
<1> QED
  BY <1>1 DEF Promise!vars, history, Phase

(* A call with no thread to wait for returns with what the tiles said. *)
LEMMA InlineReturnKeepsPromise ==
  ASSUME IndInv, IndInv', FailInv, InlineReturn
  PROVE  Promise!Return
<1>1. Phase = "running" /\ Phase' = "idle"
  BY DEF InlineReturn, Phase
<1>2. UNCHANGED <<request, writes, broken>>
  BY DEF InlineReturn, history
<1>3. CASE caller = "inline"
  <2>1. verdict' = "encoded"
    BY <1>3 DEF InlineReturn
  <2>2. ~ broken' /\ \A r \in 0 .. request'.rows - 1 : writes'[r] = 1
    BY <2>1 DEF IndInv, TrueMeansEncoded
  <2> QED
    BY <1>1, <1>2, <2>1, <2>2 DEF Promise!Return, Phase
<1>4. CASE caller = "inlineFailed"
  <2>1. broken
    BY <1>4 DEF FailInv
  <2>2. verdict' = "failed"
    BY <1>4 DEF InlineReturn
  <2> QED
    BY <1>1, <1>2, <2>1, <2>2 DEF Promise!Return, Phase
<1> QED
  BY <1>3, <1>4 DEF InlineReturn

(* A call that waited returns true only if no worker failed, and false     *)
(* only if one did.                                                        *)
LEMMA AwaitReturnKeepsPromise ==
  ASSUME IndInv, IndInv', FailInv, AwaitReturn
  PROVE  Promise!Return
<1>1. Phase = "running" /\ Phase' = "idle"
  BY DEF AwaitReturn, Phase
<1>2. UNCHANGED <<request, writes, broken>> /\ verdict' = Verdict
  BY DEF AwaitReturn, history
<1>3. CASE \E i \in Slot : i < activeThreads /\ ~ ok[i]
  <2>1. PICK i \in Slot : i < activeThreads /\ ~ ok[i]
    BY <1>3
  <2>2. TaskOut /\ AllReported
    BY DEF AwaitReturn, TaskOut
  <2>3. i \in Workers /\ i \in Reported
    BY <2>1, <2>2, AllHaveReported
  <2>4. Taken(i) /\ ~ fine[i]
    BY <2>1, <2>2, <2>3 DEF IndInv, ShareInv, Reported
  <2>5. broken
    BY <2>1, <2>2, <2>3, <2>4 DEF FailInv
  <2>6. verdict' = "failed"
    BY <1>2, <1>3 DEF Verdict
  <2> QED
    BY <1>1, <1>2, <2>5, <2>6 DEF Promise!Return, Phase
<1>4. CASE ~ \E i \in Slot : i < activeThreads /\ ~ ok[i]
  <2>1. verdict' = "encoded"
    BY <1>2, <1>4 DEF Verdict
  <2>2. ~ broken' /\ \A r \in 0 .. request'.rows - 1 : writes'[r] = 1
    BY <2>1 DEF IndInv, TrueMeansEncoded
  <2> QED
    BY <1>1, <1>2, <2>1, <2>2 DEF Promise!Return, Phase
<1> QED
  BY <1>3, <1>4

(* A tile is a set of rows of the block that were not written before. *)
LEMMA TileKeepsPromise ==
  ASSUME NEW first \in Nat, NEW count \in Nat, count > 0,
         NEW good \in BOOLEAN, WriteRows(first, count, good),
         \A r \in first .. first + count - 1 :
           r \in Row /\ r < request.rows /\ writes[r] = 0,
         Phase = "running", Phase' = "running",
         UNCHANGED <<request, verdict>>
  PROVE  Promise!Next
<1> DEFINE S == first .. first + count - 1
<1>1. S \in SUBSET Row /\ S # {}
  <2>1. first \in S
    OBVIOUS
  <2> QED
    BY <2>1
<1>2. \A r \in S : r < request.rows /\ writes[r] = 0
  OBVIOUS
<1>3. writes' = [r \in Row |-> IF r \in S THEN writes[r] + 1 ELSE writes[r]]
  BY DEF WriteRows
<1>4. broken' = (broken \/ ~ good)
  BY DEF WriteRows
<1> HIDE DEF S
<1>5. S \in SUBSET Promise!Row
  BY <1>1 DEF Row, Promise!Row
<1>6. writes' = [r \in Promise!Row |-> IF r \in S THEN writes[r] + 1 ELSE writes[r]]
  BY <1>3 DEF Row, Promise!Row
<1>7. Promise!Encode(S, ~ good)
  BY <1>1, <1>2, <1>4, <1>6 DEF Promise!Encode, Phase
<1>8. (~ good) \in BOOLEAN
  OBVIOUS
<1> QED
  BY <1>5, <1>7, <1>8 DEF Promise!Next, Promise!Progress

(* Every step of the pool is a step of the promise or not seen. *)
LEMMA PromiseStep ==
  ASSUME IndInv, IndInv', FailInv, [Next]_vars
  PROVE  [Promise!Next]_(Promise!vars)
<1> USE DEF callerVars, configVars, taskVars, workerVars
<1>1. ASSUME NEW q \in Requests, Call(q) PROVE Promise!Next
  <2>1. Phase = "idle" /\ Phase' = "running"
    BY <1>1 DEF Call, Phase
  <2>2. q.rows \in 1 .. MaxRows
    BY DEF Requests
  <2>3. Promise!Call(q.rows)
    BY <1>1, <2>1 DEF Call, Promise!Call, Phase, Row, Promise!Row
  <2> QED
    BY <2>2, <2>3 DEF Promise!Next
<1>2. ASSUME CallerStep PROVE Promise!Next \/ UNCHANGED Promise!vars
  <2>1. CASE ConfigureFails
    <3>1. Phase = "running" /\ Phase' = "idle"
      BY <2>1 DEF ConfigureFails, Phase
    <3>2. \A r \in Promise!Row : writes[r] = 0
      BY <2>1 DEF ConfigureFails, IndInv, InlineInv, Row, Promise!Row
    <3>3. Promise!Refuse
      BY <2>1, <3>1, <3>2 DEF ConfigureFails, history, Promise!Refuse, Phase
    <3> QED
      BY <3>3 DEF Promise!Next, Promise!Progress
  <2>2. CASE Configure
    <3>1. Calling /\ Calling' /\ UNCHANGED <<request, history, verdict>>
      BY <2>2 DEF Configure, Calling, history
    <3> QED
      BY <3>1, Unseen
  <2>3. ASSUME NEW good \in BOOLEAN, InlineTile(good) PROVE Promise!Next
    <3> DEFINE count == MinOf(tileRows, request.rows - inlineDone)
    <3>1. Phase = "running" /\ Phase' = "running"
      BY <2>3 DEF InlineTile, Phase
    <3>2. /\ request.rows \in 1 .. MaxRows /\ tileRows \in 1 .. MaxRows
          /\ inlineDone \in 0 .. MaxRows /\ inlineDone < request.rows
      BY <2>3 DEF InlineTile, IndInv, TypeOK, CallerInv, Requests, Calling
    <3>3. MaxRows \in Nat
      BY PoolAssumption
    <3>4. count \in Nat /\ count > 0 /\ inlineDone + count <= request.rows
      BY <3>2, <3>3 DEF MinOf
    <3>5. UNCHANGED <<request, verdict>> /\ WriteRows(inlineDone, count, good)
      BY <2>3 DEF InlineTile
    <3>6. \A r \in Row : writes[r] = IF r < inlineDone THEN 1 ELSE 0
      BY <2>3 DEF InlineTile, IndInv, InlineInv
    <3> HIDE DEF count
    <3>7. \A r \in inlineDone .. inlineDone + count - 1 :
            r \in Row /\ r < request.rows /\ ~ (r < inlineDone)
      BY <3>2, <3>3, <3>4 DEF Row
    <3>8. inlineDone \in Nat
      BY <3>2, <3>3
    <3> QED
      BY <3>1, <3>4, <3>5, <3>6, <3>7, <3>8, TileKeepsPromise
  <2>4. CASE InlineReturn
    BY <2>4, InlineReturnKeepsPromise DEF Promise!Next, Promise!Progress
  <2>5. CASE Publish
    BY <2>5, Unseen DEF Publish, Calling
  <2>6. CASE Notify
    BY <2>6, Unseen DEF Notify, Calling
  <2>7. CASE AwaitSleep
    BY <2>7, Unseen DEF AwaitSleep, Calling
  <2>8. CASE AwaitReturn
    BY <2>8, AwaitReturnKeepsPromise DEF Promise!Next, Promise!Progress
  <2>9. CASE SetStop
    BY <2>9, Unseen DEF SetStop
  <2>10. CASE NotifyStop
    BY <2>10, Unseen DEF NotifyStop
  <2>11. CASE Join
    <3>1. Phase = "idle" /\ Phase' = "gone"
      BY <2>11 DEF Join, Phase
    <3>2. Promise!Destroy
      BY <2>11, <3>1 DEF Join, history, Promise!Destroy, Phase
    <3> QED
      BY <3>2 DEF Promise!Next
  <2> QED
    BY <1>2, <2>1, <2>2, <2>3, <2>4, <2>5, <2>6, <2>7, <2>8, <2>9, <2>10, <2>11
       DEF CallerStep
<1>3. ASSUME CallerSpuriousWake PROVE UNCHANGED Promise!vars
  BY <1>3, Unseen DEF CallerSpuriousWake, Calling
<1>4. ASSUME Destroy PROVE Promise!Next \/ UNCHANGED Promise!vars
  <2>1. CASE Workers = {}
    <3>1. Phase = "idle" /\ Phase' = "gone"
      BY <1>4, <2>1 DEF Destroy, Phase
    <3>2. Promise!Destroy
      BY <1>4, <3>1 DEF Destroy, history, Promise!Destroy, Phase
    <3> QED
      BY <3>2 DEF Promise!Next
  <2>2. CASE Workers # {}
    BY <1>4, <2>2, Unseen DEF Destroy
  <2> QED
    BY <2>1, <2>2
<1>5. ASSUME NEW w \in Workers, WorkerStep(w) \/ WorkerSpuriousWake(w)
      PROVE  Promise!Next \/ UNCHANGED Promise!vars
  <2>1. CASE WorkerExit(w)
    BY <2>1, Unseen DEF WorkerExit
  <2>2. CASE WorkerSleep(w)
    BY <2>2, Unseen DEF WorkerSleep
  <2>3. CASE WorkerTake(w)
    BY <2>3, Unseen DEF WorkerTake
  <2>4. ASSUME NEW good \in BOOLEAN, EncodeTile(w, good) PROVE Promise!Next
    <3> DEFINE first == FirstRow(w) + processed[w]
    <3>1. worker[w] = "encode" /\ UNCHANGED <<caller, request, verdict>>
      BY <2>4 DEF EncodeTile
    <3>2. WriteRows(first, NextTile(w), good)
      BY <2>4 DEF EncodeTile
    <3>3. Calling
      BY <3>1 DEF IndInv, WorkerInv, TaskOut, Calling
    <3>4. Phase = "running" /\ Phase' = "running"
      BY <3>1, <3>3 DEF Phase, Calling
    <3>5. NextTile(w) \in Nat /\ NextTile(w) > 0
      BY <3>1, TileIsMine
    <3>6. /\ first \in Nat /\ first + NextTile(w) - 1 \in Nat
          /\ first + NextTile(w) - 1 < request.rows
          /\ \A r \in first .. first + NextTile(w) - 1 :
               r \in Nat /\ r \in Row /\ writes[r] = 0
      BY <3>1, TileIsFresh
    <3>7. request.rows \in Nat
      BY PoolAssumption DEF IndInv, TypeOK
    <3> HIDE DEF first
    <3>8. \A r \in first .. first + NextTile(w) - 1 : r < request.rows
      BY <3>6, <3>7
    <3> QED
      BY <3>1, <3>2, <3>4, <3>5, <3>6, <3>8, TileKeepsPromise
  <2>5. CASE Report(w)
    BY <2>5, Unseen DEF Report
  <2>6. CASE Signal(w)
    BY <2>6, Unseen DEF Signal, Calling
  <2>7. CASE WorkerSpuriousWake(w)
    BY <2>7, Unseen DEF WorkerSpuriousWake
  <2> QED
    BY <1>5, <2>1, <2>2, <2>3, <2>4, <2>5, <2>6, <2>7 DEF WorkerStep
<1>6. ASSUME UNCHANGED vars PROVE UNCHANGED Promise!vars
  BY <1>6, Unseen DEF vars
<1> QED
  BY <1>1, <1>2, <1>3, <1>4, <1>5, <1>6 DEF Next

(* However many threads, rows and calls: to its caller, run() encodes rows *)
(* of the block that were not encoded before, returns true only after all  *)
(* of them, false only after one failed, and touches nothing between       *)
(* calls.  (That a call ends is a matter of fairness and stays with TLC.)  *)
THEOREM PoolKeepsPromise == Spec => Promise!Init /\ [][Promise!Next]_(Promise!vars)
<1>1. Init => Promise!Init
  BY DEF Init, Promise!Init, Row, Promise!Row
<1>2. IndInv /\ FailInv /\ [Next]_vars /\ (IndInv /\ FailInv)'
        => [Promise!Next]_(Promise!vars)
  BY PromiseStep
<1> QED
  BY <1>1, <1>2, FailHolds, PTL DEF Spec

=============================================================================
