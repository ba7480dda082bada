-------------------------- MODULE CpuQuantizerPool --------------------------
(***************************************************************************)
(* The CPU encoding pool of the converter: cpu_quantizer::implementation   *)
(* in conversion/cpu_quantizer.cpp.  One caller owns the pool and makes    *)
(* one call of run() at a time; a fixed set of worker threads sleeps on    *)
(* task_cv_ between calls.  A call publishes a task by bumping             *)
(* generation_, wakes the workers and sleeps on done_cv_ until all of      *)
(* them, those without rows included, have reported.                       *)
(*                                                                         *)
(* The code between lock and unlock of mutex_ is one step.  The fields     *)
(* that configure_task writes and quantize_range reads WITHOUT the mutex   *)
(* (plan_, tile_rows_, scratch_, active_threads_) are read and written in  *)
(* steps of their own.  Leaving wait() is always a step back to the test   *)
(* of the predicate, which covers spurious wakeups.                        *)
(***************************************************************************)
EXTENDS RowPartition, FiniteSets

CONSTANTS
  MaxThreads,    (* max_threads_                                          *)
  ParallelRows,  (* fewest rows that use more than one thread (64)        *)
  MaxRows,       (* most rows in one call; bounds the instance            *)
  MaxTasks,      (* most tasks handed to the workers; bounds the instance *)
  Plans          (* tensors: [f32 : source is F32, width : n_per_row,     *)
                 (* supported : has a native encoder]                     *)

ASSUME PoolAssumption ==
  /\ MaxThreads \in Nat \ {0}
  /\ ParallelRows \in Nat
  /\ MaxRows \in Nat \ {0}
  /\ MaxTasks \in Nat
  /\ Plans \subseteq [f32 : BOOLEAN, width : Nat \ {0}, supported : BOOLEAN]
  /\ Plans # {}

Row == 0 .. MaxRows - 1

Slot == 0 .. MaxThreads - 1

(* A pool of one thread starts none: run() works on the calling thread. *)
Workers == IF MaxThreads > 1 THEN Slot ELSE {}

VARIABLES
  caller,         (* where the owning thread is                           *)
  request,        (* the arguments of the current call of run()           *)
  verdict,        (* what the last call told its caller                   *)
  inlineDone,     (* rows finished when the caller itself encodes         *)
  plan,           (* plan_                                                *)
  activeThreads,  (* active_threads_                                      *)
  tileRows,       (* tile_rows_                                           *)
  scratch,        (* scratch_[i].size(), in values                        *)
  rowCount,       (* row_count_                                           *)
  ok,             (* ok_                                                  *)
  completed,      (* completed_                                           *)
  generation,     (* generation_                                          *)
  stop,           (* stop_                                                *)
  worker,         (* where each worker is                                 *)
  seen,           (* its seen_generation                                  *)
  job,            (* its copies of row_count_ and active_threads_         *)
  processed,      (* rows of its range that are finished                  *)
  fine,           (* its local ok                                         *)
  writes,         (* history: how often each row was written in this call *)
  broken          (* history: did a tile of this call fail to encode?     *)

callerVars == <<caller, request, verdict, inlineDone>>
configVars == <<plan, activeThreads, tileRows, scratch>>
taskVars   == <<rowCount, ok, completed, generation, stop>>
workerVars == <<worker, seen, job, processed, fine>>
history    == <<writes, broken>>
vars == <<callerVars, configVars, taskVars, workerVars, history>>

Requests == [plan : Plans, rows : 1 .. MaxRows, budget : 1 .. MaxRows]

Init ==
  /\ caller = "idle"
  /\ plan \in Plans               \* nullptr until the first call
  /\ request = [plan |-> plan, rows |-> 0, budget |-> 1]
  /\ verdict = "none"
  /\ inlineDone = 0
  /\ activeThreads = 1
  /\ tileRows = 1
  /\ scratch = [i \in Slot |-> 0]
  /\ rowCount = 0
  /\ ok = [i \in Slot |-> TRUE]
  /\ completed = 0
  /\ generation = 0
  /\ stop = FALSE
  /\ worker = [w \in Workers |-> "check"]
  /\ seen = [w \in Workers |-> 0]
  /\ job = [w \in Workers |-> [rows |-> 0, active |-> 1]]
  /\ processed = [w \in Workers |-> 0]
  /\ fine = [w \in Workers |-> TRUE]
  /\ writes = [r \in Row |-> 0]
  /\ broken = FALSE

-----------------------------------------------------------------------------
(* The caller: run() *)

Call(q) ==
  /\ caller = "idle"
  /\ generation < MaxTasks
  /\ caller' = "configure"
  /\ request' = q
  /\ verdict' = "none"
  /\ inlineDone' = 0
  /\ writes' = [r \in Row |-> 0]
  /\ broken' = FALSE
  /\ UNCHANGED <<configVars, taskVars, workerVars>>

(* Mutant: without the lower bound of one row per tile. *)
TileRowsNoFloor(q, active) ==
  IF q.plan.f32 THEN RowsPerThread(q.rows, active)
                ELSE MinOf(RowsPerThread(q.rows, active), q.budget - 1)

(* Rows per tile: an F32 range is one tile; another source is decoded      *)
(* through scratch memory, whose budget limits the tile.                   *)
TileRows(q, active) ==
  LET perThread == RowsPerThread(q.rows, active)
  IN  IF q.plan.f32 THEN perThread ELSE MinOf(perThread, q.budget)

(* Mutant: only the first thread's scratch memory follows the tile. *)
ScratchSizeFirst(i, q, active, tile) ==
  IF i = 0 /\ ~ q.plan.f32 THEN tile * q.plan.width ELSE scratch[i]

ScratchSize(i, q, active, tile) ==
  IF i < active /\ ~ q.plan.f32 THEN tile * q.plan.width ELSE scratch[i]

(* configure_task for a type without a native encoder throws, after it has *)
(* already replaced plan_ and active_threads_.                             *)
ConfigureFails ==
  /\ caller = "configure"
  /\ ~ request.plan.supported
  /\ plan' = request.plan
  /\ activeThreads' = ActiveThreadCount(request.rows, MaxThreads, ParallelRows)
  /\ caller' = "idle"
  /\ verdict' = "refused"
  /\ UNCHANGED <<request, inlineDone, tileRows, scratch, taskVars, workerVars,
                 history>>

Configure ==
  LET active == ActiveThreadCount(request.rows, MaxThreads, ParallelRows)
      tile   == TileRows(request, active)
  IN  /\ caller = "configure"
      /\ request.plan.supported
      /\ plan' = request.plan
      /\ activeThreads' = active
      /\ tileRows' = tile
      /\ scratch' = [i \in Slot |-> ScratchSize(i, request, active, tile)]
      /\ caller' = IF active <= 1 THEN "inline" ELSE "publish"
      /\ UNCHANGED <<request, verdict, inlineDone, taskVars, workerVars, history>>

(* The rows [first, first + count) reach the destination. *)
WriteRows(first, count, good) ==
  /\ writes' = [r \in Row |-> IF r \in first .. first + count - 1
                                THEN writes[r] + 1 ELSE writes[r]]
  /\ broken' = (broken \/ ~ good)

(* quantize_range on the calling thread: it stops at a tile whose byte     *)
(* count is not the expected one.                                          *)
InlineTile(good) ==
  LET count == MinOf(tileRows, request.rows - inlineDone)
  IN  /\ caller = "inline"
      /\ inlineDone < request.rows
      /\ WriteRows(inlineDone, count, good)
      /\ inlineDone' = IF good THEN inlineDone + count ELSE inlineDone
      /\ caller' = IF good THEN "inline" ELSE "inlineFailed"
      /\ UNCHANGED <<request, verdict, configVars, taskVars, workerVars>>

InlineReturn ==
  /\ \/ caller = "inline" /\ inlineDone >= request.rows
     \/ caller = "inlineFailed"
  /\ verdict' = IF caller = "inline" THEN "encoded" ELSE "failed"
  /\ caller' = "idle"
  /\ UNCHANGED <<request, inlineDone, configVars, taskVars, workerVars, history>>

Publish ==
  /\ caller = "publish"
  /\ plan' = request.plan
  /\ rowCount' = request.rows
  /\ completed' = 0
  /\ ok' = [i \in Slot |-> IF i < activeThreads THEN TRUE ELSE ok[i]]
  /\ generation' = generation + 1
  /\ caller' = "notify"
  /\ UNCHANGED <<request, verdict, inlineDone, activeThreads, tileRows, scratch,
                 stop, workerVars, history>>

(* Mutant: notify_one(). *)
WakeOne ==
  IF \E w \in Workers : worker[w] = "waiting"
    THEN \E w \in Workers : /\ worker[w] = "waiting"
                            /\ worker' = [worker EXCEPT ![w] = "check"]
    ELSE UNCHANGED worker

(* task_cv_.notify_all() *)
WakeAll ==
  worker' = [w \in Workers |-> IF worker[w] = "waiting" THEN "check" ELSE worker[w]]

Notify ==
  /\ caller = "notify"
  /\ WakeAll
  /\ caller' = "await"
  /\ UNCHANGED <<request, verdict, inlineDone, configVars, taskVars, seen, job,
                 processed, fine, history>>

(* Mutant: only the workers that have rows are waited for. *)
ActiveReported == completed >= activeThreads

AllReported == completed = MaxThreads

(* Mutant: only the first thread's result is looked at. *)
VerdictOfFirst == IF ok[0] THEN "encoded" ELSE "failed"

Verdict ==
  IF \E i \in Slot : i < activeThreads /\ ~ ok[i] THEN "failed" ELSE "encoded"

AwaitSleep ==
  /\ caller = "await"
  /\ ~ AllReported
  /\ caller' = "blocked"
  /\ UNCHANGED <<request, verdict, inlineDone, configVars, taskVars, workerVars,
                 history>>

AwaitReturn ==
  /\ caller = "await"
  /\ AllReported
  /\ caller' = "idle"
  /\ verdict' = Verdict
  /\ UNCHANGED <<request, inlineDone, configVars, taskVars, workerVars, history>>

CallerSpuriousWake ==
  /\ caller = "blocked"
  /\ caller' = "await"
  /\ UNCHANGED <<request, verdict, inlineDone, configVars, taskVars, workerVars,
                 history>>

(* The caller: ~implementation(), which has nothing to do without threads. *)
Destroy ==
  /\ caller = "idle"
  /\ caller' = IF Workers = {} THEN "gone" ELSE "stopping"
  /\ UNCHANGED <<request, verdict, inlineDone, configVars, taskVars, workerVars,
                 history>>

SetStop ==
  /\ caller = "stopping"
  /\ stop' = TRUE
  /\ generation' = generation + 1
  /\ caller' = "notifyStop"
  /\ UNCHANGED <<request, verdict, inlineDone, configVars, rowCount, ok, completed,
                 workerVars, history>>

NotifyStop ==
  /\ caller = "notifyStop"
  /\ WakeAll
  /\ caller' = "join"
  /\ UNCHANGED <<request, verdict, inlineDone, configVars, taskVars, seen, job,
                 processed, fine, history>>

Join ==
  /\ caller = "join"
  /\ \A w \in Workers : worker[w] = "exited"
  /\ caller' = "gone"
  /\ UNCHANGED <<request, verdict, inlineDone, configVars, taskVars, workerVars,
                 history>>

-----------------------------------------------------------------------------
(* A worker: worker_loop(w) *)

WorkerExit(w) ==
  /\ worker[w] = "check"
  /\ stop
  /\ worker' = [worker EXCEPT ![w] = "exited"]
  /\ UNCHANGED <<callerVars, configVars, taskVars, seen, job, processed, fine,
                 history>>

WorkerSleep(w) ==
  /\ worker[w] = "check"
  /\ ~ stop
  /\ generation = seen[w]
  /\ worker' = [worker EXCEPT ![w] = "waiting"]
  /\ UNCHANGED <<callerVars, configVars, taskVars, seen, job, processed, fine,
                 history>>

WorkerSpuriousWake(w) ==
  /\ worker[w] = "waiting"
  /\ worker' = [worker EXCEPT ![w] = "check"]
  /\ UNCHANGED <<callerVars, configVars, taskVars, seen, job, processed, fine,
                 history>>

HasRows(w, j) == w < j.active /\ RowsOf(w, j.rows, j.active) # {}

WorkerTake(w) ==
  LET j == [rows |-> rowCount, active |-> activeThreads]
  IN  /\ worker[w] = "check"
      /\ ~ stop
      /\ generation # seen[w]
      /\ seen' = [seen EXCEPT ![w] = generation]
      /\ job' = [job EXCEPT ![w] = j]
      /\ processed' = [processed EXCEPT ![w] = 0]
      /\ fine' = [fine EXCEPT ![w] = TRUE]
      /\ worker' = [worker EXCEPT ![w] = IF HasRows(w, j) THEN "encode" ELSE "report"]
      /\ UNCHANGED <<callerVars, configVars, taskVars, history>>

FirstRow(w) == RowBegin(w, job[w].rows, job[w].active)

Share(w) == RowEnd(w, job[w].rows, job[w].active) - FirstRow(w)

NextTile(w) == MinOf(tileRows, Share(w) - processed[w])

(* One turn of quantize_range's loop, without the mutex. *)
EncodeTile(w, good) ==
  /\ worker[w] = "encode"
  /\ WriteRows(FirstRow(w) + processed[w], NextTile(w), good)
  /\ fine' = [fine EXCEPT ![w] = good]
  /\ processed' = [processed EXCEPT ![w] = IF good THEN @ + NextTile(w) ELSE @]
  /\ worker' = [worker EXCEPT ![w] =
                  IF good /\ processed[w] + NextTile(w) < Share(w)
                    THEN "encode" ELSE "report"]
  /\ UNCHANGED <<callerVars, configVars, taskVars, seen, job>>

Report(w) ==
  /\ worker[w] = "report"
  /\ ok' = [ok EXCEPT ![w] = IF w < activeThreads THEN fine[w] ELSE @]
  /\ completed' = completed + 1
  /\ worker' = [worker EXCEPT ![w] = "signal"]
  /\ UNCHANGED <<callerVars, configVars, rowCount, generation, stop, seen, job,
                 processed, fine, history>>

(* done_cv_.notify_one(), after the mutex has been released. *)
Signal(w) ==
  /\ worker[w] = "signal"
  /\ caller' = IF caller = "blocked" THEN "await" ELSE caller
  /\ worker' = [worker EXCEPT ![w] = "check"]
  /\ UNCHANGED <<request, verdict, inlineDone, configVars, taskVars, seen, job,
                 processed, fine, history>>

-----------------------------------------------------------------------------
(* The steps run() and the destructor take once they have been called. *)
CallerStep ==
  \/ ConfigureFails
  \/ Configure
  \/ \E good \in BOOLEAN : InlineTile(good)
  \/ InlineReturn
  \/ Publish
  \/ Notify
  \/ AwaitSleep
  \/ AwaitReturn
  \/ SetStop
  \/ NotifyStop
  \/ Join

WorkerStep(w) ==
  \/ WorkerExit(w)
  \/ WorkerSleep(w)
  \/ WorkerTake(w)
  \/ \E good \in BOOLEAN : EncodeTile(w, good)
  \/ Report(w)
  \/ Signal(w)

Next ==
  \/ \E q \in Requests : Call(q)
  \/ CallerStep
  \/ CallerSpuriousWake
  \/ Destroy
  \/ \E w \in Workers : WorkerStep(w) \/ WorkerSpuriousWake(w)

(* Every thread that can run is eventually run.  Nothing makes the owner   *)
(* call again or destroy the pool, and no spurious wakeup need happen.     *)
Fairness ==
  /\ WF_vars(CallerStep)
  /\ \A w \in Workers : WF_vars(WorkerStep(w))

Spec == Init /\ [][Next]_vars /\ Fairness

-----------------------------------------------------------------------------
CallerStates ==
  {"idle", "configure", "inline", "inlineFailed", "publish", "notify", "await",
   "blocked", "stopping", "notifyStop", "join", "gone"}

WorkerStates == {"check", "waiting", "encode", "report", "signal", "exited"}

(* The types of the pool's fields and of the threads' locals. *)
TypeOK ==
  /\ caller \in CallerStates
  /\ request \in [plan : Plans, rows : 0 .. MaxRows, budget : 1 .. MaxRows]
  /\ verdict \in {"none", "refused", "failed", "encoded"}
  /\ inlineDone \in 0 .. MaxRows
  /\ plan \in Plans
  /\ activeThreads \in 1 .. MaxThreads
  /\ tileRows \in 1 .. MaxRows
  /\ scratch \in [Slot -> Nat]
  /\ rowCount \in 0 .. MaxRows
  /\ ok \in [Slot -> BOOLEAN]
  /\ completed \in 0 .. MaxThreads
  /\ generation \in Nat
  /\ stop \in BOOLEAN
  /\ worker \in [Workers -> WorkerStates]
  /\ seen \in [Workers -> Nat]
  /\ job \in [Workers -> [rows : 0 .. MaxRows, active : 1 .. MaxThreads]]
  /\ processed \in [Workers -> 0 .. MaxRows]
  /\ fine \in [Workers -> BOOLEAN]
  /\ writes \in [Row -> Nat]
  /\ broken \in BOOLEAN

(* While no task is out, every worker has reported the last one and none   *)
(* is between taking a task and reporting it.  This is what allows         *)
(* configure_task to write plan_, tile_rows_, active_threads_ and to       *)
(* resize scratch_ without the mutex, and run()'s caller to free source    *)
(* and destination after it returned.                                      *)
QuiescentOutsideTask ==
  caller \notin {"notify", "await", "blocked"} =>
    \A w \in Workers :
      /\ worker[w] \notin {"encode", "report"}
      /\ stop \/ seen[w] = generation

(* No row of the block is written by two threads, and none past its end,   *)
(* at any moment of a call of run().                                       *)
RowsWrittenAtMostOnce ==
  \A r \in Row : writes[r] <= (IF r < request.rows THEN 1 ELSE 0)

(* run() returns true only when every row of the block has been encoded.   *)
TrueMeansEncoded ==
  verdict = "encoded" => ~ broken /\ \A r \in 0 .. request.rows - 1 : writes[r] = 1

(* A tile that is decoded to F32 fits the scratch vector of the thread     *)
(* that decodes it, whatever tensors the pool served before.               *)
ScratchFits ==
  ~ plan.f32 =>
    /\ \A w \in Workers :
         worker[w] = "encode" => NextTile(w) * plan.width <= scratch[w]
    /\ caller = "inline" =>
         MinOf(tileRows, request.rows - inlineDone) * plan.width <= scratch[0]

(* The destructor joins every worker and returns.                          *)
DestructorReturns == caller = "stopping" ~> caller = "gone"

(* The pool does what cpu_quantizer promises. *)
Promise ==
  INSTANCE CpuQuantizer WITH
    phase <- CASE caller \in {"idle", "stopping", "notifyStop", "join"} -> "idle"
               [] caller = "gone" -> "gone"
               [] OTHER -> "running",
    rows <- request.rows

PromiseSpec == Promise!Spec

-----------------------------------------------------------------------------
(* The inductive invariant behind the safety properties. *)

Calling ==
  caller \in {"configure", "inline", "inlineFailed", "publish", "notify",
             "await", "blocked"}

TaskOut == caller \in {"notify", "await", "blocked"}

Taken(w) == seen[w] = generation

Mine(w) == RowsOf(w, rowCount, activeThreads)

Reported == {w \in Workers : Taken(w) /\ worker[w] \notin {"encode", "report"}}

CallerInv ==
  /\ stop <=> (Workers # {} /\ caller \in {"notifyStop", "join", "gone"})
  /\ caller = "stopping" => Workers # {}
  /\ Calling => verdict = "none" /\ request \in Requests
  /\ Calling /\ caller # "configure" =>
       plan = request.plan /\ activeThreads <= request.rows
  /\ caller = "publish" \/ TaskOut => activeThreads > 1
  /\ TaskOut => rowCount = request.rows

WorkerInv ==
  \A w \in Workers :
    /\ worker[w] = "exited" => stop
    /\ worker[w] \in {"encode", "report"} => TaskOut /\ Taken(w)
    /\ ~ TaskOut /\ ~ stop => Taken(w)
    /\ TaskOut /\ Taken(w) =>
         job[w] = [rows |-> rowCount, active |-> activeThreads]
    /\ worker[w] = "encode" =>
         w < activeThreads /\ fine[w] /\ processed[w] < Share(w)

CountInv == TaskOut => completed = Cardinality(Reported)

(* What has been written while workers are busy. *)
ShareInv ==
  TaskOut =>
    \A w \in Workers : w < activeThreads =>
      /\ \A r \in Mine(w) :
           /\ ~ Taken(w) => writes[r] = 0
           /\ worker[w] = "encode" /\ r >= FirstRow(w) + processed[w] => writes[r] = 0
           /\ Taken(w) /\ (worker[w] = "encode" => r < FirstRow(w) + processed[w])
                 /\ fine[w] => writes[r] = 1
      /\ w \in Reported => ok[w] = fine[w]

BrokenInv ==
  TaskOut /\ broken =>
    \E w \in Workers : w < activeThreads /\ Taken(w) /\ ~ fine[w]

(* What has been written when no worker is busy. *)
InlineInv ==
  /\ caller \in {"configure", "publish"} => ~ broken /\ \A r \in Row : writes[r] = 0
  /\ caller = "configure" => inlineDone = 0
  /\ caller = "inline" =>
       /\ ~ broken
       /\ inlineDone <= request.rows
       /\ \A r \in Row : writes[r] = IF r < inlineDone THEN 1 ELSE 0

ScratchInv ==
  Calling /\ caller # "configure" /\ ~ plan.f32 =>
    \A i \in Slot : i < activeThreads => scratch[i] = tileRows * plan.width

IndInv ==
  /\ TypeOK
  /\ CallerInv
  /\ WorkerInv
  /\ CountInv
  /\ ShareInv
  /\ BrokenInv
  /\ InlineInv
  /\ ScratchInv
  /\ RowsWrittenAtMostOnce
  /\ TrueMeansEncoded

(* Nobody sleeps on a condition variable without somebody who is going to  *)
(* wake him: a worker with something to do only while notify_all() is      *)
(* still to come, the caller only while a worker has a report or its       *)
(* signal ahead; and no worker sleeps while the destructor joins.          *)
NobodyWaitsInVain ==
  /\ \A w \in Workers :
       worker[w] = "waiting" /\ (stop \/ ~ Taken(w)) =>
         caller \in {"notify", "notifyStop"}
  /\ caller = "blocked" =>
       \E w \in Workers : \/ worker[w] \in {"encode", "report", "signal"}
                          \/ worker[w] = "check" /\ ~ Taken(w)
  /\ caller = "join" => \A w \in Workers : worker[w] \in {"check", "signal", "exited"}

(* What makes it inductive: a sleeping caller whose task everybody has     *)
(* reported still gets a signal.                                           *)
SignalInv ==
  caller = "blocked" /\ AllReported => \E w \in Workers : worker[w] = "signal"

=============================================================================
