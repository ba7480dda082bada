------------------------------ MODULE ForkJoin ------------------------------
(***************************************************************************)
(* One call that starts threads, gives each a slice of the rows and joins  *)
(* them before it returns.  The code has this shape four times: the entry  *)
(* points libgguf_quantize_chunk and libgguf_dequantize_chunk, and in the  *)
(* payload writer quantize_bf16_q8_0_chunk_native and                      *)
(* quantize_decoded_source_chunk_native.  The first three add up what the  *)
(* threads have written and leave the comparison to their caller; the last *)
(* one compares slice by slice.                                            *)
(*                                                                         *)
(* Byte counts are counted in rows.  The tables that IQ types need are the *)
(* subject of module IqTables.                                             *)
(***************************************************************************)
EXTENDS RowPartition, Functions

CONSTANTS
  MaxThreads,    (* LIBGGUF_NUM_THREADS or the number of hardware threads *)
  ParallelRows,  (* fewest rows that use more than one thread (64)        *)
  MaxRows        (* most rows of the call; bounds the instance            *)

ASSUME ForkJoinAssumption ==
  /\ MaxThreads \in Nat \ {0}
  /\ ParallelRows \in Nat \ {0}
  /\ MaxRows \in Nat \ {0}

Row == 0 .. MaxRows - 1

Thread == 0 .. MaxThreads - 1

(* The entry point, its number of rows, and what becomes of each slice: a  *)
(* call with wrong arguments is refused before any thread starts, and a    *)
(* type that has a row size but no kernel writes nothing.                  *)
Calls ==
  [entry : {"sum"}, rows : 0 .. MaxRows, slice : {"encoded", "no kernel", "refused"}]
  \union
  [entry : {"slices"}, rows : 1 .. MaxRows, slice : {"encoded", "refused"}]

VARIABLES
  call,      (* the arguments                                              *)
  caller,    (* where the calling thread is                                *)
  spawned,   (* thread_id of the loop, the number of threads started       *)
  thread,    (* where each thread is                                       *)
  written,   (* the vector of results, one place per thread                *)
  added,     (* how many places have been added up                         *)
  total,     (* their sum                                                  *)
  writes,    (* history: how often each row has been written               *)
  verdict    (* what the call's user concludes from its result             *)

sumVars == <<added, total>>
vars == <<call, caller, spawned, thread, written, sumVars, writes, verdict>>

(* libgguf_cpu_thread_count *)
Threads == ActiveThreadCount(call.rows, MaxThreads, ParallelRows)

Begin(t) == RowBegin(t, call.rows, Threads)

Slice(t) == RowsOf(t, call.rows, Threads)

Count(t) == MinOf(RowsPerThread(call.rows, Threads), call.rows - Begin(t))

Init ==
  /\ call \in Calls
  /\ caller = "check"
  /\ spawned = 0
  /\ thread = [t \in Thread |-> "none"]
  /\ written = [t \in {} |-> 0]
  /\ added = 0
  /\ total = 0
  /\ writes = [r \in Row |-> 0]
  /\ verdict = "none"

WriteRows(S) ==
  writes' = [r \in Row |-> IF r \in S THEN writes[r] + 1 ELSE writes[r]]

Conclude(accepted) ==
  /\ caller' = "done"
  /\ verdict' = IF accepted THEN "encoded" ELSE "failed"

(* No rows, or arguments the call refuses: it returns 0. *)
Refuse ==
  /\ caller = "check"
  /\ call.rows = 0 \/ call.slice = "refused"
  /\ Conclude(call.entry = "sum" /\ call.rows = 0)
  /\ UNCHANGED <<call, spawned, thread, written, writes, sumVars>>

(* One thread is enough: the calling one. *)
Serial ==
  /\ caller = "check"
  /\ call.rows > 0 /\ call.slice # "refused"
  /\ Threads <= 1
  /\ WriteRows(IF call.slice = "encoded" THEN 0 .. call.rows - 1 ELSE {})
  /\ Conclude(call.slice = "encoded")
  /\ UNCHANGED <<call, spawned, thread, written, sumVars>>

Fork ==
  /\ caller = "check"
  /\ call.rows > 0 /\ call.slice # "refused"
  /\ Threads > 1
  /\ written' = [t \in 0 .. Threads - 1 |-> 0]
  /\ caller' = "spawn"
  /\ UNCHANGED <<call, spawned, thread, writes, verdict, sumVars>>

Spawn ==
  /\ caller = "spawn"
  /\ spawned < Threads
  /\ Begin(spawned) < call.rows
  /\ thread' = [thread EXCEPT ![spawned] = "encode"]
  /\ spawned' = spawned + 1
  /\ UNCHANGED <<call, caller, written, writes, verdict, sumVars>>

(* The system refuses another thread: the exception leaves the loop, and   *)
(* destroying the vector of running threads ends the process.              *)
SpawnFails ==
  /\ caller = "spawn"
  /\ spawned < Threads
  /\ Begin(spawned) < call.rows
  /\ caller' = "terminated"
  /\ UNCHANGED <<call, spawned, thread, written, writes, verdict, sumVars>>

(* Mutant: the vector keeps its length. *)
TrimmedNot == written

(* Mutant: the vector loses the place of a running thread. *)
TrimmedShort == Restrict(written, 0 .. spawned - 2)

(* written.resize(thread_id), while the threads run *)
Trimmed == Restrict(written, 0 .. spawned - 1)

(* Rounding up may leave no rows for the last threads. *)
EndSpawning ==
  /\ caller = "spawn"
  /\ spawned = Threads \/ Begin(spawned) >= call.rows
  /\ written' = IF spawned = Threads THEN written ELSE Trimmed
  /\ caller' = "join"
  /\ UNCHANGED <<call, spawned, thread, writes, verdict, sumVars>>

(* Mutant: one thread too few is joined. *)
JoinedAllButLast == \A t \in 0 .. spawned - 2 : thread[t] = "ended"

(* Mutant: a thread that was never started is waited for. *)
JoinedEvery == \A t \in 0 .. Threads - 1 : thread[t] = "ended"

Joined == \A t \in 0 .. spawned - 1 : thread[t] = "ended"

(* What the caller of the entry point compares with the size it expects. *)
TotalIsExpected == total = call.rows

(* The check of quantize_decoded_source_chunk_native.  row_count -         *)
(* local_row_begin is unsigned: below zero it is huge.                     *)
SlicesAreExpected ==
  \A t \in DOMAIN written :
    written[t] = IF call.rows >= Begin(t) THEN Count(t)
                 ELSE RowsPerThread(call.rows, Threads)

Join ==
  /\ caller = "join"
  /\ Joined
  /\ \/ call.entry = "sum" /\ caller' = "add" /\ UNCHANGED verdict
     \/ call.entry = "slices" /\ Conclude(SlicesAreExpected)
  /\ UNCHANGED <<call, spawned, thread, written, writes, sumVars>>

(* One turn of the loop over the vector of results, and what follows it. *)
Add ==
  /\ caller = "add"
  /\ added \in DOMAIN written
  /\ total' = total + written[added]
  /\ added' = added + 1
  /\ UNCHANGED <<call, caller, spawned, thread, written, writes, verdict>>

Sum ==
  /\ caller = "add"
  /\ added \notin DOMAIN written
  /\ Conclude(TotalIsExpected)
  /\ UNCHANGED <<call, spawned, thread, written, writes, sumVars>>

-----------------------------------------------------------------------------
(* A thread writes its rows and then its place of the vector. *)

Encode(t) ==
  /\ caller # "terminated"
  /\ thread[t] = "encode"
  /\ WriteRows(IF call.slice = "encoded" THEN Slice(t) ELSE {})
  /\ thread' = [thread EXCEPT ![t] = "report"]
  /\ UNCHANGED <<call, caller, spawned, written, verdict, sumVars>>

(* The decoding threads of the payload writer allocate their scratch       *)
(* memory; an exception that leaves a thread ends the process.             *)
OutOfMemory(t) ==
  /\ caller # "terminated"
  /\ thread[t] = "encode"
  /\ call.entry = "slices"
  /\ caller' = "terminated"
  /\ UNCHANGED <<call, spawned, thread, written, writes, verdict, sumVars>>

Report(t) ==
  /\ caller # "terminated"
  /\ thread[t] = "report"
  /\ written' = [u \in DOMAIN written |->
                   IF u = t /\ call.slice = "encoded" THEN Count(t) ELSE written[u]]
  /\ thread' = [thread EXCEPT ![t] = "ended"]
  /\ UNCHANGED <<call, caller, spawned, writes, verdict, sumVars>>

-----------------------------------------------------------------------------
CallerStep == Refuse \/ Serial \/ Fork \/ Spawn \/ EndSpawning \/ Join \/ Add \/ Sum

ThreadStep(t) == Encode(t) \/ Report(t)

Next ==
  \/ CallerStep
  \/ SpawnFails
  \/ \E t \in Thread : ThreadStep(t) \/ OutOfMemory(t)

(* Every thread that can run is eventually run. *)
Fairness == WF_vars(CallerStep) /\ \A t \in Thread : WF_vars(ThreadStep(t))

Spec == Init /\ [][Next]_vars /\ Fairness

-----------------------------------------------------------------------------
(* The types of the variables; a place of the vector holds whole slices,   *)
(* and no thread has run past the rows.                                    *)
TypeOK ==
  /\ call \in Calls
  /\ caller \in {"check", "spawn", "join", "add", "done", "terminated"}
  /\ spawned \in 0 .. MaxThreads
  /\ thread \in [Thread -> {"none", "encode", "report", "ended"}]
  /\ DOMAIN written \subseteq Thread
  /\ \A t \in DOMAIN written : written[t] \in 0 .. call.rows
  /\ added \in 0 .. MaxThreads
  /\ total \in Nat
  /\ writes \in [Row -> {0, 1}]
  /\ verdict \in {"none", "encoded", "failed"}

(* A running thread's place of the vector exists: it is not cut off while  *)
(* threads are running, and the call has not returned, after which neither *)
(* the vector nor the caller's buffers need be there.                      *)
PlaceExists ==
  \A t \in Thread : thread[t] \in {"encode", "report"} =>
    t \in DOMAIN written /\ caller # "done"

(* The call is taken for a success exactly when each row was encoded once, *)
(* however many threads were left without rows; and if nothing hindered    *)
(* the encoding, it is.                                                    *)
VerdictIsTrue ==
  caller = "done" =>
    /\ verdict = "encoded" <=> \A r \in 0 .. call.rows - 1 : writes[r] = 1
    /\ call.slice = "encoded" /\ call.rows > 0 => verdict = "encoded"

(* The call returns, unless the process ends.                              *)
Returns == <>(caller \in {"done", "terminated"})

=============================================================================
