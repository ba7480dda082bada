---------------------------- MODULE GpuPipeline -----------------------------
(***************************************************************************)
(* Encoding tensors on the GPU: the GPU paths of write_tensor_payload      *)
(* (conversion/converter.cpp) and the gpu_quantizer they drive             *)
(* (conversion/gpu_quantizer.cu).                                          *)
(*                                                                         *)
(* The host fills a host buffer with the rows of a chunk and queues a      *)
(* copy to the device, the kernel, a copy back and an event on the one     *)
(* stream; the device works through the stream on its own, reading and     *)
(* writing the buffers when it gets there.  There is one input and one     *)
(* output buffer on the device; the output buffer is only made large       *)
(* enough when the copy to the device is queued already.  The pipelined path has two slots of host  *)
(* buffers and fills one while the other is under way; the plain path has  *)
(* buffers of its own, finishes each chunk before it reads the next, and   *)
(* may compare it with the CPU's encoding.                                 *)
(*                                                                         *)
(* Cells of a buffer are rows.  Nothing is assumed of a call that frees a  *)
(* buffer: it does not wait for the device.                                *)
(***************************************************************************)
EXTENDS Integers, Sequences

CONSTANTS
  Shapes,      (* tensors: [rows, chunk : rows_per_chunk, width : bytes   *)
               (* of a row in F32 and encoded, pipelined, verified]       *)
  MaxRows,     (* most rows of a tensor; bounds the instance              *)
  MaxTensors   (* most tensors of a conversion; bounds the instance       *)

ASSUME PipelineAssumption ==
  /\ MaxRows \in Nat
  /\ MaxTensors \in Nat
  /\ \A t \in Shapes :
       /\ t.rows \in 1 .. MaxRows
       /\ t.chunk \in 1 .. t.rows
       /\ t.width \in [in : Nat \ {0}, out : Nat \ {0}]
       /\ t.pipelined \in BOOLEAN
       /\ t.verified \in BOOLEAN
       /\ t.verified => ~ t.pipelined

(* The host buffers: two slots, and the vectors of the plain path. *)
Plain == 2
Buffers == {0, 1, Plain}

VARIABLES
  tensors,   (* the tensors begun so far                                   *)
  host,      (* what the host does next                                    *)
  row,       (* the first row that is not queued yet                       *)
  active,    (* active_slot                                                *)
  queued,    (* chunks queued and not yet written                          *)
  slots,     (* row and row_count of each host buffer's chunk              *)
  hostIn,    (* host_input of a slot; source_bytes or scratch              *)
  hostOut,   (* host_output of a slot; encoded                             *)
  capacity,  (* bytes of the device's input buffer and output buffer       *)
  devIn,     (* the device's input buffer                                  *)
  devOut,    (* the device's output buffer                                 *)
  stream,    (* what the device has still to do                            *)
  file       (* what has been written                                      *)

hostVars == <<tensors, host, row, active, queued, slots>>
bufVars == <<hostIn, hostOut>>
devVars == <<capacity, devIn, devOut, stream>>
vars == <<hostVars, bufVars, devVars, file>>

Tensor == tensors[Len(tensors)]

Junk == [tensor |-> 0, row |-> 0, form |-> "junk"]

(* The first n cells of a buffer, whatever it holds. *)
FirstCells(buffer, n) ==
  [i \in 1 .. n |-> IF i <= Len(buffer) THEN buffer[i] ELSE Junk]

Cell(r, form) == [tensor |-> Len(tensors), row |-> r, form |-> form]

Init ==
  /\ tensors = <<>>
  /\ host = "pick"
  /\ row = 0
  /\ active = 0
  /\ queued = 0
  /\ slots = [b \in Buffers |-> [row |-> 0, count |-> 0]]
  /\ hostIn = [b \in Buffers |-> <<>>]
  /\ hostOut = [b \in Buffers |-> <<>>]
  /\ capacity = [in |-> 0, out |-> 0]
  /\ devIn = <<>>
  /\ devOut = <<>>
  /\ stream = <<>>
  /\ file = <<>>

-----------------------------------------------------------------------------
(* The host. *)

(* The plain path allocates its buffers. *)
Begin(t) ==
  /\ host = "pick"
  /\ Len(tensors) < MaxTensors
  /\ tensors' = Append(tensors, t)
  /\ host' = IF t.pipelined THEN "reserve" ELSE "fill"
  /\ row' = 0
  /\ active' = 0
  /\ queued' = 0
  /\ hostIn' = [hostIn EXCEPT ![Plain] = <<>>]
  /\ hostOut' = [hostOut EXCEPT ![Plain] = <<>>]
  /\ UNCHANGED <<slots, devVars, file>>

Finish ==
  /\ host = "pick"
  /\ host' = "closed"
  /\ UNCHANGED <<tensors, row, active, queued, slots, bufVars, devVars, file>>

(* libgguf_gpu_buffer_resize_discard for the rows of a chunk: a buffer     *)
(* that has to grow is freed and allocated anew.                           *)
Grown(old, bytes) == IF bytes > old THEN bytes ELSE old

Room(side, rows) == Grown(capacity[side], rows * Tensor.width[side])

Kept(cells, side) == IF capacity'[side] > capacity[side] THEN <<>> ELSE cells

(* The device's buffers and both slots get the size of the largest chunk;  *)
(* what they held is of no use any more.                                   *)
Reserve ==
  /\ host = "reserve"
  /\ capacity' = [side \in {"in", "out"} |-> Room(side, Tensor.chunk)]
  /\ devIn' = Kept(devIn, "in")
  /\ devOut' = Kept(devOut, "out")
  /\ hostIn' = [hostIn EXCEPT ![0] = <<>>, ![1] = <<>>]
  /\ hostOut' = [hostOut EXCEPT ![0] = <<>>, ![1] = <<>>]
  /\ host' = "fill"
  /\ UNCHANGED <<tensors, row, active, queued, slots, stream, file>>

(* Mutant: the slot that is under way is filled again. *)
NextSlotSame == active

(* The first chunk takes slot 0, each later one the slot that is free. *)
NextSlot == IF queued = 0 THEN active ELSE 1 - active

FillBuffer == IF Tensor.pipelined THEN NextSlot ELSE Plain

ActiveBuffer == IF Tensor.pipelined THEN active ELSE Plain

NextCount ==
  IF Tensor.chunk <= Tensor.rows - row THEN Tensor.chunk ELSE Tensor.rows - row

Fill ==
  /\ host = "fill"
  /\ hostIn' = [hostIn EXCEPT ![FillBuffer] =
                  [i \in 1 .. NextCount |-> Cell(row + i - 1, "raw")]]
  /\ slots' = [slots EXCEPT ![FillBuffer] = [row |-> row, count |-> NextCount]]
  /\ host' = "enqueue"
  /\ UNCHANGED <<tensors, row, active, queued, hostOut, devVars, file>>

(* What enqueue_quantize_chunk queues. *)
Commands(b) ==
  [i \in 1 .. 4 |-> [do |-> <<"h2d", "quantize", "d2h", "event">>[i], buffer |-> b,
                    count |-> slots[b].count]]

(* Chunks under way at once. *)
Depth == IF Tensor.pipelined THEN 2 ELSE 1

(* The first half: the device's input buffer, and the copy into it.        *)
Enqueue ==
  /\ host = "enqueue"
  /\ capacity' = [capacity EXCEPT !.in = Room("in", slots[FillBuffer].count)]
  /\ devIn' = Kept(devIn, "in")
  /\ stream' = Append(stream, Commands(FillBuffer)[1])
  /\ host' = "launch"
  /\ UNCHANGED <<tensors, row, active, queued, slots, bufVars, devOut, file>>

(* The second half: the output buffer, while that copy may be under way,   *)
(* then the kernel, the copy back and the event.                           *)
Launch ==
  /\ host = "launch"
  /\ capacity' = [capacity EXCEPT !.out = Room("out", slots[FillBuffer].count)]
  /\ devOut' = Kept(devOut, "out")
  /\ stream' = stream \o Tail(Commands(FillBuffer))
  /\ row' = row + slots[FillBuffer].count
  /\ queued' = queued + 1
  /\ host' = IF queued + 1 = Depth \/ row' >= Tensor.rows THEN "finish" ELSE "fill"
  /\ UNCHANGED <<tensors, active, slots, bufVars, devIn, file>>

(* Mutant: the event of the other slot is taken for this one's. *)
EventReachedOther(b) ==
  \A i \in DOMAIN stream :
    ~ (stream[i].do = "event" /\ stream[i].buffer = IF b = Plain THEN b ELSE 1 - b)

(* libgguf_gpu_event_synchronize: the event last recorded for the slot has *)
(* been reached.  The plain path uses slot 0's.                            *)
EventReached(b) ==
  \A i \in DOMAIN stream : ~ (stream[i].do = "event" /\ stream[i].buffer = b)

FinishChunk ==
  /\ host = "finish"
  /\ EventReached(ActiveBuffer)
  /\ host' = IF Tensor.verified THEN "verify" ELSE "write"
  /\ UNCHANGED <<tensors, row, active, queued, slots, bufVars, devVars, file>>

(* Mutant: the first row is compared, not the chunk. *)
MatchesFirst(cells) == cells[1].form = "encoded"

(* memcmp with what native_pool.run makes of the same rows. *)
Matches(cells) == \A i \in DOMAIN cells : cells[i].form = "encoded"

Verify ==
  /\ host = "verify"
  /\ host' = IF Matches(hostOut[Plain]) THEN "write" ELSE "failed"
  /\ UNCHANGED <<tensors, row, active, queued, slots, bufVars, devVars, file>>

(* What write_all_file finds in the output buffer. *)
OutputOf(b) == FirstCells(hostOut[b], slots[b].count)

(* Mutant: the loop's end forgets the chunk that is still under way. *)
AfterWriteForgets == IF row < Tensor.rows THEN "fill" ELSE "pick"

AfterWrite ==
  CASE row < Tensor.rows -> "fill"
    [] row >= Tensor.rows /\ queued > 1 -> "finish"
    [] OTHER -> "pick"

Write ==
  /\ host = "write"
  /\ file' = file \o OutputOf(ActiveBuffer)
  /\ active' = IF queued > 1 THEN 1 - active ELSE active
  /\ queued' = queued - 1
  /\ host' = AfterWrite
  /\ UNCHANGED <<tensors, row, slots, bufVars, devVars>>

Working ==
  host \in {"reserve", "fill", "enqueue", "launch", "finish", "verify", "write"}

(* Reading, a call of the GPU or writing fails: an exception ends the      *)
(* conversion, perhaps with a chunk queued in part.  What happens to the   *)
(* buffers, which are then destroyed, is left out.                         *)
Fail ==
  /\ Working
  /\ host' = "failed"
  /\ \E k \in 0 .. (IF host = "launch" THEN 2 ELSE 0) :
       stream' = stream \o SubSeq(Tail(Commands(FillBuffer)), 1, k)
  /\ UNCHANGED <<tensors, row, active, queued, slots, bufVars, capacity, devIn,
                 devOut, file>>

-----------------------------------------------------------------------------
(* The device takes the commands in order.  The kernel may encode a row    *)
(* wrongly, which is what the verification is for.                         *)

Command == Head(stream)

CopyIn ==
  /\ stream # <<>> /\ Command.do = "h2d"
  /\ devIn' = FirstCells(hostIn[Command.buffer], Command.count)
  /\ stream' = Tail(stream)
  /\ UNCHANGED <<hostVars, bufVars, capacity, devOut, file>>

Encoded(i, bad) ==
  IF i > Len(devIn) THEN Junk
  ELSE [devIn[i] EXCEPT !.form = IF i \in bad THEN "wrong" ELSE "encoded"]

Quantize ==
  /\ stream # <<>> /\ Command.do = "quantize"
  /\ \E bad \in SUBSET (1 .. Command.count) :
       devOut' = [i \in 1 .. Command.count |-> Encoded(i, bad)]
  /\ stream' = Tail(stream)
  /\ UNCHANGED <<hostVars, bufVars, capacity, devIn, file>>

CopyOut ==
  /\ stream # <<>> /\ Command.do = "d2h"
  /\ hostOut' = [hostOut EXCEPT ![Command.buffer] = FirstCells(devOut, Command.count)]
  /\ stream' = Tail(stream)
  /\ UNCHANGED <<hostVars, hostIn, capacity, devIn, devOut, file>>

PassEvent ==
  /\ stream # <<>> /\ Command.do = "event"
  /\ stream' = Tail(stream)
  /\ UNCHANGED <<hostVars, bufVars, capacity, devIn, devOut, file>>

Device == CopyIn \/ Quantize \/ CopyOut \/ PassEvent

-----------------------------------------------------------------------------
HostStep ==
  \/ Reserve
  \/ Fill
  \/ Enqueue
  \/ Launch
  \/ FinishChunk
  \/ Verify
  \/ Write
  \/ Finish

Next ==
  \/ \E t \in Shapes : Begin(t)
  \/ HostStep
  \/ Fail
  \/ Device

(* The host runs and the device gets on with its stream. *)
Fairness == WF_vars(HostStep) /\ WF_vars(Device)

Spec == Init /\ [][Next]_vars /\ Fairness

-----------------------------------------------------------------------------
Forms == {"raw", "encoded", "wrong", "junk"}

Cells == [tensor : 0 .. MaxTensors, row : Nat, form : Forms]

(* The types of the variables; no more than two chunks are under way.      *)
TypeOK ==
  /\ tensors \in Seq(Shapes) /\ Len(tensors) <= MaxTensors
  /\ host \in {"pick", "reserve", "fill", "enqueue", "launch", "finish", "verify",
               "write", "closed", "failed"}
  /\ row \in Nat
  /\ active \in {0, 1}
  /\ queued \in 0 .. 2
  /\ slots \in [Buffers -> [row : Nat, count : Nat]]
  /\ \A b \in Buffers : hostIn[b] \in Seq(Cells) /\ hostOut[b] \in Seq(Cells)
  /\ capacity \in [{"in", "out"} -> Nat]
  /\ devIn \in Seq(Cells) /\ devOut \in Seq(Cells)
  /\ stream \in Seq([do : {"h2d", "quantize", "d2h", "event"},
                     buffer : Buffers, count : Nat])
  /\ Len(stream) <= 8
  /\ file \in Seq(Cells)

UnderWay(b, copy) ==
  \E i \in DOMAIN stream : stream[i].do = copy /\ stream[i].buffer = b

(* The host neither overwrites rows the device has still to fetch, nor     *)
(* compares or writes out rows the device has still to bring back.         *)
BuffersAreSettled ==
  /\ host \in {"fill", "enqueue"} => ~ UnderWay(FillBuffer, "h2d")
  /\ host \in {"verify", "write"} => ~ UnderWay(ActiveBuffer, "d2h")

(* The commands that read or write a buffer of the device.                 *)
UsersOf(side) == IF side = "in" THEN {"h2d", "quantize"} ELSE {"quantize", "d2h"}

(* A buffer of the device is only replaced while nothing is queued that    *)
(* uses it, although no resize waits for the stream.  The stream need not  *)
(* be empty: the plain path replaces its output buffer while the copy into *)
(* its input buffer is under way.                                          *)
ReplacedWhenUnused ==
  [][\A side \in {"in", "out"} : capacity'[side] # capacity[side] =>
       \A i \in DOMAIN stream : stream[i].do \notin UsersOf(side)]_vars

(* No wrongly encoded row of a verified tensor gets into the file.         *)
VerifiedIsRight ==
  \A i \in DOMAIN file : tensors[file[i].tensor].verified => file[i].form = "encoded"

(* The output is what write_tensor_payload promises: every row of every    *)
(* tensor once and in order, and an end.                                   *)
Promise ==
  INSTANCE TensorStream WITH
    sizes <- [i \in DOMAIN tensors |-> tensors[i].rows],
    file <- [i \in DOMAIN file |-> <<file[i].tensor, file[i].row>>],
    state <- IF host \in {"closed", "failed"} THEN host ELSE "open"

PromiseSpec == Promise!Spec

=============================================================================
