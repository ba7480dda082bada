------------------------- MODULE GpuPipeline_proofs -------------------------
(***************************************************************************)
(* The two slots, the one stream and the device's buffers, for tensors of  *)
(* any shape and any number of chunks: the host and the device never use a *)
(* host buffer at once, a device buffer is replaced only when nothing is   *)
(* queued that uses it, what is verified is what is written, and the  *)
(* steps are steps of TensorStream or none.                                *)
(***************************************************************************)
EXTENDS GpuPipeline, TLAPS

CommandSet ==
  [do : {"h2d", "quantize", "d2h", "event"}, buffer : Buffers, count : Nat]

Started == {"reserve", "fill", "enqueue", "launch", "finish", "verify", "write"}

(* The types of what decides where the host and the device are. *)
ControlTypes ==
  /\ tensors \in Seq(Shapes)
  /\ host \in Started \union {"pick", "closed", "failed"}
  /\ host \in Started => tensors # <<>>
  /\ row \in Nat
  /\ active \in {0, 1}
  /\ queued \in 0 .. 2
  /\ slots \in [Buffers -> [row : Nat, count : Nat]]
  /\ capacity \in [{"in", "out"} -> Nat]
  /\ stream \in Seq(CommandSet)

(* How many chunks are queued where the host is. *)
QueueInv ==
  /\ host \in {"pick", "reserve", "closed"} => queued = 0
  /\ host = "reserve" => Tensor.pipelined /\ row = 0
  /\ host \in {"fill", "enqueue", "launch"} => queued < Depth
  /\ host = "fill" => row < Tensor.rows
  /\ host \in {"enqueue", "launch"} => slots[FillBuffer].count <= Tensor.chunk
  /\ host \in {"finish", "verify", "write"} => queued \in 1 .. Depth

(* The host buffers that the device may still have to use. *)
QueuedBuffers ==
  {b \in Buffers :
     \/ queued = 1 /\ b = ActiveBuffer
     \/ queued = 2 /\ b \in {0, 1}}

(* How many commands are those of the chunks queued: while a chunk is      *)
(* half queued, all but the copy of its rows to the device.                *)
Older == IF host = "launch" /\ stream # <<>> THEN Len(stream) - 1 ELSE Len(stream)

(* Whatever the stream holds of a chunk that is queued, its event is still *)
(* to come; a chunk that has been finished has nothing left in the stream; *)
(* and of a chunk that is half queued only the first command is there.     *)
StreamInv ==
  host # "failed" =>
    /\ \A i \in 1 .. Older : stream[i].buffer \in QueuedBuffers
    /\ \A i \in 1 .. Older : \E j \in i .. Older :
         stream[j].do = "event" /\ stream[j].buffer = stream[i].buffer
    /\ host \in {"verify", "write"} =>
         \A i \in 1 .. Len(stream) : stream[i].buffer # ActiveBuffer
    /\ host = "launch" /\ stream # <<>> => stream[Len(stream)] = Commands(FillBuffer)[1]

(* A pipelined tensor has room on the device for its largest chunk. *)
RoomInv ==
  host \in Started \ {"reserve"} /\ Tensor.pipelined =>
    \A side \in {"in", "out"} : capacity[side] >= Tensor.chunk * Tensor.width[side]

IInv == ControlTypes /\ QueueInv /\ StreamInv /\ RoomInv

(* The number of rows of the current tensor in the file, and the row that  *)
(* has to be written next.                                                 *)
WrittenRows ==
  IF file # <<>> /\ file[Len(file)].tensor = Len(tensors) THEN file[Len(file)].row + 1 ELSE 0

NextOut == IF queued = 0 THEN row ELSE slots[ActiveBuffer].row

(* The chunks queued lie one after the other behind what is written; the   *)
(* one queued last ends where the next begins.                             *)
LastBuffer == IF queued = 2 THEN 1 - active ELSE ActiveBuffer

RowsInv ==
  host # "failed" =>
    /\ WrittenRows = NextOut
    /\ tensors # <<>> => row <= Tensor.rows
    /\ host = "pick" /\ tensors # <<>> => row = Tensor.rows
    /\ host \in {"enqueue", "launch"} =>
         slots[FillBuffer].row = row /\ slots[FillBuffer].count \in 1 .. Tensor.rows - row
    /\ \A b \in QueuedBuffers : slots[b].count # 0
    /\ queued = 2 => slots[1 - active].row = slots[active].row + slots[active].count
    /\ queued # 0 => row = slots[LastBuffer].row + slots[LastBuffer].count

(* The stream is what is left of the commands of the chunks queued.        *)
OrderInv ==
  host # "failed" =>
    /\ Older <= 4 * queued
    /\ host \in {"verify", "write"} => Older <= 4 * (queued - 1)
    /\ \A i \in 1 .. Older :
         /\ i + 4 > Older => stream[i] = Commands(LastBuffer)[4 - (Older - i)]
         /\ i + 4 <= Older => stream[i] = Commands(ActiveBuffer)[8 - (Older - i)]

(* How many commands of a chunk are left.                                  *)
Left(b) ==
  IF b = LastBuffer THEN (IF Older < 4 THEN Older ELSE 4)
  ELSE (IF Older > 4 THEN Older - 4 ELSE 0)

CellsOf(forms) == [tensor : Nat, row : Nat, form : forms]

(* The cells are the rows of a chunk of a tensor, in one of the forms.     *)
Holds(cells, number, slot, forms) ==
  /\ cells \in Seq(CellsOf(forms))
  /\ Len(cells) = slot.count
  /\ \A i \in 1 .. slot.count : cells[i].tensor = number /\ cells[i].row = slot.row + i - 1

CodedForms == {"encoded", "wrong"}

(* Where the rows of a chunk are, by how far the device has got with it.   *)
ContentInv ==
  host # "failed" =>
    /\ \A b \in QueuedBuffers :
         /\ Left(b) = 4 => Holds(hostIn[b], Len(tensors), slots[b], {"raw"})
         /\ Left(b) = 3 => Holds(devIn, Len(tensors), slots[b], {"raw"})
         /\ Left(b) = 2 => Holds(devOut, Len(tensors), slots[b], CodedForms)
         /\ Left(b) < 2 => Holds(hostOut[b], Len(tensors), slots[b], CodedForms)
    /\ host = "enqueue" \/ (host = "launch" /\ stream # <<>>) =>
         Holds(hostIn[FillBuffer], Len(tensors), slots[FillBuffer], {"raw"})
    /\ host = "launch" /\ stream = <<>> =>
         Holds(devIn, Len(tensors), slots[FillBuffer], {"raw"})
    /\ host = "write" /\ Tensor.verified =>
         Holds(hostOut[Plain], Len(tensors), slots[Plain], {"encoded"})

(* What is in the file belongs to tensors that have been begun.            *)
FileInv ==
  /\ file \in Seq(CellsOf(CodedForms))
  /\ \A i \in 1 .. Len(file) :
       /\ file[i].tensor \in 1 .. Len(tensors)
       /\ tensors[file[i].tensor].verified => file[i].form = "encoded"

DataTypes ==
  DOMAIN hostIn = Buffers /\ DOMAIN hostOut = Buffers

DataInv == RowsInv /\ OrderInv /\ ContentInv /\ FileInv /\ DataTypes

-----------------------------------------------------------------------------
LEMMA TensorFacts ==
  ASSUME ControlTypes, host \in Started
  PROVE  /\ Tensor \in Shapes
         /\ Tensor.rows \in Nat \ {0} /\ Tensor.chunk \in Nat \ {0}
         /\ Tensor.pipelined \in BOOLEAN /\ Tensor.verified \in BOOLEAN
         /\ \A side \in {"in", "out"} : Tensor.width[side] \in Nat \ {0}
<1>1. Tensor \in Shapes
  BY DEF ControlTypes, Tensor
<1>2. /\ MaxRows \in Nat /\ Tensor.rows \in 1 .. MaxRows
      /\ Tensor.chunk \in 1 .. Tensor.rows
      /\ Tensor.width \in [in : Nat \ {0}, out : Nat \ {0}]
      /\ Tensor.pipelined \in BOOLEAN /\ Tensor.verified \in BOOLEAN
  BY <1>1, PipelineAssumption
<1>3. Tensor.width["in"] \in Nat \ {0} /\ Tensor.width["out"] \in Nat \ {0}
  BY <1>2
<1>. QED BY <1>1, <1>2, <1>3

LEMMA BufferFacts ==
  ASSUME ControlTypes, host \in Started
  PROVE  FillBuffer \in Buffers /\ ActiveBuffer \in Buffers /\ Depth \in 1 .. 2
BY TensorFacts DEF ControlTypes, FillBuffer, NextSlot, ActiveBuffer, Buffers, Plain, Depth

(* A chunk that is filled or queued takes a buffer that nothing uses. *)
LEMMA FillBufferIsFree ==
  ASSUME IInv, host \in {"fill", "enqueue", "launch"}
  PROVE  FillBuffer \notin QueuedBuffers
BY TensorFacts DEF IInv, ControlTypes, Started, QueueInv, QueuedBuffers, FillBuffer, NextSlot,
   ActiveBuffer, Depth, Plain

LEMMA BlockIsSeq ==
  ASSUME NEW S, NEW n \in Nat, NEW f \in [1 .. n -> S]
  PROVE  f \in Seq(S) /\ Len(f) = n
OBVIOUS

LEMMA PrefixIsSeq ==
  ASSUME NEW S, NEW s \in Seq(S), NEW k \in Nat, k <= Len(s)
  PROVE  SubSeq(s, 1, k) \in Seq(S)
<1>1. \A i \in 1 .. k : s[i] \in S
  OBVIOUS
<1>2. [i \in 1 .. k |-> s[i]] \in [1 .. k -> S]
  BY <1>1
<1>3. [i \in 1 .. k |-> s[i]] \in Seq(S)
  BY <1>2, BlockIsSeq
<1>4. SubSeq(s, 1, k) = [i \in 1 .. k |-> s[i]]
  OBVIOUS
<1>. QED BY <1>3, <1>4

LEMMA TailFacts ==
  ASSUME NEW S, NEW s \in Seq(S), s # <<>>
  PROVE  /\ Tail(s) \in Seq(S) /\ Len(Tail(s)) = Len(s) - 1 /\ Len(s) \in Nat \ {0}
         /\ Tail(s) = <<>> <=> Len(s) = 1
         /\ \A k \in 1 .. Len(s) - 1 : Tail(s)[k] = s[k + 1]
<1>1. /\ Tail(s) \in Seq(S) /\ Len(Tail(s)) = Len(s) - 1 /\ Len(s) \in Nat \ {0}
      /\ \A k \in 1 .. Len(s) - 1 : Tail(s)[k] = s[k + 1]
  OBVIOUS
<1>2. Tail(s) = <<>> <=> Len(Tail(s)) = 0
  BY <1>1
<1>. QED BY <1>1, <1>2

LEMMA OlderFacts ==
  ASSUME ControlTypes
  PROVE  /\ Len(stream) \in Nat /\ Older \in Nat
         /\ stream = <<>> <=> Len(stream) = 0
         /\ host # "launch" \/ stream = <<>> => Older = Len(stream)
         /\ host = "launch" /\ stream # <<>> => Len(stream) = Older + 1
BY DEF ControlTypes, Older

(* With no chunk queued the device has nothing to do but to take the rows  *)
(* of a chunk that is half queued.                                         *)
LEMMA NothingQueued ==
  ASSUME IInv, queued = 0, host # "failed"
  PROVE  Older = 0 /\ (host # "launch" => stream = <<>>)
<1>1. QueuedBuffers = {}
  BY DEF QueuedBuffers
<1>2. Older = 0
  BY <1>1, OlderFacts DEF IInv, StreamInv
<1>. QED BY <1>2, OlderFacts DEF IInv

LEMMA MoreRowsMoreBytes ==
  ASSUME NEW m \in Nat, NEW n \in Nat, NEW w \in Nat, m <= n
  PROVE  m * w <= n * w
<1>1. PICK k \in Nat : n = m + k
  <2>1. n - m \in Nat /\ n = m + (n - m)
    OBVIOUS
  <2>. QED BY <2>1
<1>2. n * w = m * w + k * w /\ k * w >= 0 /\ m * w \in Nat
  BY <1>1
<1>. QED BY <1>2

LEMMA RoomTypes ==
  ASSUME ControlTypes, host \in Started, NEW rows \in Nat, NEW side \in {"in", "out"}
  PROVE  Room(side, rows) \in Nat /\ Room(side, rows) >= rows * Tensor.width[side]
<1>1. capacity[side] \in Nat /\ rows * Tensor.width[side] \in Nat
  BY TensorFacts DEF ControlTypes
<1>. QED BY <1>1 DEF Room, Grown

(* The buffers of a pipelined tensor do not grow any more. *)
LEMMA NoGrowth ==
  ASSUME IInv, host \in {"enqueue", "launch"}, Tensor.pipelined, NEW side \in {"in", "out"}
  PROVE  Room(side, slots[FillBuffer].count) = capacity[side]
<1>. DEFINE count == slots[FillBuffer].count
<1>1. /\ count \in Nat /\ Tensor.chunk \in Nat /\ count <= Tensor.chunk
      /\ capacity \in [{"in", "out"} -> Nat]
  BY TensorFacts, BufferFacts DEF IInv, ControlTypes, Started, QueueInv
<1>2. Tensor.width[side] \in Nat
  BY TensorFacts DEF IInv, Started
<1>3. count * Tensor.width[side] <= Tensor.chunk * Tensor.width[side]
  BY <1>1, <1>2, MoreRowsMoreBytes
<1>4. capacity[side] >= Tensor.chunk * Tensor.width[side]
  BY DEF IInv, RoomInv, Started
<1>5. /\ capacity[side] \in Nat /\ count * Tensor.width[side] \in Nat
      /\ Tensor.chunk * Tensor.width[side] \in Nat
  BY <1>1, <1>2
<1>6. Room(side, count) = Grown(capacity[side], count * Tensor.width[side])
  BY DEF Room
<1>. HIDE DEF count
<1>7. Room(side, count) = capacity[side]
  BY <1>3, <1>4, <1>5, <1>6 DEF Grown
<1>. QED BY <1>7 DEF count

-----------------------------------------------------------------------------
(* The steps of the host. *)
LEMMA BeginKeeps ==
  ASSUME IInv, NEW t \in Shapes, Begin(t)
  PROVE  IInv'
<1>1. /\ host = "pick" /\ queued = 0 /\ queued' = 0 /\ active' = 0 /\ row' = 0
      /\ tensors' = Append(tensors, t)
      /\ host' = IF t.pipelined THEN "reserve" ELSE "fill"
      /\ UNCHANGED <<slots, capacity, stream>>
  BY DEF Begin, devVars, IInv, QueueInv
<1>2. tensors' \in Seq(Shapes) /\ tensors' # <<>> /\ Tensor' = t
  BY <1>1 DEF IInv, ControlTypes, Tensor
<1>3. t.rows \in Nat \ {0} /\ t.pipelined \in BOOLEAN
  BY PipelineAssumption
<1>4. stream = <<>>
  BY <1>1, NothingQueued
<1>5. ControlTypes'
  BY <1>1, <1>2 DEF IInv, ControlTypes, Started
<1>6. QueueInv'
  BY <1>1, <1>2, <1>3 DEF QueueInv, Depth
<1>7. StreamInv'
  BY <1>1, <1>4 DEF StreamInv, Older
<1>8. RoomInv'
  BY <1>1, <1>2, <1>3 DEF RoomInv, Started
<1>. QED BY <1>5, <1>6, <1>7, <1>8 DEF IInv

LEMMA FinishKeeps ==
  ASSUME IInv, Finish
  PROVE  IInv'
<1>1. /\ host = "pick" /\ host' = "closed" /\ queued = 0
      /\ UNCHANGED <<tensors, row, active, queued, slots, capacity, stream>>
  BY DEF Finish, devVars, IInv, QueueInv
<1>2. stream = <<>>
  BY <1>1, NothingQueued
<1>3. ControlTypes'
  BY <1>1 DEF IInv, ControlTypes, Started
<1>4. QueueInv' /\ StreamInv' /\ RoomInv'
  BY <1>1, <1>2 DEF QueueInv, StreamInv, Older, RoomInv, Started
<1>. QED BY <1>3, <1>4 DEF IInv

LEMMA ReserveKeeps ==
  ASSUME IInv, Reserve
  PROVE  IInv'
<1>1. /\ host = "reserve" /\ host' = "fill" /\ queued = 0 /\ Tensor.pipelined
      /\ capacity' = [side \in {"in", "out"} |-> Room(side, Tensor.chunk)]
      /\ UNCHANGED <<tensors, row, active, queued, slots, stream>>
  BY DEF Reserve, IInv, QueueInv
<1>2. stream = <<>>
  BY <1>1, NothingQueued
<1>3. /\ capacity' \in [{"in", "out"} -> Nat]
      /\ \A side \in {"in", "out"} : capacity'[side] >= Tensor.chunk * Tensor.width[side]
  <2>1. Tensor.chunk \in Nat
    BY <1>1, TensorFacts DEF IInv, Started
  <2>. QED BY <1>1, <2>1, RoomTypes DEF IInv, Started
<1>4. ControlTypes'
  BY <1>1, <1>3 DEF IInv, ControlTypes, Started
<1>5. Tensor' = Tensor
  BY <1>1 DEF Tensor
<1>6. RoomInv'
  BY <1>3, <1>5 DEF RoomInv
<1>7. StreamInv'
  BY <1>1, <1>2 DEF StreamInv, Older
<1>8. QueueInv'
  <2>1. Tensor.rows \in Nat \ {0}
    BY <1>1, TensorFacts DEF IInv, Started
  <2>. QED BY <1>1, <1>5, <2>1 DEF QueueInv, Depth, IInv
<1>. QED BY <1>4, <1>6, <1>7, <1>8 DEF IInv

LEMMA FillKeeps ==
  ASSUME IInv, Fill
  PROVE  IInv'
<1>1. /\ host = "fill" /\ host' = "enqueue" /\ host \in Started
      /\ slots' = [slots EXCEPT ![FillBuffer] = [row |-> row, count |-> NextCount]]
      /\ UNCHANGED <<tensors, row, active, queued, capacity, stream>>
  BY DEF Fill, devVars, Started
<1>2. /\ row \in Nat /\ row < Tensor.rows /\ Tensor.rows \in Nat /\ Tensor.chunk \in Nat
      /\ FillBuffer \in Buffers /\ slots \in [Buffers -> [row : Nat, count : Nat]]
  BY <1>1, TensorFacts, BufferFacts DEF IInv, ControlTypes, QueueInv
<1>3. NextCount \in Nat /\ NextCount <= Tensor.chunk
  BY <1>2 DEF NextCount
<1>4. slots' \in [Buffers -> [row : Nat, count : Nat]] /\ slots'[FillBuffer].count = NextCount
  BY <1>1, <1>2, <1>3
<1>5. ControlTypes'
  BY <1>1, <1>4 DEF IInv, ControlTypes, Started
<1>6. Tensor' = Tensor /\ FillBuffer' = FillBuffer /\ Depth' = Depth /\ ActiveBuffer' = ActiveBuffer
  BY <1>1 DEF Tensor, FillBuffer, NextSlot, Depth, ActiveBuffer
<1>7. QueueInv'
  BY <1>1, <1>3, <1>4, <1>6 DEF IInv, QueueInv
<1>8. StreamInv'
  BY <1>1, <1>6 DEF IInv, StreamInv, QueuedBuffers, Older
<1>9. RoomInv'
  BY <1>1, <1>6 DEF IInv, RoomInv, Started
<1>. QED BY <1>5, <1>7, <1>8, <1>9 DEF IInv

LEMMA CommandFacts ==
  ASSUME ControlTypes, NEW b \in Buffers
  PROVE  /\ Commands(b) \in Seq(CommandSet) /\ Len(Commands(b)) = 4
         /\ \A i \in 1 .. 4 : Commands(b)[i] \in CommandSet /\ Commands(b)[i].buffer = b
         /\ Commands(b)[1].do = "h2d" /\ Commands(b)[4].do = "event"
<1>1. slots[b].count \in Nat
  BY DEF ControlTypes
<1>2. \A i \in 1 .. 4 : <<"h2d", "quantize", "d2h", "event">>[i] \in {"h2d", "quantize", "d2h", "event"}
  OBVIOUS
<1>3. Commands(b) \in [1 .. 4 -> CommandSet]
  BY <1>1, <1>2 DEF Commands, CommandSet
<1>4. Commands(b) \in Seq(CommandSet) /\ Len(Commands(b)) = 4
  <2>1. PICK n \in Nat : n = 4
    OBVIOUS
  <2>2. \A f \in [1 .. n -> CommandSet] : f \in Seq(CommandSet) /\ Len(f) = n
    OBVIOUS
  <2>. QED BY <1>3, <2>1, <2>2
<1>. QED BY <1>3, <1>4 DEF Commands

(* The copy to the device is queued behind what was queued before. *)
LEMMA EnqueueStream ==
  ASSUME IInv, Enqueue
  PROVE  /\ stream' \in Seq(CommandSet) /\ Len(stream') = Len(stream) + 1 /\ stream' # <<>>
         /\ \A i \in 1 .. Len(stream) : stream'[i] = stream[i]
         /\ stream'[Len(stream')] = Commands(FillBuffer)[1]
         /\ Older = Len(stream) /\ Older' = Len(stream) /\ Len(stream) \in Nat
<1>1. /\ host = "enqueue" /\ host \in Started /\ host' = "launch"
      /\ stream' = Append(stream, Commands(FillBuffer)[1])
  BY DEF Enqueue, Started
<1>2. Commands(FillBuffer)[1] \in CommandSet
  BY <1>1, BufferFacts, CommandFacts DEF IInv
<1>3. stream \in Seq(CommandSet)
  BY DEF IInv, ControlTypes
<1>4. PICK command \in CommandSet : command = Commands(FillBuffer)[1]
  BY <1>2
<1>5. stream' = Append(stream, command)
  BY <1>1, <1>4
<1>6. /\ stream' \in Seq(CommandSet) /\ Len(stream') = Len(stream) + 1 /\ stream' # <<>>
      /\ \A i \in 1 .. Len(stream) : stream'[i] = stream[i]
      /\ stream'[Len(stream) + 1] = command /\ Len(stream) \in Nat
  BY ONLY <1>3, <1>5
<1>7. Older = Len(stream)
  BY <1>1 DEF Older
<1>8. Older' = Len(stream)
  BY <1>1, <1>6 DEF Older
<1>. QED BY <1>4, <1>6, <1>7, <1>8

LEMMA EnqueueKeeps ==
  ASSUME IInv, Enqueue
  PROVE  IInv'
<1>1. /\ host = "enqueue" /\ host \in Started /\ host' = "launch"
      /\ capacity' = [capacity EXCEPT !.in = Room("in", slots[FillBuffer].count)]
      /\ UNCHANGED <<tensors, row, active, queued, slots>>
  BY DEF Enqueue, Started
<1>2. /\ FillBuffer \in Buffers /\ slots[FillBuffer].count \in Nat
      /\ capacity \in [{"in", "out"} -> Nat]
  BY <1>1, BufferFacts DEF IInv, ControlTypes
<1>3. /\ Tensor' = Tensor /\ Depth' = Depth /\ ActiveBuffer' = ActiveBuffer
      /\ FillBuffer' = FillBuffer /\ QueuedBuffers' = QueuedBuffers
      /\ Commands(FillBuffer)' = Commands(FillBuffer)
  BY <1>1 DEF Tensor, Depth, ActiveBuffer, FillBuffer, NextSlot, QueuedBuffers, Commands
<1>4. Room("in", slots[FillBuffer].count) \in Nat
  BY <1>1, <1>2, RoomTypes DEF IInv
<1>5. ControlTypes'
  <2>1. capacity' \in [{"in", "out"} -> Nat]
    BY <1>1, <1>2, <1>4
  <2>. QED BY <1>1, <2>1, EnqueueStream DEF IInv, ControlTypes, Started
<1>6. QueueInv'
  BY <1>1, <1>3 DEF IInv, QueueInv
<1>7. RoomInv'
  <2>1. CASE Tensor.pipelined
    <3>1. Room("in", slots[FillBuffer].count) = capacity["in"]
      BY <1>1, <2>1, NoGrowth
    <3>2. capacity' = capacity
      BY <1>1, <1>2, <3>1
    <3>. QED BY <1>1, <1>3, <3>2 DEF IInv, RoomInv, Started
  <2>. QED BY <1>3, <2>1 DEF RoomInv
<1>8. StreamInv'
  <2>1. ASSUME NEW i \in 1 .. Older
        PROVE  /\ stream'[i].buffer \in QueuedBuffers
               /\ \E j \in i .. Older :
                    stream'[j].do = "event" /\ stream'[j].buffer = stream'[i].buffer
    <3>1. stream[i].buffer \in QueuedBuffers /\ stream'[i] = stream[i]
      BY <1>1, EnqueueStream DEF IInv, StreamInv
    <3>2. PICK j \in i .. Older : stream[j].do = "event" /\ stream[j].buffer = stream[i].buffer
      BY <1>1 DEF IInv, StreamInv
    <3>3. j \in 1 .. Len(stream) /\ stream'[j] = stream[j]
      BY <3>2, EnqueueStream
    <3>. QED BY <3>1, <3>2, <3>3
  <2>2. Older' = Older
    BY EnqueueStream
  <2>. QED BY <1>1, <1>3, <2>1, <2>2, EnqueueStream DEF StreamInv
<1>. QED BY <1>5, <1>6, <1>7, <1>8 DEF IInv

(* Now the chunk is queued: behind the older commands are its own, all     *)
(* four, or the last three when the device has taken its rows already.     *)
LEMMA LaunchStream ==
  ASSUME IInv, Launch
  PROVE  /\ stream' \in Seq(CommandSet) /\ Older \in Nat
         /\ Len(stream') = IF stream = <<>> THEN Older + 3 ELSE Older + 4
         /\ stream = <<>> => Older = 0
         /\ Older' = Len(stream')
         /\ \A i \in 1 .. Older : stream'[i] = stream[i]
         /\ \A i \in Older + 1 .. Len(stream') :
              /\ 4 - (Len(stream') - i) \in 1 .. 4
              /\ stream'[i] = Commands(FillBuffer)[4 - (Len(stream') - i)]
<1>1. /\ host = "launch" /\ host \in Started /\ host' \in {"finish", "fill"}
      /\ stream' = stream \o Tail(Commands(FillBuffer))
  BY DEF Launch, Started
<1>2. PICK commands \in Seq(CommandSet) : commands = Commands(FillBuffer) /\ Len(commands) = 4
  BY <1>1, BufferFacts, CommandFacts DEF IInv
<1>3. PICK queue \in Seq(CommandSet) :
        /\ queue = Tail(Commands(FillBuffer)) /\ Len(queue) = 3
        /\ \A k \in 1 .. 3 : queue[k] = Commands(FillBuffer)[k + 1]
  <2>1. commands # <<>>
    BY <1>2
  <2>2. /\ Tail(commands) \in Seq(CommandSet) /\ Len(Tail(commands)) = Len(commands) - 1
        /\ \A k \in 1 .. Len(commands) - 1 : Tail(commands)[k] = commands[k + 1]
    BY <1>2, <2>1, TailFacts
  <2>3. Len(commands) - 1 = 3
    BY <1>2
  <2>4. /\ Tail(commands) \in Seq(CommandSet) /\ Len(Tail(commands)) = 3
        /\ \A k \in 1 .. 3 : Tail(commands)[k] = commands[k + 1]
    BY <2>2, <2>3, Zenon
  <2>. QED BY <1>2, <2>4, Zenon
<1>4. stream \in Seq(CommandSet) /\ queue \in Seq(CommandSet)
  BY DEF IInv, ControlTypes
<1>5. stream' = stream \o queue
  BY <1>1, <1>3
<1>6. /\ stream \o queue \in Seq(CommandSet)
      /\ Len(stream \o queue) = Len(stream) + Len(queue) /\ Len(stream) \in Nat
      /\ \A i \in 1 .. Len(stream) : (stream \o queue)[i] = stream[i]
  BY ONLY <1>4
<1>7. \A i \in 1 .. Len(queue) : (stream \o queue)[Len(stream) + i] = queue[i]
  BY ONLY <1>4
<1>8. /\ stream' \in Seq(CommandSet) /\ Len(stream') = Len(stream) + 3 /\ Len(stream) \in Nat
      /\ \A i \in 1 .. Len(stream) : stream'[i] = stream[i]
      /\ \A k \in 1 .. 3 : stream'[Len(stream) + k] = Commands(FillBuffer)[k + 1]
  BY ONLY <1>3, <1>5, <1>6, <1>7
<1>9. /\ Older \in Nat
      /\ stream = <<>> => Older = 0 /\ Len(stream) = 0
      /\ stream # <<>> => Len(stream) = Older + 1 /\ stream[Len(stream)] = Commands(FillBuffer)[1]
  BY <1>1, OlderFacts DEF IInv, StreamInv
<1>10. Len(stream') = IF stream = <<>> THEN Older + 3 ELSE Older + 4
  BY <1>8, <1>9
<1>11. Older' = Len(stream')
  BY <1>1 DEF Older
<1>12. ASSUME NEW i \in Older + 1 .. Len(stream')
       PROVE  /\ 4 - (Len(stream') - i) \in 1 .. 4
              /\ stream'[i] = Commands(FillBuffer)[4 - (Len(stream') - i)]
  <2>1. PICK len \in Nat : len = Len(stream)
    BY <1>8
  <2>2. CASE i = len
    <3>1. stream # <<>> /\ len = Older + 1 /\ len > 0
      BY <1>8, <1>9, <2>1, <2>2
    <3>2. stream'[i] = Commands(FillBuffer)[1] /\ 4 - (Len(stream') - i) = 1
      BY <1>8, <1>9, <2>1, <2>2, <3>1
    <3>. QED BY <3>2
  <2>3. CASE i # len
    <3>1. PICK k \in 1 .. 3 : i = len + k
      <4>1. i - len \in 1 .. 3 /\ i = len + (i - len)
        BY <1>8, <1>9, <2>1, <2>3
      <4>. QED BY <4>1
    <3>2. 4 - (Len(stream') - i) = k + 1 /\ k + 1 \in 1 .. 4
      BY <1>8, <2>1, <3>1
    <3>3. stream'[i] = Commands(FillBuffer)[k + 1]
      BY <1>8, <2>1, <3>1
    <3>. QED BY <3>2, <3>3
  <2>. QED BY <2>2, <2>3
<1>13. \A i \in 1 .. Older : stream'[i] = stream[i]
  BY <1>8, <1>9
<1>. QED BY <1>8, <1>9, <1>10, <1>11, <1>12, <1>13

LEMMA LaunchKeeps ==
  ASSUME IInv, Launch
  PROVE  IInv'
<1>1. /\ host = "launch" /\ host \in Started
      /\ capacity' = [capacity EXCEPT !.out = Room("out", slots[FillBuffer].count)]
      /\ row' = row + slots[FillBuffer].count
      /\ queued' = queued + 1
      /\ host' = IF queued + 1 = Depth \/ row' >= Tensor.rows THEN "finish" ELSE "fill"
      /\ UNCHANGED <<tensors, active, slots>>
  BY DEF Launch, Started
<1>2. /\ queued \in {0, 1} /\ queued < Depth /\ Depth \in {1, 2}
      /\ FillBuffer \in Buffers /\ slots[FillBuffer].count \in Nat
      /\ row \in Nat /\ active \in {0, 1} /\ Tensor.rows \in Nat
      /\ Tensor.pipelined \in BOOLEAN
      /\ capacity \in [{"in", "out"} -> Nat]
  BY <1>1, BufferFacts, TensorFacts, SMTT(30) DEF IInv, ControlTypes, QueueInv
<1>3. Tensor' = Tensor /\ Depth' = Depth /\ ActiveBuffer' = ActiveBuffer
  BY <1>1 DEF Tensor, Depth, ActiveBuffer
<1>4. Room("out", slots[FillBuffer].count) \in Nat
  BY <1>1, <1>2, RoomTypes DEF IInv
<1>5. ControlTypes'
  <2>1. capacity' \in [{"in", "out"} -> Nat]
    BY <1>1, <1>2, <1>4
  <2>2. row' \in Nat /\ queued' \in 0 .. 2 /\ host' \in {"finish", "fill"}
    BY <1>1, <1>2
  <2>. QED BY <1>1, <2>1, <2>2, LaunchStream DEF IInv, ControlTypes, Started
<1>6. QueueInv'
  BY <1>1, <1>2, <1>3 DEF QueueInv
<1>7. RoomInv'
  <2>1. CASE Tensor.pipelined
    <3>1. Room("out", slots[FillBuffer].count) = capacity["out"]
      BY <1>1, <2>1, NoGrowth
    <3>2. capacity' = capacity
      BY <1>1, <1>2, <3>1
    <3>. QED BY <1>1, <1>3, <3>2 DEF IInv, RoomInv, Started
  <2>. QED BY <1>3, <2>1 DEF RoomInv
<1>8. QueuedBuffers \subseteq QueuedBuffers' /\ FillBuffer \in QueuedBuffers'
  BY <1>1, <1>2, <1>3 DEF QueuedBuffers, ActiveBuffer, FillBuffer, NextSlot, Depth, Plain
<1>9. StreamInv'
  <2>1. ASSUME NEW i \in 1 .. Len(stream')
        PROVE  /\ stream'[i].buffer \in QueuedBuffers'
               /\ \E j \in i .. Len(stream') :
                    stream'[j].do = "event" /\ stream'[j].buffer = stream'[i].buffer
    <3>1. CASE i \in 1 .. Older
      <4>1. stream[i].buffer \in QueuedBuffers /\ stream'[i] = stream[i]
        BY <1>1, <3>1, LaunchStream DEF IInv, StreamInv
      <4>2. PICK j \in i .. Older : stream[j].do = "event" /\ stream[j].buffer = stream[i].buffer
        BY <1>1, <3>1 DEF IInv, StreamInv
      <4>3. j \in 1 .. Older /\ j \in i .. Len(stream') /\ stream'[j] = stream[j]
        BY <3>1, <4>2, LaunchStream
      <4>. QED BY <1>8, <4>1, <4>2, <4>3
    <3>2. CASE i \in Older + 1 .. Len(stream')
      <4>1. stream'[i].buffer = FillBuffer
        <5>1. PICK k \in 1 .. 4 : stream'[i] = Commands(FillBuffer)[k]
          BY <3>2, LaunchStream
        <5>. QED BY <1>2, <5>1, CommandFacts DEF IInv
      <4>2. Len(stream') \in Older + 1 .. Len(stream') /\ Len(stream') \in i .. Len(stream')
        BY <3>2, LaunchStream
      <4>3. stream'[Len(stream')] = Commands(FillBuffer)[4]
        <5>1. 4 - (Len(stream') - Len(stream')) = 4
          BY <4>2
        <5>. QED BY <4>2, <5>1, LaunchStream
      <4>. QED BY <1>2, <1>8, <4>1, <4>2, <4>3, CommandFacts DEF IInv
    <3>. QED BY <3>1, <3>2, LaunchStream
  <2>2. host' \notin {"verify", "write", "launch"}
    BY <1>1
  <2>. QED BY <2>1, <2>2, LaunchStream DEF StreamInv
<1>. QED BY <1>5, <1>6, <1>7, <1>9 DEF IInv

LEMMA FinishChunkKeeps ==
  ASSUME IInv, FinishChunk
  PROVE  IInv'
<1>1. /\ host = "finish" /\ host \in Started /\ host' \in {"verify", "write"}
      /\ EventReached(ActiveBuffer)
      /\ UNCHANGED <<tensors, row, active, queued, slots, capacity, stream>>
  BY DEF FinishChunk, devVars, Started
<1>2. Tensor' = Tensor /\ ActiveBuffer' = ActiveBuffer /\ Depth' = Depth
  BY <1>1 DEF Tensor, ActiveBuffer, Depth
<1>3. ControlTypes' /\ QueueInv' /\ RoomInv'
  BY <1>1, <1>2 DEF IInv, ControlTypes, QueueInv, RoomInv, Started
<1>4. \A i \in 1 .. Len(stream) : stream[i].buffer # ActiveBuffer
  <2>1. stream \in Seq(CommandSet)
    BY DEF IInv, ControlTypes
  <2>2. \A i \in 1 .. Len(stream) : \E j \in 1 .. Len(stream) :
          stream[j].do = "event" /\ stream[j].buffer = stream[i].buffer
    BY <1>1, <2>1 DEF IInv, StreamInv, Older
  <2>. QED BY <1>1, <2>1, <2>2 DEF EventReached
<1>5. StreamInv'
  BY <1>1, <1>2, <1>4 DEF IInv, StreamInv, QueuedBuffers, Older
<1>. QED BY <1>3, <1>5 DEF IInv

LEMMA VerifyKeeps ==
  ASSUME IInv, Verify
  PROVE  IInv'
<1>1. /\ host = "verify" /\ host' \in {"write", "failed"}
      /\ UNCHANGED <<tensors, row, active, queued, slots, capacity, stream>>
  BY DEF Verify, devVars
<1>2. Tensor' = Tensor /\ ActiveBuffer' = ActiveBuffer /\ Depth' = Depth
  BY <1>1 DEF Tensor, ActiveBuffer, Depth
<1>. QED
  BY <1>1, <1>2 DEF IInv, ControlTypes, QueueInv, StreamInv, QueuedBuffers, Older, RoomInv, Started

(* The slot that was written is free; the other one, if a chunk is under   *)
(* way in it, becomes the active one.                                      *)
LEMMA WriteKeeps ==
  ASSUME IInv, Write
  PROVE  IInv'
<1>1. /\ host = "write" /\ host \in Started
      /\ active' = IF queued > 1 THEN 1 - active ELSE active
      /\ queued' = queued - 1
      /\ host' = AfterWrite
      /\ UNCHANGED <<tensors, row, slots, capacity, stream>>
  BY DEF Write, devVars, Started
<1>2. /\ queued \in 1 .. Depth /\ Depth = IF Tensor.pipelined THEN 2 ELSE 1
      /\ active \in {0, 1} /\ Tensor.pipelined \in BOOLEAN
      /\ row \in Nat /\ Tensor.rows \in Nat
  BY <1>1, TensorFacts DEF IInv, ControlTypes, QueueInv, Depth
<1>3. Tensor' = Tensor /\ Depth' = Depth
  BY <1>1 DEF Tensor, Depth
<1>4. /\ host' \in {"fill", "finish", "pick"}
      /\ host' = "fill" => row < Tensor.rows
      /\ host' = "finish" => queued > 1
      /\ host' = "pick" => queued = 1
  BY <1>1, <1>2 DEF AfterWrite
<1>5. queued' \in Nat /\ queued' < Depth /\ active' \in {0, 1} /\ queued' \in 0 .. 1
  BY <1>1, <1>2
<1>6. ControlTypes'
  BY <1>1, <1>4, <1>5 DEF IInv, ControlTypes, Started
<1>7. QueueInv'
  BY <1>1, <1>2, <1>3, <1>4, <1>5 DEF QueueInv
<1>8. StreamInv'
  <2>1. QueuedBuffers \ {ActiveBuffer} \subseteq QueuedBuffers'
    BY <1>1, <1>2, <1>3 DEF QueuedBuffers, ActiveBuffer, Plain, Buffers
  <2>. QED BY <1>1, <1>4, <2>1 DEF IInv, StreamInv, Older
<1>9. RoomInv'
  BY <1>1, <1>3, <1>4 DEF IInv, RoomInv, Started
<1>. QED BY <1>6, <1>7, <1>8, <1>9 DEF IInv

LEMMA FailKeeps ==
  ASSUME IInv, Fail
  PROVE  IInv'
<1>1. /\ host \in Started /\ host' = "failed"
      /\ UNCHANGED <<tensors, row, active, queued, slots, capacity>>
  BY DEF Fail, Working, Started
<1>2. stream' \in Seq(CommandSet)
  <2>1. PICK k \in 0 .. (IF host = "launch" THEN 2 ELSE 0) :
          stream' = stream \o SubSeq(Tail(Commands(FillBuffer)), 1, k)
    BY DEF Fail
  <2>2. /\ stream \in Seq(CommandSet)
        /\ Commands(FillBuffer) \in Seq(CommandSet) /\ Len(Commands(FillBuffer)) = 4
    BY <1>1, BufferFacts, CommandFacts DEF IInv, ControlTypes
  <2>3. k \in 0 .. 2
    BY <2>1
  <2>4. PICK queue \in Seq(CommandSet) : queue = Tail(Commands(FillBuffer)) /\ Len(queue) = 3
    <3>1. PICK commands \in Seq(CommandSet) : commands = Commands(FillBuffer) /\ Len(commands) = 4
      BY <2>2
    <3>2. commands # <<>>
      BY <3>1
    <3>3. Tail(commands) \in Seq(CommandSet) /\ Len(Tail(commands)) = 3
      BY <3>1, <3>2, TailFacts
    <3>. QED BY <3>1, <3>3
  <2>5. SubSeq(queue, 1, k) \in Seq(CommandSet)
    <3>1. queue \in Seq(CommandSet) /\ Len(queue) = 3 /\ k \in 0 .. 2
      BY <2>3, <2>4
    <3>2. k \in Nat /\ k <= Len(queue)
      BY <3>1
    <3>. QED BY <3>1, <3>2, PrefixIsSeq
  <2>6. PICK part \in Seq(CommandSet) : part = SubSeq(queue, 1, k)
    BY <2>5
  <2>7. stream \in Seq(CommandSet) /\ part \in Seq(CommandSet)
    BY <2>2, <2>6
  <2>8. stream \o part \in Seq(CommandSet)
    BY ONLY <2>7
  <2>9. stream' = stream \o part
    BY <2>1, <2>4, <2>6
  <2>. QED BY ONLY <2>8, <2>9
<1>. QED
  BY <1>1, <1>2 DEF IInv, ControlTypes, QueueInv, StreamInv, RoomInv, Started

-----------------------------------------------------------------------------
(* The device. *)
LEMMA DeviceKeeps ==
  ASSUME IInv, Device
  PROVE  IInv'
<1>1. /\ stream # <<>> /\ stream' = Tail(stream)
      /\ UNCHANGED <<tensors, host, row, active, queued, slots, capacity>>
  BY DEF Device, CopyIn, Quantize, CopyOut, PassEvent, hostVars
<1>2. /\ stream \in Seq(CommandSet) /\ stream' \in Seq(CommandSet)
      /\ Len(stream) \in Nat \ {0} /\ Len(stream') = Len(stream) - 1
      /\ stream' = <<>> <=> Len(stream) = 1
      /\ \A i \in 1 .. Len(stream) - 1 : stream'[i] = stream[i + 1]
  BY <1>1, TailFacts DEF IInv, ControlTypes
<1>3. /\ Tensor' = Tensor /\ ActiveBuffer' = ActiveBuffer /\ FillBuffer' = FillBuffer
      /\ Depth' = Depth /\ QueuedBuffers' = QueuedBuffers
  BY <1>1 DEF Tensor, ActiveBuffer, FillBuffer, NextSlot, Depth, QueuedBuffers
<1>4. ControlTypes' /\ QueueInv' /\ RoomInv'
  BY <1>1, <1>2, <1>3 DEF IInv, ControlTypes, QueueInv, RoomInv
<1>5. StreamInv'
  <2>1. CASE host = "launch" /\ Older = 0
    <3>1. stream' = <<>> /\ Older' = 0
      <4>1. Len(stream) = 1
        BY <1>1, <2>1, OlderFacts DEF IInv
      <4>2. stream' = <<>> /\ Len(stream') = 0
        BY <1>2, <4>1
      <4>. QED BY <4>2 DEF Older
    <3>. QED BY <1>1, <2>1, <3>1 DEF StreamInv
  <2>2. CASE host # "launch" \/ Older # 0
    <3>1. Older \in Nat \ {0} /\ Older <= Len(stream) /\ Older' = Older - 1
      <4>1. /\ Older \in Nat
            /\ host # "launch" => Older = Len(stream)
            /\ host = "launch" => Len(stream) = Older + 1
        BY <1>1, OlderFacts DEF IInv
      <4>2. host = "launch" => stream' # <<>>
        BY <1>2, <2>2, <4>1
      <4>3. Older' = IF host = "launch" THEN Len(stream') - 1 ELSE Len(stream')
        BY <1>1, <4>2 DEF Older
      <4>. QED BY <1>2, <2>2, <4>1, <4>3
    <3>2. ASSUME host # "failed", NEW i \in 1 .. Older - 1
          PROVE  /\ stream'[i].buffer \in QueuedBuffers
                 /\ \E j \in i .. Older - 1 :
                      stream'[j].do = "event" /\ stream'[j].buffer = stream'[i].buffer
      <4>1. i + 1 \in 1 .. Older /\ stream'[i] = stream[i + 1]
        BY <1>2, <3>1
      <4>2. PICK k \in (i + 1) .. Older :
              stream[k].do = "event" /\ stream[k].buffer = stream[i + 1].buffer
        BY <3>2, <4>1 DEF IInv, StreamInv
      <4>3. /\ k - 1 \in i .. Older - 1 /\ k - 1 \in 1 .. Len(stream) - 1
            /\ (k - 1) + 1 = k
        BY <1>2, <3>1, <4>2
      <4>4. stream'[k - 1] = stream[k]
        BY <1>2, <4>3
      <4>. QED BY <3>2, <4>1, <4>2, <4>3, <4>4 DEF IInv, StreamInv
    <3>3. ASSUME host \in {"verify", "write"}, NEW i \in 1 .. Len(stream')
          PROVE  stream'[i].buffer # ActiveBuffer
      <4>1. i + 1 \in 1 .. Len(stream) /\ stream'[i] = stream[i + 1]
        BY <1>2, <3>3
      <4>. QED BY <3>3, <4>1 DEF IInv, StreamInv
    <3>4. host = "launch" => stream'[Len(stream')] = Commands(FillBuffer)[1]
      <4>1. SUFFICES ASSUME host = "launch" PROVE stream'[Len(stream')] = Commands(FillBuffer)[1]
        OBVIOUS
      <4>2. Len(stream) = Older + 1 /\ Len(stream') = Older
        BY <1>1, <1>2, <4>1, OlderFacts DEF IInv
      <4>3. stream'[Len(stream')] = stream[Len(stream)]
        BY <1>2, <3>1, <4>2
      <4>. QED BY <1>1, <4>1, <4>3 DEF IInv, StreamInv
    <3>5. Commands(FillBuffer)' = Commands(FillBuffer)
      BY <1>1, <1>3 DEF Commands
    <3>. QED BY <1>1, <1>3, <3>1, <3>2, <3>3, <3>4, <3>5 DEF StreamInv
  <2>. QED BY <2>1, <2>2
<1>. QED BY <1>4, <1>5 DEF IInv

-----------------------------------------------------------------------------
LEMMA InitHolds == Init => IInv
<1>. SUFFICES ASSUME Init PROVE IInv
  OBVIOUS
<1>1. Len(stream) = 0
  BY DEF Init
<1>2. ControlTypes
  BY DEF Init, ControlTypes, Started
<1>3. QueueInv /\ StreamInv /\ RoomInv
  BY <1>1 DEF Init, QueueInv, StreamInv, Older, RoomInv, Started
<1>. QED BY <1>2, <1>3 DEF IInv

LEMMA StepHolds == IInv /\ [Next]_vars => IInv'
<1>. SUFFICES ASSUME IInv, [Next]_vars PROVE IInv'
  OBVIOUS
<1>1. CASE HostStep
  BY <1>1, ReserveKeeps, FillKeeps, EnqueueKeeps, LaunchKeeps, FinishChunkKeeps, VerifyKeeps, WriteKeeps,
     FinishKeeps DEF HostStep
<1>2. CASE UNCHANGED vars
  <2>1. UNCHANGED <<tensors, host, row, active, queued, slots, capacity, stream>>
    BY <1>2 DEF vars, hostVars, devVars
  <2>. QED
    BY <2>1 DEF IInv, ControlTypes, QueueInv, StreamInv, QueuedBuffers, Older, RoomInv, Tensor,
       Depth, ActiveBuffer, FillBuffer, NextSlot, Commands
<1>. QED BY <1>1, <1>2, BeginKeeps, FailKeeps, DeviceKeeps DEF Next

THEOREM InvariantHolds == Spec => []IInv
BY InitHolds, StepHolds, PTL DEF Spec

(* The host never fills a buffer whose rows the device has still to fetch, *)
(* and never compares or writes out rows the device has still to bring     *)
(* back: the finishing of one chunk frees its slot and no other.           *)
THEOREM SlotsAreSettled == Spec => []BuffersAreSettled
<1>1. IInv => BuffersAreSettled
  <2>. SUFFICES ASSUME IInv PROVE BuffersAreSettled
    OBVIOUS
  <2>1. stream \in Seq(CommandSet) /\ DOMAIN stream = 1 .. Len(stream)
    BY DEF IInv, ControlTypes
  <2>2. ASSUME host \in {"fill", "enqueue"} PROVE ~ UnderWay(FillBuffer, "h2d")
    BY <2>1, <2>2, FillBufferIsFree, SMTT(30) DEF UnderWay, IInv, StreamInv, Older
  <2>3. ASSUME host \in {"verify", "write"} PROVE ~ UnderWay(ActiveBuffer, "d2h")
    BY <2>1, <2>3 DEF UnderWay, IInv, StreamInv
  <2>. QED BY <2>2, <2>3 DEF BuffersAreSettled
<1>. QED BY <1>1, InvariantHolds, PTL

(* A buffer of the device is freed and replaced only when nothing queued   *)
(* uses it: before a pipeline starts, as the reserved size is enough for   *)
(* every later chunk, or between the chunks of the plain path, where no    *)
(* more than the copy into the input buffer is queued when the output      *)
(* buffer is replaced.                                                     *)
THEOREM BuffersStayWhileUsed == Spec => ReplacedWhenUnused
<1>1. ASSUME IInv, Next, NEW side \in {"in", "out"}, capacity'[side] # capacity[side],
             NEW i \in DOMAIN stream
      PROVE  stream[i].do \notin UsersOf(side)
  <2>0. /\ capacity \in [{"in", "out"} -> Nat] /\ DOMAIN stream = 1 .. Len(stream)
        /\ stream # <<>>
    BY <1>1 DEF IInv, ControlTypes
  <2>1. CASE Reserve
    BY <1>1, <2>0, <2>1, NothingQueued DEF Reserve, IInv, QueueInv
  <2>2. CASE Enqueue
    <3>1. /\ host = "enqueue"
          /\ capacity' = [capacity EXCEPT !.in = Room("in", slots[FillBuffer].count)]
      BY <2>2 DEF Enqueue
    <3>2. side = "in" /\ Room("in", slots[FillBuffer].count) # capacity["in"]
      BY <1>1, <2>0, <3>1
    <3>3. ~ Tensor.pipelined
      BY <1>1, <3>1, <3>2, NoGrowth
    <3>4. queued = 0
      BY <1>1, <3>1, <3>3 DEF IInv, ControlTypes, QueueInv, Depth
    <3>. QED BY <1>1, <2>0, <3>1, <3>4, NothingQueued
  <2>3. CASE Launch
    <3>1. /\ host = "launch" /\ host \in Started
          /\ capacity' = [capacity EXCEPT !.out = Room("out", slots[FillBuffer].count)]
      BY <2>3 DEF Launch, Started
    <3>2. side = "out" /\ Room("out", slots[FillBuffer].count) # capacity["out"]
      BY <1>1, <2>0, <3>1
    <3>3. ~ Tensor.pipelined
      BY <1>1, <3>1, <3>2, NoGrowth
    <3>4. queued = 0
      BY <1>1, <3>1, <3>3 DEF IInv, ControlTypes, QueueInv, Depth
    <3>5. Len(stream) = 1 /\ i = 1
      <4>1. Older = 0 /\ Len(stream) = Older + 1
        BY <1>1, <2>0, <3>1, <3>4, NothingQueued, OlderFacts DEF IInv
      <4>. QED BY <1>1, <2>0, <4>1
    <3>6. stream[i] = Commands(FillBuffer)[1] /\ FillBuffer \in Buffers
      BY <1>1, <2>0, <3>1, <3>5, BufferFacts DEF IInv, StreamInv
    <3>7. stream[i].do = "h2d"
      BY <1>1, <3>6, CommandFacts DEF IInv
    <3>. QED BY <3>2, <3>7 DEF UsersOf
  <2>4. CASE Fail
    BY <1>1, <2>4 DEF Fail
  <2>5. CASE Device
    BY <1>1, <2>5 DEF Device, CopyIn, Quantize, CopyOut, PassEvent
  <2>6. ASSUME NEW t \in Shapes, Begin(t) PROVE FALSE
    BY <1>1, <2>6 DEF Begin, devVars
  <2>7. CASE Fill \/ FinishChunk \/ Verify \/ Write \/ Finish
    BY <1>1, <2>7 DEF Fill, FinishChunk, Verify, Write, Finish, devVars
  <2>. QED BY <1>1, <2>1, <2>2, <2>3, <2>4, <2>5, <2>6, <2>7 DEF Next, HostStep
<1>2. ASSUME IInv, [Next]_vars
      PROVE  [\A side \in {"in", "out"} : capacity'[side] # capacity[side] =>
                \A i \in DOMAIN stream : stream[i].do \notin UsersOf(side)]_vars
  BY <1>1, <1>2
<1>. QED BY <1>2, InvariantHolds, PTL DEF Spec, ReplacedWhenUnused

-----------------------------------------------------------------------------
(* Where the rows are: DataInv is kept by every step.                      *)

LEMMA QueuedFacts ==
  ASSUME IInv, host # "failed"
  PROVE  /\ QueuedBuffers \subseteq Buffers
         /\ queued = 0 => QueuedBuffers = {}
         /\ queued # 0 =>
              /\ host \in Started /\ ActiveBuffer \in QueuedBuffers /\ LastBuffer \in QueuedBuffers
         /\ queued = 1 => QueuedBuffers = {ActiveBuffer} /\ LastBuffer = ActiveBuffer
         /\ queued = 2 =>
              /\ Tensor.pipelined /\ ActiveBuffer = active /\ LastBuffer = 1 - active
              /\ QueuedBuffers = {active, 1 - active} /\ active # 1 - active
<1>1. queued # 0 => host \in Started
  BY DEF IInv, QueueInv, ControlTypes
<1>2. /\ queued \in 0 .. 2 /\ active \in {0, 1}
      /\ queued # 0 => queued \in 1 .. Depth /\ Tensor.pipelined \in BOOLEAN
  <2>1. host \in {"fill", "enqueue", "launch", "finish", "verify", "write"} => queued <= Depth /\ Depth \in 1 .. 2
    BY BufferFacts DEF IInv, QueueInv, ControlTypes, Started
  <2>2. queued # 0 => host \in {"fill", "enqueue", "launch", "finish", "verify", "write"}
    BY <1>1 DEF IInv, QueueInv, Started
  <2>. QED BY <1>1, <2>1, <2>2, TensorFacts DEF IInv, ControlTypes
<1>3. queued = 2 => Tensor.pipelined
  BY <1>2 DEF Depth
<1>. QED
  BY <1>1, <1>2, <1>3 DEF QueuedBuffers, ActiveBuffer, LastBuffer, Buffers, Plain

(* A chunk as it is filled. *)
LEMMA ChunkHolds ==
  ASSUME NEW cells, NEW number \in Nat, NEW first \in Nat, NEW count \in Nat, NEW slot,
         NEW form, slot.row = first, slot.count = count,
         cells = [i \in 1 .. count |-> [tensor |-> number, row |-> first + i - 1, form |-> form]]
  PROVE  Holds(cells, number, slot, {form})
<1>1. ASSUME NEW i \in 1 .. count
      PROVE  cells[i] \in CellsOf({form}) /\ cells[i].tensor = number /\ cells[i].row = first + i - 1
  <2>1. first + i - 1 \in Nat
    OBVIOUS
  <2>. QED BY <2>1 DEF CellsOf
<1>2. cells \in [1 .. count -> CellsOf({form})]
  BY <1>1
<1>3. cells \in Seq(CellsOf({form})) /\ Len(cells) = count
  BY <1>2, BlockIsSeq
<1>. QED BY <1>1, <1>3 DEF Holds

(* A chunk that is queued keeps its commands while its slot is left alone. *)
LEMMA SameCommands ==
  ASSUME NEW b, slots'[b] = slots[b]
  PROVE  Commands(b)' = Commands(b)
BY DEF Commands

LEMMA BeginData ==
  ASSUME IInv, DataInv, NEW t \in Shapes, Begin(t)
  PROVE  DataInv'
<1>1. /\ host = "pick" /\ queued = 0 /\ queued' = 0 /\ row' = 0
      /\ tensors' = Append(tensors, t)
      /\ host' = IF t.pipelined THEN "reserve" ELSE "fill"
      /\ UNCHANGED <<stream, file>>
      /\ hostIn' = [hostIn EXCEPT ![Plain] = <<>>]
      /\ hostOut' = [hostOut EXCEPT ![Plain] = <<>>]
  BY DEF Begin, devVars, IInv, QueueInv
<1>2. /\ tensors \in Seq(Shapes) /\ Len(tensors') = Len(tensors) + 1 /\ Tensor' = t
      /\ \A i \in 1 .. Len(tensors) : tensors'[i] = tensors[i]
  BY <1>1 DEF IInv, ControlTypes, Tensor
<1>3. t.rows \in Nat \ {0}
  BY PipelineAssumption
<1>4. stream = <<>> /\ Len(stream) = 0
  BY <1>1, NothingQueued
<1>5. QueuedBuffers' = {}
  BY <1>1 DEF QueuedBuffers
<1>6. FileInv'
  BY <1>1, <1>2 DEF DataInv, FileInv
<1>7. WrittenRows' = 0
  BY <1>1, <1>2 DEF DataInv, FileInv, WrittenRows
<1>8. RowsInv'
  BY <1>1, <1>2, <1>3, <1>5, <1>7 DEF RowsInv, NextOut
<1>9. OrderInv' /\ ContentInv'
  BY <1>1, <1>4, <1>5 DEF OrderInv, ContentInv, Older
<1>10. DataTypes'
  BY <1>1 DEF DataInv, DataTypes
<1>. QED BY <1>6, <1>8, <1>9, <1>10 DEF DataInv

LEMMA FinishData ==
  ASSUME IInv, DataInv, Finish
  PROVE  DataInv'
<1>1. /\ host = "pick" /\ host' = "closed" /\ queued = 0
      /\ UNCHANGED <<tensors, row, active, queued, slots, hostIn, hostOut, stream, file>>
  BY DEF Finish, devVars, bufVars, IInv, QueueInv
<1>2. stream = <<>> /\ Len(stream) = 0 /\ QueuedBuffers' = {}
  BY <1>1, NothingQueued DEF QueuedBuffers
<1>3. RowsInv'
  BY <1>1, <1>2 DEF DataInv, RowsInv, WrittenRows, NextOut, Tensor
<1>4. OrderInv' /\ ContentInv'
  BY <1>1, <1>2 DEF OrderInv, ContentInv, Older
<1>. QED BY <1>1, <1>3, <1>4 DEF DataInv, FileInv, DataTypes

LEMMA ReserveData ==
  ASSUME IInv, DataInv, Reserve
  PROVE  DataInv'
<1>1. /\ host = "reserve" /\ host' = "fill" /\ queued = 0
      /\ UNCHANGED <<tensors, row, active, queued, slots, stream, file>>
      /\ hostIn' = [hostIn EXCEPT ![0] = <<>>, ![1] = <<>>]
      /\ hostOut' = [hostOut EXCEPT ![0] = <<>>, ![1] = <<>>]
  BY DEF Reserve, IInv, QueueInv
<1>2. stream = <<>> /\ Len(stream) = 0 /\ QueuedBuffers' = {}
  BY <1>1, NothingQueued DEF QueuedBuffers
<1>3. RowsInv'
  BY <1>1, <1>2 DEF DataInv, RowsInv, WrittenRows, NextOut, Tensor
<1>4. OrderInv' /\ ContentInv'
  BY <1>1, <1>2 DEF OrderInv, ContentInv, Older
<1>. QED BY <1>1, <1>3, <1>4 DEF DataInv, FileInv, DataTypes

(* The buffer that is filled belongs to no chunk that is queued.           *)
LEMMA FillData ==
  ASSUME IInv, DataInv, Fill
  PROVE  DataInv'
<1>1. /\ host = "fill" /\ host' = "enqueue" /\ host \in Started
      /\ hostIn' = [hostIn EXCEPT ![FillBuffer] =
                     [i \in 1 .. NextCount |-> Cell(row + i - 1, "raw")]]
      /\ slots' = [slots EXCEPT ![FillBuffer] = [row |-> row, count |-> NextCount]]
      /\ UNCHANGED <<tensors, row, active, queued, hostOut, devIn, devOut, stream, file>>
  BY DEF Fill, devVars, Started
<1>2. /\ row \in Nat /\ row < Tensor.rows /\ Tensor.rows \in Nat /\ Tensor.chunk \in Nat \ {0}
      /\ FillBuffer \in Buffers /\ slots \in [Buffers -> [row : Nat, count : Nat]]
      /\ tensors # <<>> /\ queued \in 0 .. 2
  BY <1>1, TensorFacts, BufferFacts DEF IInv, ControlTypes, QueueInv
<1>3. NextCount \in 1 .. Tensor.rows - row
  BY <1>2 DEF NextCount
<1>4. /\ slots'[FillBuffer].row = row /\ slots'[FillBuffer].count = NextCount
      /\ \A b \in Buffers : b # FillBuffer => slots'[b] = slots[b] /\ hostIn'[b] = hostIn[b]
      /\ DOMAIN hostIn = Buffers
      /\ hostIn'[FillBuffer] = [i \in 1 .. NextCount |-> Cell(row + i - 1, "raw")]
  BY <1>1, <1>2 DEF DataInv, DataTypes
<1>5. /\ Tensor' = Tensor /\ FillBuffer' = FillBuffer /\ ActiveBuffer' = ActiveBuffer
      /\ LastBuffer' = LastBuffer /\ QueuedBuffers' = QueuedBuffers
      /\ Older' = Older /\ \A b : Left(b)' = Left(b)
  BY <1>1 DEF Tensor, FillBuffer, NextSlot, ActiveBuffer, LastBuffer, QueuedBuffers, Older, Left
<1>6. /\ QueuedBuffers \subseteq Buffers \ {FillBuffer}
      /\ queued # 0 => ActiveBuffer \in QueuedBuffers /\ LastBuffer \in QueuedBuffers
      /\ queued = 2 => ActiveBuffer = active /\ LastBuffer = 1 - active
  BY <1>1, FillBufferIsFree, QueuedFacts
<1>7. \A b \in QueuedBuffers :
        slots'[b] = slots[b] /\ hostIn'[b] = hostIn[b] /\ Commands(b)' = Commands(b)
  BY <1>4, <1>6, SameCommands
<1>8. RowsInv'
  <2>1. WrittenRows' = WrittenRows
    BY <1>1 DEF WrittenRows
  <2>2. NextOut' = NextOut
    BY <1>1, <1>5, <1>6, <1>7 DEF NextOut
  <2>3. queued = 2 => slots'[active] = slots[active] /\ slots'[1 - active] = slots[1 - active]
    BY <1>6, <1>7
  <2>. QED BY <1>1, <1>2, <1>3, <1>4, <1>5, <1>6, <1>7, <2>1, <2>2, <2>3 DEF DataInv, RowsInv
<1>9. OrderInv'
  <2>1. CASE queued = 0
    <3>1. Older = 0
      BY <1>1, <2>1, NothingQueued
    <3>. QED BY <1>1, <1>5, <2>1, <3>1 DEF OrderInv
  <2>2. CASE queued # 0
    <3>1. Commands(LastBuffer)' = Commands(LastBuffer) /\ Commands(ActiveBuffer)' = Commands(ActiveBuffer)
      BY <1>5, <1>6, <1>7, <2>2 DEF Commands
    <3>. QED BY <1>1, <1>5, <3>1 DEF DataInv, OrderInv
  <2>. QED BY <2>1, <2>2
<1>10. ContentInv'
  <2>1. \A b \in QueuedBuffers :
         /\ Left(b)' = 4 => Holds(hostIn'[b], Len(tensors'), slots'[b], {"raw"})
         /\ Left(b)' = 3 => Holds(devIn', Len(tensors'), slots'[b], {"raw"})
         /\ Left(b)' = 2 => Holds(devOut', Len(tensors'), slots'[b], CodedForms)
         /\ Left(b)' < 2 => Holds(hostOut'[b], Len(tensors'), slots'[b], CodedForms)
    BY <1>1, <1>5, <1>7 DEF DataInv, ContentInv
  <2>2. Holds(hostIn'[FillBuffer], Len(tensors'), slots'[FillBuffer], {"raw"})
    <3>1. hostIn'[FillBuffer] =
            [i \in 1 .. NextCount |-> [tensor |-> Len(tensors), row |-> row + i - 1, form |-> "raw"]]
      BY <1>4 DEF Cell
    <3>2. Len(tensors) \in Nat /\ row \in Nat /\ NextCount \in Nat
      BY <1>2, <1>3 DEF IInv, ControlTypes
    <3>3. slots'[FillBuffer].row = row /\ slots'[FillBuffer].count = NextCount
      BY <1>4
    <3>4. Holds(hostIn'[FillBuffer], Len(tensors), slots'[FillBuffer], {"raw"})
      BY <3>1, <3>2, <3>3, ChunkHolds
    <3>. QED BY <1>1, <3>4
  <2>. QED BY <1>1, <1>5, <2>1, <2>2 DEF ContentInv
<1>11. FileInv' /\ DataTypes'
  BY <1>1 DEF DataInv, FileInv, DataTypes
<1>. QED BY <1>8, <1>9, <1>10, <1>11 DEF DataInv

(* The rows of the new chunk wait in the host's buffer for the copy.       *)
LEMMA EnqueueData ==
  ASSUME IInv, DataInv, Enqueue
  PROVE  DataInv'
<1>1. /\ host = "enqueue" /\ host \in Started /\ host' = "launch"
      /\ capacity' = [capacity EXCEPT !.in = Room("in", slots[FillBuffer].count)]
      /\ devIn' = Kept(devIn, "in")
      /\ UNCHANGED <<tensors, row, active, queued, slots, hostIn, hostOut, devOut, file>>
  BY DEF Enqueue, Started, bufVars
<1>2. /\ Older' = Older /\ Older = Len(stream) /\ Older \in Nat /\ stream' # <<>>
      /\ \A i \in 1 .. Older : stream'[i] = stream[i]
  BY EnqueueStream
<1>3. /\ Tensor' = Tensor /\ ActiveBuffer' = ActiveBuffer /\ LastBuffer' = LastBuffer
      /\ FillBuffer' = FillBuffer
      /\ QueuedBuffers' = QueuedBuffers /\ WrittenRows' = WrittenRows /\ NextOut' = NextOut
      /\ \A b : Commands(b)' = Commands(b)
  BY <1>1 DEF Tensor, ActiveBuffer, LastBuffer, FillBuffer, NextSlot, QueuedBuffers, WrittenRows,
     NextOut, Commands
<1>4. \A b : Left(b)' = Left(b)
  BY <1>2, <1>3 DEF Left
<1>5. RowsInv'
  BY <1>1, <1>3 DEF DataInv, RowsInv
<1>6. OrderInv'
  BY <1>1, <1>2, <1>3 DEF DataInv, OrderInv
<1>7. ContentInv'
  <2>1. ASSUME NEW b \in QueuedBuffers PROVE devIn' = devIn
    <3>1. queued # 0 /\ queued < Depth
      BY <1>1, <2>1, QueuedFacts DEF IInv, QueueInv
    <3>2. Tensor.pipelined
      BY <1>1, <3>1 DEF IInv, ControlTypes, Depth
    <3>3. Room("in", slots[FillBuffer].count) = capacity["in"]
      BY <1>1, <3>2, NoGrowth
    <3>4. capacity \in [{"in", "out"} -> Nat]
      BY DEF IInv, ControlTypes
    <3>5. capacity' = capacity /\ capacity["in"] \in Nat
      BY <1>1, <3>3, <3>4
    <3>6. ~ (capacity'["in"] > capacity["in"])
      BY <3>5
    <3>7. devIn' = Kept(devIn, "in")
      BY <1>1
    <3>. QED BY <3>6, <3>7 DEF Kept
  <2>2. \A b \in QueuedBuffers :
         /\ Left(b) = 4 => Holds(hostIn[b], Len(tensors), slots[b], {"raw"})
         /\ Left(b) = 3 => Holds(devIn', Len(tensors), slots[b], {"raw"})
         /\ Left(b) = 2 => Holds(devOut, Len(tensors), slots[b], CodedForms)
         /\ Left(b) < 2 => Holds(hostOut[b], Len(tensors), slots[b], CodedForms)
    BY <1>1, <2>1 DEF DataInv, ContentInv
  <2>3. Holds(hostIn[FillBuffer], Len(tensors), slots[FillBuffer], {"raw"})
    BY <1>1 DEF DataInv, ContentInv
  <2>. QED BY <1>1, <1>2, <1>3, <1>4, <2>2, <2>3 DEF ContentInv
<1>8. FileInv' /\ DataTypes'
  BY <1>1 DEF DataInv, FileInv, DataTypes
<1>. QED BY <1>5, <1>6, <1>7, <1>8 DEF DataInv

(* What was under way keeps its place; the new chunk has all its commands  *)
(* to come, or all but the copy that the device is done with.              *)
LEMMA LaunchData ==
  ASSUME IInv, DataInv, Launch
  PROVE  DataInv'
<1>1. /\ host = "launch" /\ host \in Started
      /\ capacity' = [capacity EXCEPT !.out = Room("out", slots[FillBuffer].count)]
      /\ devOut' = Kept(devOut, "out")
      /\ row' = row + slots[FillBuffer].count
      /\ queued' = queued + 1
      /\ host' = IF queued + 1 = Depth \/ row' >= Tensor.rows THEN "finish" ELSE "fill"
      /\ UNCHANGED <<tensors, active, slots, hostIn, hostOut, devIn, file>>
  BY DEF Launch, Started, bufVars
<1>2. /\ queued \in {0, 1} /\ queued < Depth /\ Depth \in {1, 2}
      /\ FillBuffer \in Buffers /\ slots[FillBuffer].count \in Nat
      /\ row \in Nat /\ active \in {0, 1} /\ Tensor.rows \in Nat
      /\ Tensor.pipelined \in BOOLEAN
  <2>1. /\ host \in Started /\ host = "launch" /\ ControlTypes /\ QueueInv
    BY <1>1 DEF IInv
  <2>2. FillBuffer \in Buffers /\ Depth \in 1 .. 2 /\ queued < Depth /\ queued \in 0 .. 2
    BY <2>1, BufferFacts DEF ControlTypes, QueueInv
  <2>3. Tensor.rows \in Nat /\ Tensor.pipelined \in BOOLEAN
    BY <2>1, TensorFacts
  <2>. QED BY <2>1, <2>2, <2>3 DEF ControlTypes
<1>3. Older \in Nat
  BY LaunchStream
<1>5. /\ Len(stream') = IF stream = <<>> THEN Older + 3 ELSE Older + 4
      /\ stream = <<>> => Older = 0
      /\ Older' = Len(stream')
      /\ \A i \in 1 .. Older : stream'[i] = stream[i]
      /\ \A i \in Older + 1 .. Len(stream') :
           stream'[i] = Commands(FillBuffer)[4 - (Len(stream') - i)]
  BY LaunchStream
<1>6. /\ Tensor' = Tensor /\ ActiveBuffer' = ActiveBuffer
      /\ \A b : Commands(b)' = Commands(b)
  BY <1>1 DEF Tensor, ActiveBuffer, Commands
<1>7. /\ LastBuffer' = FillBuffer /\ FillBuffer \notin QueuedBuffers
      /\ queued = 0 => ActiveBuffer = FillBuffer
      /\ queued = 1 =>
           /\ Tensor.pipelined /\ QueuedBuffers = {ActiveBuffer} /\ LastBuffer = ActiveBuffer
           /\ FillBuffer = 1 - active /\ ActiveBuffer = active
      /\ QueuedBuffers' = QueuedBuffers \union {FillBuffer}
  <2>1. queued = 1 => Tensor.pipelined
    BY <1>2 DEF Depth
  <2>2. FillBuffer \notin QueuedBuffers
    BY <1>1, FillBufferIsFree
  <2>3. queued = 1 => QueuedBuffers = {ActiveBuffer} /\ LastBuffer = ActiveBuffer
    BY <1>1, QueuedFacts
  <2>4. queued = 0 => QueuedBuffers = {}
    BY <1>1, QueuedFacts
  <2>5. queued = 0 => ActiveBuffer = FillBuffer
    BY <1>2 DEF FillBuffer, NextSlot, ActiveBuffer
  <2>6. queued = 1 => FillBuffer = 1 - active /\ ActiveBuffer = active
    BY <2>1 DEF FillBuffer, NextSlot, ActiveBuffer
  <2>7. LastBuffer' = FillBuffer
    <3>1. LastBuffer' = IF queued + 1 = 2 THEN 1 - active ELSE ActiveBuffer
      BY <1>1, <1>6 DEF LastBuffer
    <3>. QED BY <1>2, <2>5, <2>6, <3>1
  <2>8. queued = 0 => QueuedBuffers' = {FillBuffer}
    BY <1>1, <1>2, <1>6, <2>5 DEF QueuedBuffers
  <2>9. queued = 1 => QueuedBuffers' = {ActiveBuffer, FillBuffer}
    BY <1>1, <1>2, <2>6 DEF QueuedBuffers, Buffers
  <2>. QED BY <1>2, <2>1, <2>2, <2>3, <2>4, <2>7, <2>5, <2>6, <2>8, <2>9
<1>8. queued = 0 => Older = 0
  BY <1>1, NothingQueued
<1>9. Older <= 4
  BY <1>1, <1>2, <1>8 DEF DataInv, OrderInv
<1>10. host' # "failed" /\ host' \notin {"verify", "write", "enqueue", "launch", "pick"}
  BY <1>1
<1>11. RowsInv'
  <2>1. WrittenRows' = WrittenRows
    BY <1>1 DEF WrittenRows
  <2>2. slots[FillBuffer].row = row /\ slots[FillBuffer].count \in 1 .. Tensor.rows - row
    BY <1>1 DEF DataInv, RowsInv
  <2>3. NextOut' = NextOut
    BY <1>1, <1>2, <1>6, <1>7, <2>2 DEF NextOut
  <2>4. queued = 1 => row = slots[active].row + slots[active].count
    BY <1>1, <1>7 DEF DataInv, RowsInv
  <2>5. queued' = 2 => slots'[1 - active'].row = slots'[active'].row + slots'[active'].count
    BY <1>1, <1>2, <1>7, <2>2, <2>4
  <2>6. row' = slots'[LastBuffer'].row + slots'[LastBuffer'].count
    BY <1>1, <1>7, <2>2
  <2>7. \A b \in QueuedBuffers' : slots'[b].count # 0
    BY <1>1, <1>2, <1>7, <2>2 DEF DataInv, RowsInv
  <2>8. row' <= Tensor'.rows
    BY <1>1, <1>2, <1>6, <2>2
  <2>. QED BY <1>1, <1>10, <2>1, <2>3, <2>5, <2>6, <2>7, <2>8 DEF DataInv, RowsInv
<1>12. OrderInv'
  <2>1. ASSUME NEW i \in 1 .. Older'
        PROVE  /\ i + 4 > Older' =>
                    stream'[i] = Commands(LastBuffer)'[4 - (Older' - i)]
               /\ i + 4 <= Older' =>
                    stream'[i] = Commands(ActiveBuffer)'[8 - (Older' - i)]
    <3>1. CASE i \in 1 .. Older
      <4>1. queued = 1 /\ ActiveBuffer = LastBuffer /\ stream # <<>>
        BY <1>2, <1>5, <1>7, <1>8, <3>1
      <4>2. stream[i] = Commands(LastBuffer)[4 - (Older - i)]
        BY <1>1, <1>3, <1>9, <3>1, SMTT(30) DEF DataInv, OrderInv
      <4>3. 8 - (Older' - i) = 4 - (Older - i) /\ i + 4 <= Older'
        BY <1>3, <1>5, <3>1, <4>1
      <4>4. stream'[i] = Commands(ActiveBuffer)[4 - (Older - i)]
        BY <1>5, <3>1, <4>1, <4>2
      <4>5. stream'[i] = Commands(ActiveBuffer)'[8 - (Older' - i)]
        BY <1>6, <4>3, <4>4
      <4>. QED BY <1>3, <1>5, <3>1, <4>3, <4>5
    <3>2. CASE i \in Older + 1 .. Len(stream')
      <4>1. stream'[i] = Commands(FillBuffer)[4 - (Older' - i)]
        BY <1>5, <3>2
      <4>2. i + 4 > Older'
        BY <1>3, <1>5, <3>2
      <4>3. Commands(LastBuffer)' = Commands(FillBuffer)
        BY <1>1, <1>7 DEF Commands
      <4>. QED BY <1>3, <1>5, <3>2, <4>1, <4>2, <4>3
    <3>3. i \in 1 .. Older \/ i \in Older + 1 .. Len(stream')
      BY <1>3, <1>5
    <3>. QED BY <3>1, <3>2, <3>3
  <2>2. Older' <= 4 * queued'
    BY <1>1, <1>2, <1>3, <1>5, <1>8, <1>9
  <2>. QED BY <1>10, <2>1, <2>2 DEF OrderInv
<1>13. ContentInv'
  <2>1. FillBuffer = LastBuffer' /\ Older' \in Nat
    BY <1>3, <1>5, <1>7
  <2>2. /\ stream # <<>> => Holds(hostIn'[FillBuffer], Len(tensors'), slots'[FillBuffer], {"raw"})
        /\ stream = <<>> => Holds(devIn', Len(tensors'), slots'[FillBuffer], {"raw"})
    BY <1>1 DEF DataInv, ContentInv
  <2>3. ASSUME queued = 1
        PROVE  devOut' = devOut
    <3>1. Room("out", slots[FillBuffer].count) = capacity["out"]
      BY <1>1, <1>7, <2>3, NoGrowth
    <3>2. capacity \in [{"in", "out"} -> Nat]
      BY DEF IInv, ControlTypes
    <3>3. capacity' = capacity /\ capacity["out"] \in Nat
      BY <1>1, <3>1, <3>2
    <3>6. ~ (capacity'["out"] > capacity["out"])
      BY <3>3
    <3>7. devOut' = Kept(devOut, "out")
      BY <1>1
    <3>. QED BY <3>6, <3>7 DEF Kept
  <2>4. ASSUME NEW b \in QueuedBuffers'
        PROVE  /\ Left(b)' = 4 => Holds(hostIn'[b], Len(tensors'), slots'[b], {"raw"})
               /\ Left(b)' = 3 => Holds(devIn', Len(tensors'), slots'[b], {"raw"})
               /\ Left(b)' = 2 => Holds(devOut', Len(tensors'), slots'[b], CodedForms)
               /\ Left(b)' < 2 => Holds(hostOut'[b], Len(tensors'), slots'[b], CodedForms)
    <3>1. CASE b = FillBuffer
      <4>1. Left(b)' = IF stream = <<>> THEN 3 ELSE 4
        BY <1>3, <1>5, <2>1, <3>1 DEF Left
      <4>. QED BY <2>2, <3>1, <4>1
    <3>2. CASE queued = 1 /\ b = ActiveBuffer
      <4>1. devIn' = devIn /\ devOut' = devOut
        BY <1>1, <2>3, <3>2
      <4>2. b \in QueuedBuffers /\ b = LastBuffer /\ b # LastBuffer'
        BY <1>7, <3>2
      <4>3. Left(b)' = Left(b)
        <5>1. Left(b) = IF Older < 4 THEN Older ELSE 4
          BY <4>2 DEF Left
        <5>2. Left(b)' = IF Older' > 4 THEN Older' - 4 ELSE 0
          BY <4>2 DEF Left
        <5>. QED BY <1>3, <1>5, <1>9, <5>1, <5>2
      <4>. QED BY <1>1, <4>1, <4>2, <4>3 DEF DataInv, ContentInv
    <3>. QED BY <1>1, <1>2, <1>7, <3>1, <3>2, QueuedFacts
  <2>. QED BY <1>10, <2>4 DEF ContentInv
<1>14. FileInv' /\ DataTypes'
  BY <1>1 DEF DataInv, FileInv, DataTypes
<1>. QED BY <1>11, <1>12, <1>13, <1>14 DEF DataInv

(* The event of the active chunk has passed: nothing of it is left.        *)
LEMMA FinishChunkData ==
  ASSUME IInv, DataInv, FinishChunk
  PROVE  DataInv'
<1>1. /\ host = "finish" /\ host \in Started /\ EventReached(ActiveBuffer)
      /\ host' = IF Tensor.verified THEN "verify" ELSE "write"
      /\ UNCHANGED <<tensors, row, active, queued, slots, hostIn, hostOut, devIn, devOut,
                     stream, file>>
  BY DEF FinishChunk, devVars, bufVars, Started
<1>2. /\ Tensor' = Tensor /\ ActiveBuffer' = ActiveBuffer /\ LastBuffer' = LastBuffer
      /\ QueuedBuffers' = QueuedBuffers /\ WrittenRows' = WrittenRows /\ NextOut' = NextOut
      /\ Older' = Older /\ Older = Len(stream)
      /\ \A b : Left(b)' = Left(b) /\ Commands(b)' = Commands(b)
  BY <1>1 DEF Tensor, ActiveBuffer, LastBuffer, QueuedBuffers, WrittenRows, NextOut, Older, Left,
     Commands
<1>3. /\ queued \in {1, 2} /\ stream \in Seq(CommandSet) /\ Len(stream) \in Nat
      /\ Len(stream) <= 4 * queued
  BY <1>1, <1>2, BufferFacts DEF IInv, ControlTypes, QueueInv, DataInv, OrderInv
<1>4. Len(stream) <= 4 * (queued - 1)
  <2>1. SUFFICES ASSUME Len(stream) > 4 * (queued - 1) PROVE FALSE
    BY <1>3
  <2>2. ActiveBuffer \in Buffers /\ Commands(ActiveBuffer)[4].do = "event"
        /\ Commands(ActiveBuffer)[4].buffer = ActiveBuffer
    BY <1>1, BufferFacts, CommandFacts DEF IInv
  <2>3. CASE queued = 1
    <3>1. Len(stream) \in 1 .. Len(stream) /\ LastBuffer = ActiveBuffer
      BY <1>1, <1>3, <2>1, <2>3, QueuedFacts
    <3>2. stream[Len(stream)] = Commands(ActiveBuffer)[4 - (Len(stream) - Len(stream))]
      BY <1>1, <1>2, <1>3, <3>1 DEF DataInv, OrderInv
    <3>3. stream[Len(stream)] = Commands(ActiveBuffer)[4]
      BY <1>3, <3>2
    <3>. QED BY <1>1, <1>3, <2>2, <3>1, <3>3 DEF EventReached
  <2>4. CASE queued = 2
    <3>1. PICK k \in 1 .. Len(stream) : k = Len(stream) - 4
      BY <1>3, <2>1, <2>4
    <3>2. stream[k] = Commands(ActiveBuffer)[8 - (Len(stream) - k)] /\ 8 - (Len(stream) - k) = 4
      BY <1>1, <1>2, <1>3, <3>1 DEF DataInv, OrderInv
    <3>. QED BY <1>1, <1>3, <2>2, <3>1, <3>2 DEF EventReached
  <2>. QED BY <1>3, <2>3, <2>4
<1>5. RowsInv'
  BY <1>1, <1>2 DEF DataInv, RowsInv
<1>6. OrderInv'
  BY <1>1, <1>2, <1>4 DEF DataInv, OrderInv
<1>7. ContentInv'
  <2>1. ~ (host' = "write" /\ Tensor'.verified) /\ host' \notin {"enqueue", "launch", "failed"}
    BY <1>1, <1>2, TensorFacts DEF IInv
  <2>. QED BY <1>1, <1>2, <2>1 DEF DataInv, ContentInv
<1>8. FileInv' /\ DataTypes'
  BY <1>1 DEF DataInv, FileInv, DataTypes
<1>. QED BY <1>5, <1>6, <1>7, <1>8 DEF DataInv

(* The plain path has one chunk under way, and it is in its own buffer.    *)
LEMMA ActiveIsBack ==
  ASSUME IInv, DataInv, host \in {"verify", "write"}
  PROVE  /\ ActiveBuffer \in QueuedBuffers
         /\ Holds(hostOut[ActiveBuffer], Len(tensors), slots[ActiveBuffer], CodedForms)
         /\ Tensor.verified => ActiveBuffer = Plain
         /\ queued \in {1, 2} /\ Len(stream) <= 4 * (queued - 1) /\ Len(stream) \in Nat
<1>0. Older = Len(stream)
  BY DEF Older
<1>1. queued \in {1, 2} /\ Len(stream) <= 4 * (queued - 1) /\ Len(stream) \in Nat
  BY <1>0, BufferFacts DEF IInv, ControlTypes, QueueInv, Started, DataInv, OrderInv
<1>2. ActiveBuffer \in QueuedBuffers
  BY <1>1, QueuedFacts
<1>3. Left(ActiveBuffer) < 2
  BY <1>0, <1>1, QueuedFacts DEF Left
<1>4. Tensor.verified => ActiveBuffer = Plain
  <2>1. Tensor \in Shapes
    BY TensorFacts DEF IInv, Started
  <2>. QED BY <2>1, PipelineAssumption DEF ActiveBuffer
<1>. QED BY <1>1, <1>2, <1>3, <1>4 DEF DataInv, ContentInv

LEMMA VerifyData ==
  ASSUME IInv, DataInv, Verify
  PROVE  DataInv'
<1>1. /\ host = "verify" /\ host' = IF Matches(hostOut[Plain]) THEN "write" ELSE "failed"
      /\ UNCHANGED <<tensors, row, active, queued, slots, hostIn, hostOut, devIn, devOut,
                     stream, file>>
  BY DEF Verify, devVars, bufVars
<1>2. /\ Tensor' = Tensor /\ ActiveBuffer' = ActiveBuffer /\ LastBuffer' = LastBuffer
      /\ QueuedBuffers' = QueuedBuffers /\ WrittenRows' = WrittenRows /\ NextOut' = NextOut
      /\ Older' = Older /\ Older = Len(stream)
      /\ \A b : Left(b)' = Left(b) /\ Commands(b)' = Commands(b)
  BY <1>1 DEF Tensor, ActiveBuffer, LastBuffer, QueuedBuffers, WrittenRows, NextOut, Older, Left,
     Commands
<1>3. RowsInv' /\ OrderInv'
  BY <1>1, <1>2 DEF DataInv, RowsInv, OrderInv
<1>4. ContentInv'
  <2>1. ASSUME host' = "write", Tensor.verified
        PROVE  Holds(hostOut[Plain], Len(tensors), slots[Plain], {"encoded"})
    <3>1. /\ Holds(hostOut[Plain], Len(tensors), slots[Plain], CodedForms)
          /\ Matches(hostOut[Plain])
      BY <1>1, <2>1, ActiveIsBack
    <3>2. PICK cells \in Seq(CellsOf(CodedForms)) : cells = hostOut[Plain]
      BY <3>1 DEF Holds
    <3>3. \A i \in 1 .. Len(cells) : cells[i] \in CellsOf({"encoded"})
      <4>1. ASSUME NEW i \in 1 .. Len(cells)
            PROVE  cells[i] \in CellsOf({"encoded"})
        <5>1. cells[i] \in CellsOf(CodedForms) /\ i \in DOMAIN cells
          OBVIOUS
        <5>2. cells[i].form = "encoded"
          BY <3>1, <3>2, <5>1 DEF Matches
        <5>. QED BY <5>1, <5>2 DEF CellsOf
      <4>. QED BY <4>1
    <3>4. cells \in Seq(CellsOf({"encoded"}))
      BY <3>3
    <3>. QED BY <3>1, <3>2, <3>4 DEF Holds
  <2>. QED BY <1>1, <1>2, <2>1 DEF DataInv, ContentInv
<1>5. FileInv' /\ DataTypes'
  BY <1>1 DEF DataInv, FileInv, DataTypes
<1>. QED BY <1>3, <1>4, <1>5 DEF DataInv

(* What write_all_file finds are the rows of the active chunk, encoded.    *)
LEMMA OutputFacts ==
  ASSUME IInv, DataInv, host = "write"
  PROVE  LET out == OutputOf(ActiveBuffer)
             slot == slots[ActiveBuffer]
         IN  /\ out \in Seq(CellsOf(CodedForms))
             /\ Len(out) = slot.count /\ slot.count \in Nat \ {0} /\ slot.row \in Nat
             /\ \A i \in 1 .. slot.count :
                  /\ out[i].tensor = Len(tensors) /\ out[i].row = slot.row + i - 1
                  /\ Tensor.verified => out[i].form = "encoded"
<1>. DEFINE out == OutputOf(ActiveBuffer)
            slot == slots[ActiveBuffer]
<1>1. /\ ActiveBuffer \in QueuedBuffers /\ ActiveBuffer \in Buffers
      /\ Holds(hostOut[ActiveBuffer], Len(tensors), slot, CodedForms)
      /\ Tensor.verified => ActiveBuffer = Plain
  BY ActiveIsBack, QueuedFacts
<1>2. /\ slots \in [Buffers -> [row : Nat, count : Nat]]
      /\ slot.count # 0
  BY <1>1 DEF IInv, ControlTypes, DataInv, RowsInv
<1>3. slot.count \in Nat \ {0} /\ slot.row \in Nat
  BY <1>1, <1>2
<1>4. PICK cells \in Seq(CellsOf(CodedForms)) :
        /\ cells = hostOut[ActiveBuffer] /\ Len(cells) = slot.count
        /\ \A i \in 1 .. slot.count : cells[i].tensor = Len(tensors) /\ cells[i].row = slot.row + i - 1
  BY <1>1 DEF Holds
<1>5. out = [i \in 1 .. slot.count |-> cells[i]]
  BY <1>3, <1>4 DEF OutputOf, FirstCells
<1>6. \A i \in 1 .. slot.count : out[i] = cells[i] /\ cells[i] \in CellsOf(CodedForms)
  BY <1>3, <1>4, <1>5
<1>7. out \in [1 .. slot.count -> CellsOf(CodedForms)]
  BY <1>5, <1>6
<1>8. out \in Seq(CellsOf(CodedForms)) /\ Len(out) = slot.count
  BY <1>3, <1>7, BlockIsSeq
<1>9. ASSUME Tensor.verified, NEW i \in 1 .. slot.count
      PROVE  out[i].form = "encoded"
  <2>1. Holds(hostOut[Plain], Len(tensors), slots[Plain], {"encoded"}) /\ ActiveBuffer = Plain
    BY <1>1, <1>9 DEF DataInv, ContentInv
  <2>2. cells \in Seq(CellsOf({"encoded"})) /\ Len(cells) = slot.count
    BY <1>4, <2>1 DEF Holds
  <2>3. cells[i] \in CellsOf({"encoded"})
    BY <2>2
  <2>. QED BY <1>6, <2>3 DEF CellsOf
<1>. QED BY <1>3, <1>4, <1>6, <1>8, <1>9

(* The rows of the active chunk come right behind what is in the file, and *)
(* the other chunk, if there is one, comes right behind them.              *)
LEMMA WriteData ==
  ASSUME IInv, DataInv, Write
  PROVE  DataInv'
<1>. DEFINE out == OutputOf(ActiveBuffer)
            slot == slots[ActiveBuffer]
<1>1. /\ host = "write" /\ host \in Started
      /\ file' = file \o out
      /\ active' = IF queued > 1 THEN 1 - active ELSE active
      /\ queued' = queued - 1
      /\ host' = AfterWrite
      /\ UNCHANGED <<tensors, row, slots, hostIn, hostOut, devIn, devOut, stream>>
  BY DEF Write, devVars, bufVars, Started
<1>2. /\ out \in Seq(CellsOf(CodedForms))
      /\ Len(out) = slot.count /\ slot.count \in Nat \ {0} /\ slot.row \in Nat
      /\ \A i \in 1 .. slot.count :
           /\ out[i].tensor = Len(tensors) /\ out[i].row = slot.row + i - 1
           /\ Tensor.verified => out[i].form = "encoded"
  BY <1>1, OutputFacts
<1>3. /\ queued \in {1, 2} /\ active \in {0, 1} /\ row \in Nat /\ Tensor.rows \in Nat
      /\ Len(stream) <= 4 * (queued - 1) /\ Len(stream) \in Nat
      /\ tensors \in Seq(Shapes) /\ tensors # <<>>
  BY <1>1, ActiveIsBack, TensorFacts DEF IInv, ControlTypes
<1>4. /\ Tensor' = Tensor /\ Older = Len(stream) /\ Older' = Len(stream)
      /\ \A b : Commands(b)' = Commands(b)
  <2>1. host' # "launch"
    BY <1>1 DEF AfterWrite
  <2>. QED BY <1>1, <2>1 DEF Tensor, Older, Commands
<1>5. /\ host' \in {"fill", "finish", "pick"}
      /\ host' = "pick" => row >= Tensor.rows /\ queued = 1
  BY <1>1, <1>3 DEF AfterWrite
<1>6. queued = 1 =>
        /\ QueuedBuffers' = {} /\ queued' = 0 /\ Len(stream) = 0
        /\ row = slot.row + slot.count
  <2>1. ASSUME queued = 1
        PROVE  QueuedBuffers' = {} /\ queued' = 0 /\ Len(stream) = 0
    BY <1>1, <1>3, <2>1 DEF QueuedBuffers
  <2>2. ASSUME queued = 1
        PROVE  row = slot.row + slot.count
    BY <1>1, <2>2, QueuedFacts DEF DataInv, RowsInv
  <2>. QED BY <2>1, <2>2
<1>7. queued = 2 =>
        /\ queued' = 1 /\ Tensor.pipelined /\ active' = 1 - active
        /\ ActiveBuffer = active /\ LastBuffer = 1 - active /\ active # 1 - active
        /\ ActiveBuffer' = 1 - active /\ LastBuffer' = 1 - active
        /\ QueuedBuffers' = {1 - active} /\ QueuedBuffers = {active, 1 - active}
        /\ slots[1 - active].row = slot.row + slot.count
        /\ row = slots[1 - active].row + slots[1 - active].count
  <2>1. ASSUME queued = 2
        PROVE  /\ queued' = 1 /\ Tensor.pipelined /\ active' = 1 - active
               /\ ActiveBuffer = active /\ LastBuffer = 1 - active /\ active # 1 - active
               /\ QueuedBuffers = {active, 1 - active}
    BY <1>1, <1>3, <2>1, QueuedFacts
  <2>2. ASSUME queued = 2
        PROVE  ActiveBuffer' = 1 - active /\ LastBuffer' = 1 - active
    BY <1>4, <2>1, <2>2 DEF ActiveBuffer, LastBuffer
  <2>3. ASSUME queued = 2
        PROVE  QueuedBuffers' = {1 - active}
    BY <1>3, <2>1, <2>2, <2>3 DEF QueuedBuffers, Buffers
  <2>4. ASSUME queued = 2
        PROVE  /\ slots[1 - active].row = slot.row + slot.count
               /\ row = slots[1 - active].row + slots[1 - active].count
    BY <1>1, <2>1, <2>4 DEF DataInv, RowsInv
  <2>. QED BY <2>1, <2>2, <2>3, <2>4
<1>8. /\ Len(file') = Len(file) + Len(out) /\ Len(file) \in Nat
      /\ file' \in Seq(CellsOf(CodedForms))
      /\ \A i \in 1 .. Len(file) : file'[i] = file[i]
      /\ \A i \in 1 .. Len(out) : file'[Len(file) + i] = out[i]
  <2>1. file \in Seq(CellsOf(CodedForms)) /\ out \in Seq(CellsOf(CodedForms))
    BY <1>2 DEF DataInv, FileInv
  <2>2. PICK S : S = CellsOf(CodedForms)
    OBVIOUS
  <2>3. file \in Seq(S) /\ out \in Seq(S)
    BY <2>1, <2>2
  <2>. HIDE DEF out
  <2>4. /\ Len(file \o out) = Len(file) + Len(out) /\ Len(file) \in Nat /\ file \o out \in Seq(S)
        /\ \A i \in 1 .. Len(file) : (file \o out)[i] = file[i]
    BY ONLY <2>3
  <2>5. \A i \in 1 .. Len(out) : (file \o out)[Len(file) + i] = out[i]
    BY ONLY <2>3
  <2>6. file' = file \o out
    BY <1>1
  <2>. QED BY ONLY <2>2, <2>4, <2>5, <2>6
<1>. HIDE DEF out
<1>9. FileInv'
  <2>1. ASSUME NEW i \in 1 .. Len(file')
        PROVE  /\ file'[i].tensor \in 1 .. Len(tensors)
               /\ tensors[file'[i].tensor].verified => file'[i].form = "encoded"
    <3>1. CASE i \in 1 .. Len(file)
      BY <1>8, <3>1 DEF DataInv, FileInv
    <3>2. CASE i \notin 1 .. Len(file)
      <4>1. PICK k \in 1 .. slot.count : i = Len(file) + k
        <5>1. i - Len(file) \in 1 .. slot.count /\ i = Len(file) + (i - Len(file))
          BY <1>2, <1>8, <3>2
        <5>. QED BY <5>1
      <4>2. file'[i] = out[k]
        BY <1>2, <1>8, <4>1
      <4>3. Len(tensors) \in 1 .. Len(tensors)
        BY <1>3
      <4>. QED BY <1>2, <4>2, <4>3 DEF Tensor
    <3>. QED BY <3>1, <3>2
  <2>. QED BY <1>1, <1>8, <2>1 DEF FileInv
<1>10. WrittenRows' = slot.row + slot.count
  <2>1. Len(file') = Len(file) + slot.count /\ file'[Len(file')] = out[slot.count]
    BY <1>2, <1>8, SMTT(30)
  <2>2. file' # <<>>
    BY <1>2, <1>8, <2>1
  <2>3. out[slot.count].tensor = Len(tensors) /\ out[slot.count].row = slot.row + slot.count - 1
    BY <1>2
  <2>4. /\ file'[Len(file')].tensor = Len(tensors')
        /\ file'[Len(file')].row = slot.row + slot.count - 1
    BY <1>1, <2>1, <2>3
  <2>5. (slot.row + slot.count - 1) + 1 = slot.row + slot.count
    <3>1. slot.row \in Nat /\ slot.count \in Nat
      BY <1>2
    <3>2. \A m, n \in Nat : (m + n - 1) + 1 = m + n
      OBVIOUS
    <3>. QED BY ONLY <3>1, <3>2
  <2>6. WrittenRows' = file'[Len(file')].row + 1
    BY <2>2, <2>4 DEF WrittenRows
  <2>. QED BY <2>4, <2>5, <2>6
<1>11. NextOut' = slot.row + slot.count
  <2>1. CASE queued = 1
    BY <1>1, <1>6, <2>1 DEF NextOut
  <2>2. CASE queued = 2
    BY <1>1, <1>7, <2>2 DEF NextOut
  <2>. QED BY <1>3, <2>1, <2>2
<1>12. RowsInv'
  <2>1. row <= Tensor.rows
    BY <1>1, <1>3 DEF DataInv, RowsInv
  <2>2. host' = "pick" => row = Tensor.rows
    BY <1>3, <1>5, <2>1
  <2>3. \A b \in QueuedBuffers' : slots'[b].count # 0
    <3>1. QueuedBuffers' \subseteq QueuedBuffers
      BY <1>3, <1>6, <1>7
    <3>. QED BY <1>1, <3>1 DEF DataInv, RowsInv
  <2>4. queued' # 0 => row' = slots'[LastBuffer'].row + slots'[LastBuffer'].count
    BY <1>1, <1>3, <1>6, <1>7
  <2>5. queued' # 2 /\ host' \notin {"enqueue", "launch"}
    BY <1>1, <1>3, <1>5
  <2>. QED BY <1>1, <1>4, <1>10, <1>11, <2>1, <2>2, <2>3, <2>4, <2>5 DEF RowsInv
<1>13. OrderInv'
  <2>1. CASE queued = 1
    BY <1>1, <1>4, <1>5, <1>6, <2>1 DEF OrderInv
  <2>2. CASE queued = 2
    <3>1. Len(stream) <= 4 /\ Len(stream) \in Nat /\ LastBuffer' = LastBuffer
      BY <1>3, <1>7, <2>2
    <3>2. \A i \in 1 .. Len(stream) : stream[i] = Commands(LastBuffer)[4 - (Len(stream) - i)]
      BY <1>1, <1>4, <3>1, SMTT(30) DEF DataInv, OrderInv
    <3>3. \A i \in 1 .. Len(stream) : i + 4 > Len(stream)
      BY <3>1
    <3>4. Commands(LastBuffer)' = Commands(LastBuffer)
      BY <1>1, <3>1 DEF Commands
    <3>. QED BY <1>1, <1>5, <1>4, <1>7, <2>2, <3>1, <3>2, <3>3, <3>4 DEF OrderInv
  <2>. QED BY <1>3, <2>1, <2>2
<1>14. ContentInv'
  <2>1. CASE queued = 1
    BY <1>5, <1>6, <2>1 DEF ContentInv
  <2>2. CASE queued = 2
    <3>1. LastBuffer' = LastBuffer /\ LastBuffer \in QueuedBuffers /\ QueuedBuffers' = {LastBuffer}
      BY <1>7, <2>2
    <3>2. Left(LastBuffer)' = Left(LastBuffer)
      BY <1>1, <1>4, <3>1 DEF Left
    <3>. QED BY <1>1, <1>5, <3>1, <3>2 DEF DataInv, ContentInv
  <2>. QED BY <1>3, <2>1, <2>2
<1>15. DataTypes'
  BY <1>1 DEF DataInv, DataTypes
<1>. QED BY <1>9, <1>12, <1>13, <1>14, <1>15 DEF DataInv

LEMMA FailData ==
  ASSUME IInv, DataInv, Fail
  PROVE  DataInv'
<1>1. host' = "failed" /\ UNCHANGED <<tensors, hostIn, hostOut, file>>
  BY DEF Fail, bufVars
<1>2. RowsInv' /\ OrderInv' /\ ContentInv'
  BY <1>1 DEF RowsInv, OrderInv, ContentInv
<1>. QED BY <1>1, <1>2 DEF DataInv, FileInv, DataTypes

(* The device copies a chunk, or encodes it. *)
LEMMA CopyHolds ==
  ASSUME NEW cells, NEW number, NEW slot, NEW forms, slot.count \in Nat,
         Holds(cells, number, slot, forms)
  PROVE  Holds(FirstCells(cells, slot.count), number, slot, forms)
<1>1. PICK held \in Seq(CellsOf(forms)) : held = cells /\ Len(held) = slot.count
  BY DEF Holds
<1>2. FirstCells(cells, slot.count) = [i \in 1 .. slot.count |-> held[i]]
  BY <1>1 DEF FirstCells
<1>3. \A i \in 1 .. slot.count : held[i] \in CellsOf(forms)
  BY <1>1
<1>4. FirstCells(cells, slot.count) \in [1 .. slot.count -> CellsOf(forms)]
  BY <1>2, <1>3
<1>5. /\ FirstCells(cells, slot.count) \in Seq(CellsOf(forms))
      /\ Len(FirstCells(cells, slot.count)) = slot.count
  BY <1>4, BlockIsSeq
<1>6. \A i \in 1 .. slot.count : FirstCells(cells, slot.count)[i] = cells[i]
  BY <1>1, <1>2
<1>. QED BY <1>5, <1>6 DEF Holds

LEMMA QuantizeHolds ==
  ASSUME NEW number, NEW slot, slot.count \in Nat, NEW bad,
         Holds(devIn, number, slot, {"raw"})
  PROVE  Holds([i \in 1 .. slot.count |-> Encoded(i, bad)], number, slot, CodedForms)
<1>. DEFINE made == [i \in 1 .. slot.count |-> Encoded(i, bad)]
<1>1. PICK held \in Seq(CellsOf({"raw"})) : held = devIn /\ Len(held) = slot.count
  BY DEF Holds
<1>2. ASSUME NEW i \in 1 .. slot.count
      PROVE  /\ made[i] \in CellsOf(CodedForms)
             /\ made[i].tensor = devIn[i].tensor /\ made[i].row = devIn[i].row
  <2>1. made[i] = [held[i] EXCEPT !.form = IF i \in bad THEN "wrong" ELSE "encoded"]
    BY <1>1 DEF Encoded
  <2>2. held[i] \in CellsOf({"raw"})
    BY <1>1
  <2>3. (IF i \in bad THEN "wrong" ELSE "encoded") \in CodedForms
    BY DEF CodedForms
  <2>. QED BY <1>1, <2>1, <2>2, <2>3 DEF CellsOf
<1>3. made \in [1 .. slot.count -> CellsOf(CodedForms)]
  BY <1>2
<1>4. made \in Seq(CellsOf(CodedForms)) /\ Len(made) = slot.count
  BY <1>3, BlockIsSeq
<1>5. \A i \in 1 .. slot.count : made[i].tensor = number /\ made[i].row = slot.row + i - 1
  BY <1>2 DEF Holds
<1>. HIDE DEF made
<1>6. Holds(made, number, slot, CodedForms)
  BY <1>4, <1>5 DEF Holds
<1>. QED BY <1>6 DEF made

(* The next command belongs to the oldest chunk that is not done; it is    *)
(* its next one, and no other chunk is half done.                          *)
Oldest == IF Older > 4 THEN ActiveBuffer ELSE LastBuffer

LEMMA NextCommand ==
  ASSUME IInv, DataInv, host # "failed", Older # 0
  PROVE  /\ Oldest \in QueuedBuffers /\ Oldest \in Buffers
         /\ Left(Oldest) \in 1 .. 4
         /\ Command = Commands(Oldest)[5 - Left(Oldest)]
         /\ \A b \in QueuedBuffers \ {Oldest} : Left(b) \in {0, 4}
<1>1. /\ Older \in Nat \ {0}
      /\ queued \in 0 .. 2 /\ Older <= 4 * queued /\ queued # 0
      /\ Command = stream[1]
  BY NothingQueued, OlderFacts DEF IInv, ControlTypes, DataInv, OrderInv, Command
<1>2. PICK left \in Nat \ {0} : left = Older /\ left <= 4 * queued
  BY <1>1
<1>3. CASE Older > 4
  <2>1. queued = 2 /\ Oldest = ActiveBuffer
    BY <1>1, <1>3 DEF Oldest
  <2>2. /\ ActiveBuffer # LastBuffer /\ QueuedBuffers = {ActiveBuffer, LastBuffer}
        /\ QueuedBuffers \subseteq Buffers
    BY <2>1, QueuedFacts
  <2>3. Left(ActiveBuffer) = Older - 4 /\ Left(LastBuffer) = 4
    BY <1>1, <1>3, <2>2 DEF Left
  <2>4. stream[1] = Commands(ActiveBuffer)[8 - (Older - 1)]
    BY <1>1, <1>3 DEF DataInv, OrderInv
  <2>5. 8 - (left - 1) = 5 - (left - 4) /\ left - 4 \in 1 .. 4
    <3>1. left \in Nat /\ left > 4 /\ left <= 8
      BY <1>2, <1>3, <2>1
    <3>2. \A n \in Nat : n > 4 /\ n <= 8 => 8 - (n - 1) = 5 - (n - 4) /\ n - 4 \in 1 .. 4
      OBVIOUS
    <3>. QED BY ONLY <3>1, <3>2
  <2>. QED BY <1>1, <1>2, <2>1, <2>2, <2>3, <2>4, <2>5
<1>4. CASE Older <= 4
  <2>1. /\ Oldest = LastBuffer /\ LastBuffer \in QueuedBuffers
        /\ QueuedBuffers \subseteq Buffers
    BY <1>1, <1>4, QueuedFacts DEF Oldest
  <2>2. Left(LastBuffer) = Older /\ \A b : b # LastBuffer => Left(b) = 0
    BY <1>2, <1>4 DEF Left
  <2>3. stream[1] = Commands(LastBuffer)[4 - (Older - 1)]
    BY <1>1, <1>4 DEF DataInv, OrderInv
  <2>4. 4 - (left - 1) = 5 - left /\ left \in 1 .. 4
    <3>1. left \in Nat \ {0} /\ left <= 4
      BY <1>2, <1>4
    <3>2. \A n \in Nat \ {0} : n <= 4 => 4 - (n - 1) = 5 - n /\ n \in 1 .. 4
      OBVIOUS
    <3>. QED BY ONLY <3>1, <3>2
  <2>. QED BY <1>1, <1>2, <2>1, <2>2, <2>3, <2>4
<1>. QED BY <1>1, <1>3, <1>4

LEMMA CommandSteps ==
  ASSUME IInv, DataInv, host # "failed", Older # 0
  PROVE  /\ Command.buffer = Oldest /\ Command.count = slots[Oldest].count
         /\ Command.do = "h2d" => Left(Oldest) = 4
         /\ Command.do = "quantize" => Left(Oldest) = 3
         /\ Command.do = "d2h" => Left(Oldest) = 2
         /\ Command.do = "event" => Left(Oldest) = 1
<1>1. PICK k \in 1 .. 4 : k = 5 - Left(Oldest) /\ Command = Commands(Oldest)[k]
  <2>1. 5 - Left(Oldest) \in 1 .. 4
    BY NextCommand
  <2>. QED BY <2>1, NextCommand
<1>2. Command = [do |-> <<"h2d", "quantize", "d2h", "event">>[k], buffer |-> Oldest,
                 count |-> slots[Oldest].count]
  BY <1>1 DEF Commands
<1>3. Left(Oldest) = 5 - k /\ (k = 1 \/ k = 2 \/ k = 3 \/ k = 4)
  BY <1>1, NextCommand
<1>. QED BY <1>2, <1>3

(* What a step of the device leaves of the stream. *)
LEMMA DeviceOrder ==
  ASSUME IInv, DataInv, Device, host # "failed", Older # 0
  PROVE  /\ OrderInv' /\ QueuedBuffers' = QueuedBuffers
         /\ \A b \in QueuedBuffers : Left(b)' = IF b = Oldest THEN Left(b) - 1 ELSE Left(b)
<1>1. /\ stream # <<>> /\ stream' = Tail(stream)
      /\ UNCHANGED <<tensors, host, row, active, queued, slots>>
  BY DEF Device, CopyIn, Quantize, CopyOut, PassEvent, hostVars
<1>2. /\ Older \in Nat \ {0} /\ Older <= Len(stream) /\ Older' = Older - 1
      /\ \A i \in 1 .. Older - 1 : stream'[i] = stream[i + 1]
      /\ queued \in 0 .. 2 /\ Older <= 4 * queued
      /\ host \in {"verify", "write"} => Older <= 4 * (queued - 1)
  <2>1. /\ stream \in Seq(CommandSet) /\ Len(stream) \in Nat \ {0}
        /\ Len(stream') = Len(stream) - 1
        /\ stream' = <<>> <=> Len(stream) = 1
        /\ \A i \in 1 .. Len(stream) - 1 : stream'[i] = stream[i + 1]
    BY <1>1, TailFacts DEF IInv, ControlTypes
  <2>2. /\ Older \in Nat \ {0} /\ Older <= Len(stream)
        /\ host # "launch" => Older = Len(stream)
        /\ host = "launch" => Len(stream) = Older + 1
    BY <1>1, OlderFacts DEF IInv
  <2>3. host = "launch" => stream' # <<>>
    BY <2>1, <2>2
  <2>4. Older' = IF host = "launch" THEN Len(stream') - 1 ELSE Len(stream')
    BY <1>1, <2>3 DEF Older
  <2>5. Older' = Older - 1
    BY <2>1, <2>2, <2>4
  <2>. QED BY <2>1, <2>2, <2>5 DEF IInv, ControlTypes, DataInv, OrderInv
<1>3. /\ LastBuffer' = LastBuffer /\ ActiveBuffer' = ActiveBuffer
      /\ QueuedBuffers' = QueuedBuffers
      /\ \A b : Commands(b)' = Commands(b)
  BY <1>1 DEF Tensor, ActiveBuffer, LastBuffer, QueuedBuffers, Commands
<1>4. OrderInv'
  <2>1. ASSUME NEW i \in 1 .. Older'
        PROVE  /\ i + 4 > Older' =>
                    stream'[i] = Commands(LastBuffer)[4 - (Older' - i)]
               /\ i + 4 <= Older' =>
                    stream'[i] = Commands(ActiveBuffer)[8 - (Older' - i)]
    <3>1. i + 1 \in 1 .. Older /\ stream'[i] = stream[i + 1]
      BY <1>2
    <3>2. /\ (i + 1) + 4 > Older =>
               stream[i + 1] = Commands(LastBuffer)[4 - (Older - (i + 1))]
          /\ (i + 1) + 4 <= Older =>
               stream[i + 1] = Commands(ActiveBuffer)[8 - (Older - (i + 1))]
      BY <3>1 DEF DataInv, OrderInv
    <3>3. /\ Older - (i + 1) = Older' - i
          /\ (i + 1) + 4 > Older <=> i + 4 > Older'
          /\ (i + 1) + 4 <= Older <=> i + 4 <= Older'
      BY <1>2
    <3>. QED BY <3>1, <3>2, <3>3
  <2>2. Older' <= 4 * queued /\ (host \in {"verify", "write"} => Older' <= 4 * (queued - 1))
    BY <1>2
  <2>. QED BY <1>1, <1>3, <2>1, <2>2 DEF OrderInv
<1>5. ASSUME NEW b \in QueuedBuffers
      PROVE  Left(b)' = IF b = Oldest THEN Left(b) - 1 ELSE Left(b)
  <2>1. CASE Older > 4
    <3>1. Oldest = ActiveBuffer /\ ActiveBuffer # LastBuffer /\ b \in {ActiveBuffer, LastBuffer}
      BY <1>1, <1>2, <2>1, QueuedFacts DEF Oldest
    <3>. QED BY <1>2, <1>3, <2>1, <3>1 DEF Left
  <2>2. CASE Older <= 4
    BY <1>2, <1>3, <2>2 DEF Left, Oldest
  <2>. QED BY <1>2, <2>1, <2>2
<1>. QED BY <1>3, <1>4, <1>5

LEMMA DeviceData ==
  ASSUME IInv, DataInv, Device
  PROVE  DataInv'
<1>1. /\ stream # <<>>
      /\ UNCHANGED <<tensors, host, row, active, queued, slots, hostIn, file>>
  BY DEF Device, CopyIn, Quantize, CopyOut, PassEvent, hostVars, bufVars
<1>2. FileInv' /\ DataTypes'
  BY <1>1 DEF DataInv, FileInv, DataTypes, Device, CopyIn, Quantize, CopyOut, PassEvent, bufVars
<1>3. CASE host = "failed"
  <2>1. RowsInv' /\ OrderInv' /\ ContentInv'
    BY <1>1, <1>3 DEF RowsInv, OrderInv, ContentInv
  <2>. QED BY <1>2, <2>1 DEF DataInv
<1>4. RowsInv'
  BY <1>1 DEF DataInv, RowsInv, WrittenRows, NextOut, Tensor, ActiveBuffer, LastBuffer,
     QueuedBuffers, FillBuffer, NextSlot
<1>5. stream' = Tail(stream) /\ stream \in Seq(CommandSet)
  BY DEF Device, CopyIn, Quantize, CopyOut, PassEvent, IInv, ControlTypes
<1>6. /\ Tensor' = Tensor /\ FillBuffer' = FillBuffer /\ QueuedBuffers' = QueuedBuffers
      /\ LastBuffer' = LastBuffer
  BY <1>1 DEF Tensor, FillBuffer, NextSlot, QueuedBuffers, ActiveBuffer, LastBuffer
(* The device takes the rows of the chunk that is half queued. *)
<1>7. CASE host # "failed" /\ Older = 0
  <2>1. host = "launch" /\ Len(stream) = 1 /\ stream' = <<>> /\ Older' = 0
    BY <1>1, <1>5, <1>7, OlderFacts DEF IInv, Older
  <2>2. Command = Commands(FillBuffer)[1] /\ FillBuffer \in Buffers
    BY <1>1, <2>1, BufferFacts DEF IInv, StreamInv, Command, Started
  <2>3. Command = [do |-> "h2d", buffer |-> FillBuffer, count |-> slots[FillBuffer].count]
    BY <2>2 DEF Commands
  <2>4. /\ devIn' = FirstCells(hostIn[FillBuffer], slots[FillBuffer].count)
        /\ devOut' = devOut /\ hostOut' = hostOut
    BY <2>3 DEF Device, CopyIn, Quantize, CopyOut, PassEvent, bufVars
  <2>5. Holds(devIn', Len(tensors), slots[FillBuffer], {"raw"})
    <3>1. slots[FillBuffer].count \in Nat
      BY <2>2 DEF IInv, ControlTypes
    <3>. QED BY <1>1, <2>1, <2>4, <3>1, CopyHolds DEF DataInv, ContentInv
  <2>6. \A b \in QueuedBuffers : Left(b) = 0 /\ Left(b)' = 0
    BY <1>7, <2>1 DEF Left
  <2>7. OrderInv'
    BY <1>1, <2>1 DEF DataInv, OrderInv, IInv, ControlTypes
  <2>8. ContentInv'
    BY <1>1, <1>6, <2>1, <2>4, <2>5, <2>6 DEF DataInv, ContentInv
  <2>. QED BY <1>2, <1>4, <2>7, <2>8 DEF DataInv
<1>8. CASE host # "failed" /\ Older # 0
  <2>1. /\ OrderInv' /\ QueuedBuffers' = QueuedBuffers
        /\ \A b \in QueuedBuffers : Left(b)' = IF b = Oldest THEN Left(b) - 1 ELSE Left(b)
    BY <1>8, DeviceOrder
  <2>2. /\ Oldest \in QueuedBuffers /\ Oldest \in Buffers /\ Left(Oldest) \in 1 .. 4
        /\ \A b \in QueuedBuffers \ {Oldest} : Left(b) \in {0, 4}
        /\ QueuedBuffers \subseteq Buffers
    BY <1>1, <1>8, NextCommand, QueuedFacts
  <2>3. RowsInv'
    BY <1>4
  <2>4. ~ (host = "write" /\ Tensor.verified)
    <3>1. SUFFICES ASSUME host = "write", Tensor.verified PROVE FALSE
      OBVIOUS
    <3>2. ~ Tensor.pipelined
      <4>1. Tensor \in Shapes
        BY <3>1, TensorFacts DEF IInv, Started
      <4>. QED BY <3>1, <4>1, PipelineAssumption
    <3>3. queued = 1 /\ Len(stream) <= 0
      BY <3>1, <3>2, ActiveIsBack DEF IInv, QueueInv, Depth
    <3>. QED BY <1>1, <3>1, <3>3, ActiveIsBack DEF IInv, ControlTypes
  <2>5. slots[Oldest].count \in Nat
    BY <2>2 DEF IInv, ControlTypes
  <2>6. /\ Command.buffer = Oldest /\ Command.count = slots[Oldest].count
        /\ Command.do = "h2d" => Left(Oldest) = 4
        /\ Command.do = "quantize" => Left(Oldest) = 3
        /\ Command.do = "d2h" => Left(Oldest) = 2
        /\ Command.do = "event" => Left(Oldest) = 1
    BY <1>1, <1>8, CommandSteps
  <2>7. /\ host \in {"enqueue", "launch"} =>
             Holds(hostIn'[FillBuffer'], Len(tensors'), slots'[FillBuffer'], {"raw"})
        /\ host = "launch" => stream' # <<>>
    <3>1. host = "launch" => Len(stream) = Older + 1 /\ stream # <<>> /\ Older \in Nat \ {0}
      BY <1>1, <1>8, OlderFacts DEF IInv
    <3>2. host = "launch" => stream' # <<>>
      BY <1>5, <3>1
    <3>. QED BY <1>1, <1>6, <1>8, <3>2 DEF DataInv, ContentInv
  <2>8. SUFFICES ASSUME NEW b \in QueuedBuffers
                 PROVE  /\ Left(b)' = 4 => Holds(hostIn[b], Len(tensors), slots[b], {"raw"})
                        /\ Left(b)' = 3 => Holds(devIn', Len(tensors), slots[b], {"raw"})
                        /\ Left(b)' = 2 => Holds(devOut', Len(tensors), slots[b], CodedForms)
                        /\ Left(b)' < 2 => Holds(hostOut'[b], Len(tensors), slots[b], CodedForms)
    <3>1. SUFFICES ContentInv'
      BY <1>2, <2>1, <2>3 DEF DataInv
    <3>. QED BY <1>1, <2>1, <2>4, <2>7 DEF ContentInv, Tensor
  <2>9. /\ Left(b) = 4 => Holds(hostIn[b], Len(tensors), slots[b], {"raw"})
        /\ Left(b) = 3 => Holds(devIn, Len(tensors), slots[b], {"raw"})
        /\ Left(b) = 2 => Holds(devOut, Len(tensors), slots[b], CodedForms)
        /\ Left(b) < 2 => Holds(hostOut[b], Len(tensors), slots[b], CodedForms)
    BY <1>8 DEF DataInv, ContentInv
  <2>10. CASE CopyIn
    <3>1. /\ devIn' = FirstCells(hostIn[Oldest], slots[Oldest].count)
          /\ devOut' = devOut /\ hostOut' = hostOut /\ Left(Oldest) = 4
      BY <2>6, <2>10 DEF CopyIn, bufVars
    <3>2. b = Oldest => Holds(devIn', Len(tensors), slots[b], {"raw"}) /\ Left(b)' = 3
      BY <2>1, <2>5, <2>9, <3>1, CopyHolds
    <3>3. b # Oldest => Left(b)' \in {0, 4} /\ Left(b)' = Left(b)
      BY <2>1, <2>2
    <3>. QED BY <2>9, <3>1, <3>2, <3>3
  <2>11. CASE Quantize
    <3>1. PICK bad : devOut' = [i \in 1 .. slots[Oldest].count |-> Encoded(i, bad)]
      BY <2>6, <2>11 DEF Quantize
    <3>2. devIn' = devIn /\ hostOut' = hostOut /\ Left(Oldest) = 3
      BY <2>6, <2>11 DEF Quantize, bufVars
    <3>3. ASSUME b = Oldest PROVE Holds(devOut', Len(tensors), slots[b], CodedForms)
      <4>1. Holds(devIn, Len(tensors), slots[b], {"raw"}) /\ slots[b].count \in Nat
        BY <2>5, <2>9, <3>2, <3>3
      <4>2. Holds([i \in 1 .. slots[b].count |-> Encoded(i, bad)], Len(tensors), slots[b], CodedForms)
        BY <4>1, QuantizeHolds
      <4>. QED BY <3>1, <3>3, <4>2
    <3>4. b = Oldest => Holds(devOut', Len(tensors), slots[b], CodedForms) /\ Left(b)' = 2
      BY <2>1, <3>2, <3>3
    <3>5. b # Oldest => Left(b)' \in {0, 4} /\ Left(b)' = Left(b)
      BY <2>1, <2>2
    <3>. QED BY <2>9, <3>2, <3>4, <3>5
  <2>12. CASE CopyOut
    <3>1. /\ hostOut' = [hostOut EXCEPT ![Oldest] = FirstCells(devOut, slots[Oldest].count)]
          /\ devIn' = devIn /\ devOut' = devOut /\ Left(Oldest) = 2
      BY <2>6, <2>12 DEF CopyOut
    <3>2. DOMAIN hostOut = Buffers
      BY DEF DataInv, DataTypes
    <3>3. b = Oldest => Holds(hostOut'[b], Len(tensors), slots[b], CodedForms) /\ Left(b)' = 1
      BY <2>1, <2>2, <2>5, <2>9, <3>1, <3>2, CopyHolds
    <3>4. b # Oldest => Left(b)' \in {0, 4} /\ Left(b)' = Left(b) /\ hostOut'[b] = hostOut[b]
      BY <2>1, <2>2, <3>1, <3>2
    <3>. QED BY <2>9, <3>1, <3>3, <3>4
  <2>13. CASE PassEvent
    <3>1. hostOut' = hostOut /\ devIn' = devIn /\ devOut' = devOut /\ Left(Oldest) = 1
      BY <2>6, <2>13 DEF PassEvent, bufVars
    <3>2. b = Oldest => Left(b)' = 0 /\ Left(b) = 1
      BY <2>1, <3>1
    <3>3. b # Oldest => Left(b)' = Left(b)
      BY <2>1
    <3>. QED BY <2>9, <3>1, <3>2, <3>3
  <2>. QED BY <2>10, <2>11, <2>12, <2>13 DEF Device
<1>. QED BY <1>3, <1>7, <1>8

-----------------------------------------------------------------------------
LEMMA DataInit == Init => DataInv
<1>. SUFFICES ASSUME Init PROVE DataInv
  OBVIOUS
<1>1. /\ tensors = <<>> /\ host = "pick" /\ row = 0 /\ queued = 0 /\ file = <<>>
      /\ Len(stream) = 0 /\ Len(file) = 0
      /\ DOMAIN hostIn = Buffers /\ DOMAIN hostOut = Buffers
  BY DEF Init
<1>2. QueuedBuffers = {}
  BY <1>1 DEF QueuedBuffers
<1>3. RowsInv
  BY <1>1, <1>2 DEF RowsInv, WrittenRows, NextOut
<1>4. OrderInv /\ ContentInv /\ FileInv /\ DataTypes
  BY <1>1, <1>2 DEF OrderInv, ContentInv, FileInv, DataTypes, Older
<1>. QED BY <1>3, <1>4 DEF DataInv

LEMMA DataStep == IInv /\ DataInv /\ [Next]_vars => DataInv'
<1>. SUFFICES ASSUME IInv, DataInv, [Next]_vars PROVE DataInv'
  OBVIOUS
<1>1. CASE HostStep
  BY <1>1, ReserveData, FillData, EnqueueData, LaunchData, FinishChunkData, VerifyData, WriteData,
     FinishData DEF HostStep
<1>2. CASE UNCHANGED vars
  <2>1. UNCHANGED <<tensors, host, row, active, queued, slots, hostIn, hostOut, devIn, devOut,
                    stream, file>>
    BY <1>2 DEF vars, hostVars, devVars, bufVars
  <2>2. /\ Tensor' = Tensor /\ ActiveBuffer' = ActiveBuffer /\ LastBuffer' = LastBuffer
        /\ FillBuffer' = FillBuffer
        /\ QueuedBuffers' = QueuedBuffers /\ WrittenRows' = WrittenRows /\ NextOut' = NextOut
        /\ Older' = Older /\ \A b : Left(b)' = Left(b) /\ Commands(b)' = Commands(b)
    BY <2>1 DEF Tensor, ActiveBuffer, LastBuffer, FillBuffer, NextSlot, QueuedBuffers,
       WrittenRows, NextOut, Older, Left, Commands
  <2>3. RowsInv' /\ OrderInv' /\ ContentInv'
    BY <2>1, <2>2 DEF DataInv, RowsInv, OrderInv, ContentInv
  <2>. QED BY <2>1, <2>3 DEF DataInv, FileInv, DataTypes
<1>. QED BY <1>1, <1>2, BeginData, FailData, DeviceData DEF Next

THEOREM DataHolds == Spec => [](IInv /\ DataInv)
<1>1. IInv /\ DataInv /\ [Next]_vars => IInv' /\ DataInv'
  BY StepHolds, DataStep
<1>. QED BY InitHolds, DataInit, <1>1, PTL DEF Spec

(* No row that the kernel encoded wrongly is in the file of a tensor that  *)
(* is verified: the rows compared are the rows written.                    *)
THEOREM VerifiedRowsAreRight == Spec => []VerifiedIsRight
<1>1. IInv /\ DataInv => VerifiedIsRight
  BY DEF DataInv, FileInv, VerifiedIsRight
<1>. QED BY <1>1, DataHolds, PTL

-----------------------------------------------------------------------------
(* The steps of TensorStream. *)
LEMMA SameSeq ==
  ASSUME NEW S, NEW s \in Seq(S), NEW n \in Nat, Len(s) = n,
         NEW f, f = [i \in 1 .. n |-> f[i]], \A i \in 1 .. n : f[i] = s[i]
  PROVE  f = s
OBVIOUS

Sizes == [i \in DOMAIN tensors |-> tensors[i].rows]

Lines == [i \in DOMAIN file |-> <<file[i].tensor, file[i].row>>]

Stage == IF host \in {"closed", "failed"} THEN host ELSE "open"

LEMMA SizesFacts ==
  ASSUME IInv
  PROVE  /\ Sizes \in Seq(Nat) /\ Len(Sizes) = Len(tensors) /\ Len(tensors) \in Nat
         /\ Sizes = <<>> <=> tensors = <<>>
         /\ tensors # <<>> => Sizes[Len(Sizes)] = Tensor.rows /\ Tensor.rows \in 1 .. MaxRows
<1>1. tensors \in Seq(Shapes) /\ Len(tensors) \in Nat /\ DOMAIN tensors = 1 .. Len(tensors)
  BY DEF IInv, ControlTypes
<1>2. ASSUME NEW i \in 1 .. Len(tensors) PROVE tensors[i] \in Shapes /\ tensors[i].rows \in Nat
  BY <1>1, <1>2, PipelineAssumption
<1>3. Sizes \in [1 .. Len(tensors) -> Nat]
  BY <1>1, <1>2 DEF Sizes
<1>4. Sizes \in Seq(Nat) /\ Len(Sizes) = Len(tensors)
  BY <1>1, <1>3, BlockIsSeq
<1>5. tensors # <<>> => Sizes[Len(Sizes)] = Tensor.rows /\ Tensor \in Shapes
  BY <1>1, <1>4 DEF Sizes, Tensor
<1>6. tensors # <<>> => Tensor.rows \in 1 .. MaxRows
  BY <1>5, PipelineAssumption
<1>. QED BY <1>1, <1>4, <1>5, <1>6

LEMMA LinesFacts ==
  ASSUME DataInv
  PROVE  /\ Lines \in Seq(Nat \X Nat) /\ Len(Lines) = Len(file) /\ Len(file) \in Nat
         /\ \A i \in 1 .. Len(file) : Lines[i] = <<file[i].tensor, file[i].row>>
         /\ Lines = <<>> <=> file = <<>>
<1>1. file \in Seq(CellsOf(CodedForms)) /\ Len(file) \in Nat /\ DOMAIN file = 1 .. Len(file)
  BY DEF DataInv, FileInv
<1>2. ASSUME NEW i \in 1 .. Len(file) PROVE <<file[i].tensor, file[i].row>> \in Nat \X Nat
  <2>1. file[i] \in CellsOf(CodedForms)
    BY <1>1, <1>2
  <2>. QED BY <2>1 DEF CellsOf
<1>3. Lines \in [1 .. Len(file) -> Nat \X Nat]
  BY <1>1, <1>2 DEF Lines
<1>4. Lines \in Seq(Nat \X Nat) /\ Len(Lines) = Len(file)
  BY <1>1, <1>3, BlockIsSeq
<1>5. \A i \in 1 .. Len(file) : Lines[i] = <<file[i].tensor, file[i].row>>
  BY <1>1 DEF Lines
<1>. QED BY <1>1, <1>4, <1>5

(* What TensorStream knows of the current tensor. *)
LEMMA MappedFacts ==
  ASSUME IInv, DataInv
  PROVE  /\ Promise!Written = WrittenRows
         /\ Promise!Complete <=> tensors = <<>> \/ WrittenRows = Tensor.rows
<1>1. Promise!Written =
        IF Lines # <<>> /\ Lines[Len(Lines)][1] = Len(Sizes) THEN Lines[Len(Lines)][2] + 1 ELSE 0
  BY DEF Promise!Written, Lines, Sizes
<1>2. file # <<>> => Lines[Len(Lines)] = <<file[Len(file)].tensor, file[Len(file)].row>>
  <2>1. file # <<>> => Len(file) \in 1 .. Len(file)
    BY DEF DataInv, FileInv
  <2>. QED BY <2>1, LinesFacts
<1>3. Promise!Written = WrittenRows
  BY <1>1, <1>2, SizesFacts, LinesFacts, SMTT(30) DEF WrittenRows
<1>4. Promise!Complete <=> Sizes = <<>> \/ Promise!Written = Sizes[Len(Sizes)]
  BY DEF Promise!Complete, Sizes
<1>. QED BY <1>3, <1>4, SizesFacts

LEMMA OpenStage ==
  ASSUME host \in Started \union {"pick"}
  PROVE  Stage = "open"
BY DEF Stage, Started

LEMMA InitIsPromised == Init => Promise!Init
<1>. SUFFICES ASSUME Init PROVE Promise!Init
  OBVIOUS
<1>1. tensors = <<>> /\ file = <<>> /\ host = "pick"
  BY DEF Init
<1>2. Sizes = <<>> /\ Lines = <<>> /\ Stage = "open"
  BY <1>1 DEF Sizes, Lines, Stage
<1>. QED BY <1>2 DEF Promise!Init, Sizes, Lines, Stage

LEMMA BeginIsPromised ==
  ASSUME IInv, DataInv, NEW t \in Shapes, Begin(t)
  PROVE  Promise!Next
<1>1. /\ host = "pick" /\ queued = 0 /\ Len(tensors) < MaxTensors
      /\ tensors' = Append(tensors, t) /\ file' = file
      /\ host' \in Started
  BY DEF Begin, IInv, QueueInv, Started
<1>2. tensors = <<>> \/ WrittenRows = Tensor.rows
  BY <1>1 DEF DataInv, RowsInv, NextOut
<1>3. Promise!Complete
  BY <1>2, MappedFacts
<1>4. t.rows \in 0 .. MaxRows
  BY PipelineAssumption
<1>5. Sizes' = Append(Sizes, t.rows)
  <2>1. /\ tensors \in Seq(Shapes) /\ tensors' \in Seq(Shapes)
        /\ Len(tensors') = Len(tensors) + 1 /\ tensors'[Len(tensors) + 1] = t
        /\ \A i \in 1 .. Len(tensors) : tensors'[i] = tensors[i]
    BY <1>1 DEF IInv, ControlTypes
  <2>2. /\ Append(Sizes, t.rows) \in Seq(Nat) /\ Len(Append(Sizes, t.rows)) = Len(tensors) + 1
        /\ Append(Sizes, t.rows)[Len(tensors) + 1] = t.rows
        /\ \A i \in 1 .. Len(tensors) : Append(Sizes, t.rows)[i] = Sizes[i]
    BY <1>4, SizesFacts
  <2>3. Sizes' = [i \in 1 .. Len(tensors) + 1 |-> tensors'[i].rows]
    BY <2>1 DEF Sizes
  <2>4. \A i \in 1 .. Len(tensors) : Sizes[i] = tensors[i].rows
    BY <2>1 DEF Sizes
  <2>5. ASSUME NEW i \in 1 .. Len(tensors) + 1
        PROVE  Sizes'[i] = Append(Sizes, t.rows)[i]
    <3>1. i \in 1 .. Len(tensors) \/ i = Len(tensors) + 1
      BY SizesFacts
    <3>. QED BY <2>1, <2>2, <2>3, <2>4, <3>1
  <2>6. Sizes' = [i \in 1 .. Len(tensors) + 1 |-> Sizes'[i]]
    BY <2>3
  <2>7. Len(tensors) + 1 \in Nat
    BY SizesFacts
  <2>. QED BY <2>2, <2>5, <2>6, <2>7, SameSeq
<1>6. Lines' = Lines /\ Stage = "open" /\ Stage' = "open"
  BY <1>1, OpenStage DEF Lines, Stage, Started
<1>7. Promise!Begin(t.rows)
  BY <1>3, <1>5, <1>6 DEF Promise!Begin, Sizes, Lines, Stage
<1>8. Len(Sizes) < MaxTensors
  BY <1>1, SizesFacts
<1>. QED BY <1>4, <1>7, <1>8 DEF Promise!Next, Sizes

LEMMA WriteIsPromised ==
  ASSUME IInv, DataInv, Write
  PROVE  Promise!Next
<1>. DEFINE slot == slots[ActiveBuffer]
            last == slot.row + slot.count
            out == OutputOf(ActiveBuffer)
            part == [i \in 1 .. last - slot.row |-> <<Len(Sizes), slot.row + i - 1>>]
<1>1. /\ host = "write" /\ host \in Started /\ host' \in {"fill", "pick", "finish"}
      /\ file' = file \o out /\ tensors' = tensors
  BY DEF Write, Started, AfterWrite
<1>2. /\ out \in Seq(CellsOf(CodedForms)) /\ Len(out) = slot.count
      /\ slot.count \in Nat \ {0} /\ slot.row \in Nat
      /\ \A i \in 1 .. slot.count : out[i].tensor = Len(tensors) /\ out[i].row = slot.row + i - 1
  BY <1>1, OutputFacts
<1>3. /\ queued \in {1, 2} /\ tensors # <<>> /\ row <= Tensor.rows /\ row \in Nat
      /\ Tensor.rows \in Nat
  BY <1>1, ActiveIsBack, TensorFacts DEF IInv, ControlTypes, DataInv, RowsInv
<1>4. last <= Tensor.rows /\ last \in Nat
  <2>1. CASE queued = 1
    <3>1. row = last
      BY <1>1, <2>1, QueuedFacts DEF DataInv, RowsInv
    <3>. QED BY <1>3, <3>1
  <2>2. CASE queued = 2
    <3>1. /\ slots[1 - active].row = last
          /\ row = slots[1 - active].row + slots[1 - active].count
          /\ 1 - active \in Buffers
      BY <1>1, <2>2, QueuedFacts DEF DataInv, RowsInv
    <3>2. slots[1 - active].count \in Nat /\ slots[1 - active].row \in Nat
      BY <3>1 DEF IInv, ControlTypes
    <3>3. \A m, n, r, t \in Nat : r = m + n /\ r <= t => m <= t
      OBVIOUS
    <3>. HIDE DEF last
    <3>4. row \in Nat /\ Tensor.rows \in Nat /\ row <= Tensor.rows
      BY <1>3
    <3>5. slots[1 - active].row <= Tensor.rows
      BY ONLY <3>1, <3>2, <3>3, <3>4
    <3>. QED BY <3>1, <3>2, <3>5
  <2>. QED BY <1>3, <2>1, <2>2
<1>5. Promise!Written = slot.row
  <2>1. WrittenRows = slot.row
    BY <1>1, <1>3 DEF DataInv, RowsInv, NextOut
  <2>. QED BY <2>1, MappedFacts
<1>6. last - slot.row = slot.count /\ slot.row + 1 <= last
  <2>1. slot.count \in Nat \ {0} /\ slot.row \in Nat
    BY <1>2
  <2>2. \A m \in Nat, n \in Nat \ {0} : (m + n) - m = n /\ m + 1 <= m + n
    OBVIOUS
  <2>. QED BY <2>1, <2>2
<1>7. part = [i \in 1 .. slot.count |-> <<Len(Sizes), slot.row + i - 1>>]
  BY <1>6
<1>8. Lines' = Lines \o part
  <2>1. /\ Len(file') = Len(file) + slot.count /\ Len(file) \in Nat
        /\ file' \in Seq(CellsOf(CodedForms))
        /\ \A i \in 1 .. Len(file) : file'[i] = file[i]
        /\ \A i \in 1 .. slot.count : file'[Len(file) + i] = out[i]
    <3>1. PICK S : S = CellsOf(CodedForms)
      OBVIOUS
    <3>2. file \in Seq(S) /\ out \in Seq(S)
      BY <1>2, <3>1 DEF DataInv, FileInv
    <3>. HIDE DEF out
    <3>3. /\ Len(file \o out) = Len(file) + Len(out) /\ Len(file) \in Nat /\ file \o out \in Seq(S)
          /\ \A i \in 1 .. Len(file) : (file \o out)[i] = file[i]
      BY ONLY <3>2
    <3>4. \A i \in 1 .. Len(out) : (file \o out)[Len(file) + i] = out[i]
      BY ONLY <3>2
    <3>5. file' = file \o out /\ Len(out) = slot.count
      BY <1>1, <1>2
    <3>. QED BY ONLY <3>1, <3>3, <3>4, <3>5
  <2>2. part \in Seq(Nat \X Nat) /\ Len(part) = slot.count
    <3>1. \A i \in 1 .. slot.count : <<Len(Sizes), slot.row + i - 1>> \in Nat \X Nat
      BY <1>2, SizesFacts
    <3>2. part \in [1 .. slot.count -> Nat \X Nat]
      BY <1>7, <3>1
    <3>3. slot.count \in Nat
      BY <1>2
    <3>. QED BY <3>2, <3>3, BlockIsSeq
  <2>3. \A i \in 1 .. slot.count : part[i] = <<Len(tensors), slot.row + i - 1>>
    BY <1>7, SizesFacts
  <2>. HIDE DEF part
  <2>4. PICK S : S = Nat \X Nat
    OBVIOUS
  <2>5. Lines \in Seq(S) /\ part \in Seq(S) /\ Len(part) = slot.count
    BY <2>2, <2>4, LinesFacts
  <2>6. Lines \in Seq(S) /\ part \in Seq(S)
    BY <2>5
  <2>7. /\ Len(Lines \o part) = Len(Lines) + Len(part) /\ Lines \o part \in Seq(S)
        /\ \A i \in 1 .. Len(Lines) : (Lines \o part)[i] = Lines[i]
    BY ONLY <2>6
  <2>8. \A i \in 1 .. Len(part) : (Lines \o part)[Len(Lines) + i] = part[i]
    BY ONLY <2>6
  <2>9. Lines' = [i \in 1 .. Len(file') |-> <<file'[i].tensor, file'[i].row>>]
    BY <2>1 DEF Lines
  <2>10. Len(Lines) = Len(file) /\ \A i \in 1 .. Len(file) : Lines[i] = <<file[i].tensor, file[i].row>>
    BY LinesFacts
  <2>11. Len(Lines \o part) = Len(file') /\ Len(file') \in Nat
    BY <2>1, <2>5, <2>7, <2>10
  <2>12. Lines' = [i \in 1 .. Len(file') |-> Lines'[i]]
    BY <2>9
  <2>13. ASSUME NEW i \in 1 .. Len(file')
         PROVE  Lines'[i] = (Lines \o part)[i]
    <3>1. CASE i \in 1 .. Len(file)
      BY <2>1, <2>7, <2>9, <2>10, <3>1
    <3>2. CASE i \notin 1 .. Len(file)
      <4>1. PICK k \in 1 .. slot.count : i = Len(file) + k
        <5>1. i - Len(file) \in 1 .. slot.count /\ i = Len(file) + (i - Len(file))
          BY <1>2, <2>1, <3>2
        <5>. QED BY <5>1
      <4>2. file'[i] = out[k] /\ (Lines \o part)[i] = part[k]
        BY <2>1, <2>5, <2>8, <2>10, <4>1
      <4>3. Lines'[i] = <<file'[i].tensor, file'[i].row>>
        BY <2>9
      <4>. QED BY <1>2, <2>3, <4>2, <4>3
    <3>. QED BY <3>1, <3>2
  <2>. QED BY <2>7, <2>11, <2>12, <2>13, SameSeq
<1>9. Promise!RowsFrom(slot.row, last) = part
  BY DEF Promise!RowsFrom, Sizes
<1>10. last \in Promise!Written + 1 .. (IF Sizes = <<>> THEN 0 ELSE Sizes[Len(Sizes)])
  <2>1. Sizes # <<>> /\ Sizes[Len(Sizes)] = Tensor.rows
    BY <1>3, SizesFacts
  <2>2. slot.row \in Nat
    BY <1>2
  <2>. HIDE DEF last, slot
  <2>. QED BY <1>3, <1>4, <1>5, <1>6, <2>1, <2>2
<1>. HIDE DEF last, slot, part
<1>11. Sizes' = Sizes /\ Stage = "open" /\ Stage' = "open"
  BY <1>1, OpenStage DEF Sizes, Stage, Started
<1>12. Promise!WriteChunk
  BY <1>5, <1>8, <1>9, <1>10, <1>11 DEF Promise!WriteChunk, Sizes, Lines, Stage
<1>. QED BY <1>12 DEF Promise!Next

LEMMA FailIsPromised ==
  ASSUME host \in Started, host' = "failed", UNCHANGED <<tensors, file>>
  PROVE  Promise!Next
<1>1. Sizes' = Sizes /\ Lines' = Lines /\ Stage = "open" /\ Stage' = "failed"
  BY OpenStage DEF Sizes, Lines, Stage
<1>2. Promise!Fail
  BY <1>1 DEF Promise!Fail, Sizes, Lines, Stage
<1>. QED BY <1>2 DEF Promise!Next

LEMMA FinishIsPromised ==
  ASSUME IInv, DataInv, Finish
  PROVE  Promise!Next
<1>1. host = "pick" /\ host' = "closed" /\ queued = 0 /\ UNCHANGED <<tensors, file>>
  BY DEF Finish, IInv, QueueInv
<1>2. tensors = <<>> \/ WrittenRows = Tensor.rows
  BY <1>1 DEF DataInv, RowsInv, NextOut
<1>3. Promise!Complete
  BY <1>2, MappedFacts
<1>4. Sizes' = Sizes /\ Lines' = Lines /\ Stage = "open" /\ Stage' = "closed"
  BY <1>1, OpenStage DEF Sizes, Lines, Stage
<1>5. Promise!Close
  BY <1>3, <1>4 DEF Promise!Close, Sizes, Lines, Stage
<1>. QED BY <1>5 DEF Promise!Next

(* Steps that TensorStream does not see. *)
LEMMA InnerStep ==
  ASSUME Stage' = Stage, UNCHANGED <<tensors, file>>
  PROVE  UNCHANGED Promise!vars
BY DEF Promise!vars, Stage

LEMMA StepIsPromised == IInv /\ DataInv /\ [Next]_vars => [Promise!Next]_(Promise!vars)
<1>. SUFFICES ASSUME IInv, DataInv, [Next]_vars
              PROVE  Promise!Next \/ UNCHANGED Promise!vars
  OBVIOUS
<1>1. CASE Reserve \/ Fill \/ Enqueue \/ Launch \/ FinishChunk
  <2>1. Stage' = Stage /\ UNCHANGED <<tensors, file>>
    BY <1>1 DEF Reserve, Fill, Enqueue, Launch, FinishChunk, Stage
  <2>. QED BY <2>1, InnerStep
<1>2. CASE Verify
  <2>1. host = "verify" /\ host' \in {"write", "failed"} /\ UNCHANGED <<tensors, file>>
    BY <1>2 DEF Verify
  <2>2. CASE host' = "failed"
    BY <2>1, <2>2, FailIsPromised DEF Started
  <2>3. CASE host' = "write"
    BY <2>1, <2>3, InnerStep DEF Stage
  <2>. QED BY <2>1, <2>2, <2>3
<1>3. CASE Fail
  BY <1>3, FailIsPromised DEF Fail, Working, Started
<1>4. CASE Device
  <2>1. UNCHANGED <<tensors, file, host>>
    BY <1>4 DEF Device, CopyIn, Quantize, CopyOut, PassEvent, hostVars
  <2>. QED BY <2>1, InnerStep DEF Stage
<1>5. CASE UNCHANGED vars
  <2>1. UNCHANGED <<tensors, file, host>>
    BY <1>5 DEF vars, hostVars
  <2>. QED BY <2>1, InnerStep DEF Stage
<1>. QED
  BY <1>1, <1>2, <1>3, <1>4, <1>5, BeginIsPromised, WriteIsPromised, FinishIsPromised
  DEF Next, HostStep

(* The pipeline does what write_tensor_payload promises, for tensors of    *)
(* every shape: with two slots and the device behind, every row still goes *)
(* to the file once and in order, and no tensor begins before the one in   *)
(* front of it is complete.                                                *)
THEOREM StreamIsImplemented ==
  Spec => Promise!Init /\ [][Promise!Next]_(Promise!vars)
BY DataHolds, InitIsPromised, StepIsPromised, PTL DEF Spec

=============================================================================
