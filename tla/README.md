# Verification of libgguf

TLA+ models of libgguf, the library and converter that turns safetensors files
into quantized GGUF files. The models are written from the C++ and CUDA sources
under `src/csrc` and the Python tools under `src/src/libgguf`; the paths below are
relative to `src/csrc` unless they begin with `src/`.

The modules cover what is stateful in the code (threads that share a block of
rows, tables that are built on first use and freed, a device that works through
a stream behind the host, files whose header is written before their contents,
writes that take part of their bytes), the decisions taken tensor by tensor, and
the algorithms that are easy to get wrong by one (the checks of offsets in 64-bit
words, the sweep for overlaps, pattern matching, the packing of bits). Floating
point is not modelled: where a kernel chooses numbers, the model chooses freely.

## Inventory

| Component | State | Operations | What is hard | Correct when |
|---|---|---|---|---|
| CPU encoding pool (`conversion/cpu_quantizer.cpp`) | the task's fields, `task_id_`, `completed_`, `ok_`, the workers' scratch vectors | construct, `run`, destroy; `worker_loop` on every thread | two condition variables, task fields written without the lock, scratch vectors resized between tasks, shutdown | `run` returns, true only for a fully encoded block; nothing touches the caller's buffers afterwards |
| Threads of one call (`quantize/cpu.cpp`, `dequantize/cpu.cpp`, `conversion/safetensors_payload.cpp`, `cpu/threading.cpp`) | the vector of results, the threads | `libgguf_quantize_chunk`, `libgguf_dequantize_chunk`, the threaded encoders of the payload writer | rounding leaves threads without rows, the vector is cut while threads run, unsigned subtraction, threads that cannot be started | the result is believed exactly when all rows are encoded; no thread outlives the call |
| IQ tables (`quantize/iq_tables.cpp`) | `iq2_data`, `iq3_data`, the arrays they point to | built by the first call that needs them, read by kernels, freed by `libgguf_quantize_free` | no lock, published piece by piece, shared by two types, rebuilt after being freed | a kernel reads finished tables of its own type |
| GPU encoding (`conversion/gpu_quantizer.cu`, GPU paths of `conversion/converter.cpp`) | two host slots, one input and one output buffer on the device, a stream, events | reserve, fill, enqueue, finish, verify, write | the device lags behind the host, buffers are reused and replaced | every row reaches the file once, in order, encoded; verified tensors are right |
| Converter and writer (`conversion/converter.cpp`, `conversion/writer.cpp`) | the output file and its position, the header's offsets, `gpu_ctx`, the verification budget | check paths, create the device, select tensors to verify, write header, write tensors, close | offsets promised before payloads exist, padding on both sides, backends that fall back or must not | the payloads lie where the header says, and success means complete |
| Safetensors payload writer (`conversion/safetensors_payload.cpp`, `bindings/python/payload.cpp`) | a mapped file, an output descriptor, two scratch vectors, the sums of the importance matrix | check the plans, then write each: copy, fused BF16 to Q8_0, fused F16/BF16, generic | `write()` takes less than it is given, three formulas for the rows of a chunk, sources that can be read in place for some rows only, an automatic importance matrix | the output is what the plans ask for, or a beginning of it; no read or write leaves its buffer |
| Safetensors parser (`conversion/safetensors.cpp`, `conversion/common.cpp`) | the open input | read the header, check offsets against shapes, strip prefixes, detect the architecture | 64-bit arithmetic on the file's numbers, prefixes that occur on some names only | accepted ranges lie in the file and match the shapes; names stay distinct |
| Policy (`cli/quantize/policy.cpp`) | counters of earlier tensors, counts of the report | choose a type for each tensor, rearrange its shape, fall back | precedence of include, exclude, override, policy and fallback; counters carried from tensor to tensor | rows are whole blocks, no element is lost, the rules mean what the documents say |
| Patterns (`fnmatch_case` in `cli/quantize/policy.cpp`) | none between calls | match a name with a pattern of `*` and `?` | backtracking | a match is found exactly if there is one, of the patterns that the documents promise |
| Inspection and comparison (`src/src/libgguf/inspect.py`, `compare.py`) | none between calls | validate one GGUF file, compare two | a sweep over sorted ranges finds overlaps; sizes that are not known, numbers passed by a seek; repeated keys and shortened arrays | every overlap is named; what is called valid without a warning can be read; what a reader can tell of a difference is reported |
| CPU kernels (`kernels/cpu`) | none between calls | encode and decode blocks | bits of one number spread over several bytes | the decoder finds what the encoder stored |
| Formats, command line, bindings, GPU kernels, Torch and numpy packages, importance matrix files | constants or none | | numerical or argument handling code | |

How they interact: the converter parses and plans, owns one CPU pool and at most
one GPU quantizer, and writes tensor after tensor. A tensor's chunk goes either
to the pool, or to the GPU (with the pool as the reference of a verification),
or to `libgguf_quantize_chunk`, which starts threads of its own. That entry point
builds the IQ tables on the way; the payload writer, reached from Python with the
GIL released, forks threads in the same way but calls the kernels directly. The
Python tools read what the converter has written.

## Modules

| Module | Models | Kind |
|---|---|---|
| `RowPartition` | how rows are shared among threads: `rows_per_thread`, first row, share; used by the pool and by the calls that fork | pure operators |
| `CpuQuantizer` | what the header of the pool promises: a call returns, and true means encoded | abstract |
| `CpuQuantizerPool` | `run`, `configure_task`, `worker_loop`, the destructor, one action per critical section and per tile | detailed, refines `CpuQuantizer` |
| `ForkJoin` | one call that forks, encodes, cuts its results and joins | detailed |
| `IqTables` | the globals `iq2_data` and `iq3_data` among overlapping calls and frees | detailed |
| `IqNeighbours` | the computation of `map` and `neighbours`, and a kernel's lookup | algorithm, step by step |
| `TensorStream` | what `write_tensor_payload` promises: each row once and in order | abstract |
| `GpuPipeline` | the host's slots, the stream and the device | detailed, refines `TensorStream` |
| `Converter` | `convert()` and the layout of its output | detailed |
| `SafetensorsPayload` | `write_safetensors_payload`: mapping, sums of the importance matrix, four ways of encoding, padding, partial writes | detailed, refines `TensorStream` |
| `SafetensorsSource` | the header's checks in words of a given width, prefixes, architecture | detailed |
| `Policy` | `prepare_plans`, a tensor at a time | detailed |
| `Patterns` | `fnmatch_case`, a round of its loops at a time | algorithm, step by step |
| `ShellPatterns` | what the documents say of it | claim |
| `GgufValidation`, `GgufComparison` | `validate_gguf` and `_compare_gguf` | algorithms, step by step |
| `BlockPacking`, `TernaryPacking` | the layout of blocks by the reference encoders and decoders | algorithms |
| `Planning` | `Policy` and `Patterns` | composition |
| `Readers` | `SafetensorsSource`, `GgufValidation` and `GgufComparison` | composition |
| `Kernels` | `IqNeighbours`, `BlockPacking` and `TernaryPacking` | composition |
| `ChunkCall` | `ForkJoin` and `Kernels` | composition |
| `RowPartition_proofs`, `CpuQuantizerPool_proofs`, `ChunkCall_proofs`, `IqTables_proofs`, `GpuPipeline_proofs`, `SafetensorsPayload_proofs`, `Policy_proofs`, `Converter_proofs` | theorems about the modules they extend | proofs |
| `MCCpuQuantizerPool`, `MCIqTables`, `MCGpuPipeline`, `MCConverter`, `MCSafetensorsPayload` | small instances for TLC | instances |
| `MCPolicy`, `MCReaders`, `MCChunkCall` | small instances of `Planning`, `Readers` and `ChunkCall` | instances |

`Planning`, `Readers`, `Kernels` and `ChunkCall` bring together components that share no
state in the code either: a function that matches names and one that plans tensors,
three programs that read files, the threads of a call, the tables and the blocks. A
behaviour runs one of them while the others stay idle, so that the states of a run are
the sum of theirs. Nothing is claimed about their interaction. The theorems about a part
of the first two are about that part's own specification (`Names!Spec`, `File!Spec` and
so on), those about tables and blocks about the composition of both (`KernelsSpec`).
They stand where the properties of the composition can be named: those about patterns
and the parser in `Policy_proofs`, those about inspection and comparison in
`Converter_proofs`, those about the construction of tables in `IqTables_proofs`, those
about blocks in `ChunkCall_proofs`, beside those about the calls that encode and decode
them.

### CpuQuantizerPool

The caller and each worker have a program counter. Steps are cut where another
thread could come in: the caller's writes of the task without the lock
(`Configure`), the publication under the lock (`Publish`), the notification
(`WakeAll`), sleeping and waking in the wait, and in a worker the taking of a
task, each tile, the report under the lock and the notification of the caller.
Both waits may wake spuriously. The rows of a worker come from `RowPartition`;
how often each row has been written is kept as history. An encoder of a tile
succeeds or fails.

### ForkJoin

The four functions with this shape differ in how the result is judged: by a sum
that the caller compares, or slice by slice. Both are modelled (`call.entry`).
The results are a function whose domain is the vector's length, so that cutting
it under the running threads is visible. The caller adds them up one at a time, as its
loop does. Byte counts are counted in rows.
The one-row-per-write detail of a slice is not needed: slices are disjoint
(`RangesAreDisjoint`), so a slice is written in one step.

### IqTables

Arrays are named by allocation and remember what they hold, how far they are
filled and whether they were freed; the globals hold names. A builder stores
through its own local pointer, as the code does. `Uncoordinated` says whether the
host program lets calls and frees overlap freely, `ColdFused` whether the payload
writer's fused path may come first. Stores are taken to happen in program order,
which is the best case: the language promises nothing about them.

### IqNeighbours

The two passes over all codes are actions, one turn of the loop each. The sort is
the order of `iq2_compare_func`, the shells of equal distance are those of the
loop that counts `nhave`. Offsets are stored as in the code, `-(counter + 1)`, and
the lookup subtracts as the kernels do. Weights of coordinates and squared distances are
recursive functions, so that they can be reasoned about. `iq3xs_init_impl` differs in the number of
coordinates and levels, which are constants here.

### GpuPipeline

The buffers hold rows, tagged with their tensor and form. The host's calls append
commands to the stream; the device reads and writes the buffers when it reaches them, so
a buffer that is overwritten too early shows up as wrong rows in the file. A buffer that
grows is replaced without waiting for the stream, as `libgguf_gpu_buffer_resize_discard`
does. A tensor that is not pipelined has its buffers replaced chunk by chunk: its input
buffer before the copy into it is queued (`Enqueue`), its output buffer afterwards,
behind the queued copy (`Launch`). So it is not the empty stream that makes this safe,
and `ReplacedWhenUnused` asks of each buffer that no queued command uses it. The kernel
may encode any row wrongly, which only verification can notice. A failure may strike
between any two calls. Tensors have at least one row, since the parser refuses shapes
with a zero.

### Converter

One conversion from the check of the output path to its end. Parsing and planning
are one step whose result is any list of plans. Offsets are computed by the loop
of `write_gguf_metadata`; positions by the writes themselves, so that they agree
only if padding and chunks add up. `disk` records what is left at the output path
when a conversion fails: the code deletes nothing. `fwrite` may take any part of
what it is given; `write_all_file` goes on with the rest (`unwritten`).

### SafetensorsPayload

A byte of the output is named by its plan, its row and its place in the row, so
that a byte left out, repeated or moved is visible. `wanted` is history: the output that
the plans begun so far ask for. What `TensorStream` sees are the rows that are whole in
the output (`WholeRows`). Each call of `write()` takes any
part of its bytes, is interrupted, or fails. The two vectors are known by the
rows they hold; `row` is the next row to be summed or encoded. Alignment of a row in
the mapped file decides, as in the code, whether it is decoded into the vector or
read in place. Threads are in `ForkJoin`, the use of the tables in `IqTables`.

### SafetensorsSource

Sums and products are taken in words of `2 * HalfWord` numbers; the run has words of five
bits, which is enough for every wrap that 64 bits allow. `Files` is the set of inputs. What is claimed of an accepted
entry is said in integers. The code checks sums that may wrap, so that a range may be
accepted that begins inside the header, when both of its offsets are so large that they
wrap. It still lies in the file and has the size of its shape, and its number of
elements fits the signed word it is kept in (`AcceptedLiesInFile`), which is what the
reads need; no more is claimed. `NamesAreKept` says of the prefixes that names stay
distinct without them, that a model wrapped under a prefix is taken, and that a decoder
keeps its names.

### Policy

A tensor carries the outcomes of the matches with its name, so that one record stands
for all names alike. One action plans a tensor, with the guards in the code's order:
ignored, refused, skipped or included, forced, policy, fallback. An access to the last
dimension of a shape without dimensions is a step of its own (`PlanScalar`).

`OptionsAreObeyed` states the precedence of the options: a forced type decides, then
`--exclude`, then `--include`, then the policy. A type that was asked for is given up
only for rows that are not made of whole blocks. `PlansFit` and `NothingIsLost` would
not notice an order changed among them.

`DynamicOnlyPromotes` compares what the dynamic policy chooses with what the mixed one
would have chosen: never fewer bits. That is not true of what is stored: a row of width
96 does not fit the Q4_K of the mixed policy, which falls back to F16, while the Q8_0 of
the dynamic one fits and is stored. The property says that fewer bits are stored in
exactly this case, and the run has tensors of that width.

### Patterns and ShellPatterns

The recursion of `fnmatch_case` is kept as a stack of loops, one frame each; a step
is one round. `MatchIsExact` compares with a definition by splitting the text, for the
two wildcards that the code knows, `*` and `?`. Brackets are ordinary characters to it, while
the documents promise the matching of shells; `ShellPatterns` states that, with brackets,
and is violated (finding 3).

### GgufValidation

The Python loops are followed step by step; the sort of the ranges chooses any order that
Python's would leave. Shapes are in the order of the file, the width first. The
sweep remembers the range that reaches furthest; the property compares what it reports
with every pair.

A header is refused if one of its numbers is missing that is read. Numbers of an array
that are not to be kept are passed by a seek, which does not notice the end of the file;
they matter only where nothing is read behind them, at the end of a header without
tensors. `skipped` is how many bytes of the header that may be.

What a report vouches for (`ReportsVouch`) has three parts. Without an error, the
tensors of known size have elements, are aligned, and lie in the file
(`OkMeansReadable`). Tensors of an unknown type, or with rows that are not whole blocks,
are only warned of, and `src/tests/test_inspect.py:240-262` asserts that such a file is
valid; so nothing is said of them there. Without any issue there is no such tensor, and
every payload can be read (`NoIssueMeansWhole`). Of a file that the converter laid out,
the check and the layout together say that it is valid exactly if its last payload is
complete, so that what an interrupted conversion leaves is noticed (`CutIsNoticed`).

### GgufComparison

A file is a sequence of tensors and a sequence of items of metadata. Both are read item
by item into the two dictionaries that `inspect.py` keeps: of a repeated key the last
value, and how often it was there; of an array the length and as many values as
`--max-array-values` allows. Whether two values compare equal is a constant
(`SameValue`), of which nothing is assumed: a NaN is not equal to itself, and 0.0 and -0.0 are
equal.

So "no difference" does not mean the same file. `ComparisonIsExact` says what it means:
the same descriptors in the same order; if tensors' bytes were asked for, names that occur
once, sizes that are known and equal payloads; if metadata was asked for, each key as
often, and its last items alike as far as they are kept. Earlier values of a repeated
key and values beyond the limit may differ, and a file with a NaN differs from itself.
What cannot be compared is reported, never passed over.

### BlockPacking and TernaryPacking

A number is the set of its one-bits, so that shifts, masks and ors are operations on
sets, and encoder and decoder of each format are written as the code has them: which
bits of which element go into which byte. Both are constants: the numbers that an encoder
may choose (`Choices`, `Chosen`, cut to the width of their kind), and what the memory of
a block may have held before (`Memories`, `Held`), which matters since the encoders
partly assign and partly or. `BlockComesBack` asks for the numbers from the decoder, and
of every byte that it holds their bits and no others.

In `TernaryPacking` numbers are small integers and products are taken in eight bits. The
elements are a constant (`Inputs`, `Rounded`), of which only the rounding to -1, 0 or 1
is assumed.

## Runs

Nine runs pass on the whole state space of their instance; `iq_race`, `iq_fused` and
`shell_brackets` are meant to find a violation.

| Run | Instance | Shows |
|---|---|---|
| `pool` | three threads, up to four rows, two tasks | `TypeOK`; no worker is inside a task when `run` is not waiting (`QuiescentOutsideTask`); no row is written twice or out of range; true means encoded; tiles fit their scratch vectors |
| `pool_live` | three threads, up to three rows, two tasks, with fairness | the destructor returns; the pool implements `CpuQuantizer`, which includes that `run` returns |
| `iq_tables` | two callers, five types, coordinated host | kernels read finished, unfreed tables of their own type; nothing leaks |
| `iq_race` | the same, uncoordinated | finding 1 |
| `iq_fused` | the fused path first | finding 2 |
| `chunk_call` | calls of up to four threads and six rows; all grids of up to four points among twelve codes; every single bit of all numbers in seven formats; all values of all bytes of a TQ1_0 block | every thread that runs has its place of the vector (`PlaceExists`); the verdict is true; the call returns; a table fills what was allocated and a lookup finds the nearest; decoders find what encoders stored and nothing else is stored, every ternary element gets its digit back (`BlocksComeBack`) |
| `gpu` | two tensors of seven shapes, up to four chunks | buffers are settled when used; a device buffer is replaced only while nothing queued uses it; verified tensors are right; implements `TensorStream` |
| `converter` | files of up to three tensors of six kinds, five sets of options, writes that fall short | layout, completeness, verification as asked, the GPU when demanded, an old output is kept as long as promised |
| `payload` | up to two plans of eight kinds | the output is a beginning of what the plans ask for, and all of it on success, and the report counts what was written (`OutputIsAsReported`); the importance matrix takes every row once; vectors, scratch memory and the source are large enough; implements `TensorStream`, which includes that the call returns |
| `policy` | files of up to four of twelve kinds of tensors; every role in every layer of its own kind with all file types, with rows that fit all types or some; patterns of up to five characters on texts of up to four | rows are whole blocks; no element is lost, a rearranged shape is recorded and the report adds up (`NothingIsLost`); the options are obeyed in their order; the first two value tensors are favoured; the dynamic policy never chooses less than the mixed one; a match is found exactly if there is one (`MatchIsExact`) |
| `shell_brackets` | patterns of up to three characters, brackets among them, on texts of one | finding 3 |
| `readers` | every pair of offsets with nine shapes, in words of five bits; headers of up to four of twelve names; files of up to three of 24 descriptors, cut at five places; every two files of up to two of seven tensors, and of up to two of ten items of metadata | what the parser accepts lies in the file; names are kept apart; validation names every overlap and only those, and its reports vouch for what they say; comparison reports no difference exactly for files that are the same as far as was asked and is kept |

### Bounds

- `pool`: three threads are the caller and two workers, the fewest with which a
  worker can be skipped (active threads fewer than workers), woken late into the
  next task, or overtake another. Four rows give blocks served inline, by some
  and by all threads, with tiles of one and two rows. Two tasks let state of the
  first meet the second.
- `chunk_call`, threads: six rows on four threads is the smallest case where rounding up
  leaves a thread without rows (shares of two).
- `iq_tables`: `MaxArrays` allows three builds, so a table is built, freed and
  built again while another is in use. The types share a slot, differ in recipe,
  and include one without tables.
- `chunk_call`, tables: coordinates 2, levels 4, codes 12 of 16 (the code, too, maps
  fewer codes than the lattice has points); distances tie often at this size.
- `gpu`: four chunks use each slot twice; two tensors show what one leaves for the
  next; rows of different widths make one device buffer grow without the other.
- `converter`: three tensors allow a GPU tensor before, between and after others.
  Sizes are mostly no multiples of the alignment; chunks are short at the end.
- `payload`: the plans take each way of encoding, sources that can and cannot be read
  in place, scratch memory for less than a row and for some rows, a plan that reaches
  beyond the source; padding is written in blocks of a few bytes instead of 4096.
- `readers`, parser: products and sums wrap at 32 instead of 2^64; all offsets are tried.
- `policy`: four tensors are enough for two favoured values, one behind them, and an
  ignored, excluded or forced tensor anywhere between; the file types are one whose
  policy counts and one whose does not. Where no values are counted, tensors are planned
  alike wherever they stand, and two are enough. So they are for the dynamic policy: one
  to plan, and one that may have the last layer. Rows of 512 fit every type, rows of 96 the
  types with blocks of 32 only, which tells what is chosen from what is stored.
- `policy`, names: two stars with characters between and after them, the least on which
  backtracking has to return twice.
- `readers`, validation: three ranges are the fewest where a sweep that remembers one
  range could miss an overlap with another. The last byte of a header may be passed by
  a seek or not.
- `readers`, comparison: two items are enough for a key that is repeated, in one file or in
  both, and for keys in another order; arrays of one and two values meet a limit of one.
- `chunk_call`, bit fields: numbers of which a single bit is one, and numbers of ones but for one
  bit, in memory of ones. Operators of the encoders and decoders distribute over union, so that
  single bits show what they do; the theorem covers all numbers and memories.
- `chunk_call`, ternary: all 243 values of five digits in each of the 52 bytes, while the
  others hold zeros; the bytes do not depend on each other, and the theorem covers all inputs.

`CHECK_DEADLOCK FALSE` is set because every model ends: a pool is destroyed, a call
returns, a conversion closes or fails.

### Fairness

- The pool: weak fairness of each thread's steps, the scheduler's promise that a
  runnable thread runs. Spurious wakeups are not fair: nothing may rely on them.
- `ForkJoin`: weak fairness of the caller and of each thread; failures are not fair.
- `GpuPipeline`: weak fairness of the host and of the device, which works through
  its stream without further calls; failures are not fair.
- `SafetensorsPayload`: weak fairness of the function's own steps, a sequential call
  that runs, needed for what `TensorStream` promises. That `write()` is not interrupted for ever is assumed, as the code does
  by trying again.
- No fairness elsewhere; the other modules only make safety claims.

### Mutants

Next to a definition that could be wrong in a plausible way stands its mutant, named
in its comment: a wrong rounding, a test of the wrong counter, a missing padding.
Every property of every passing run is violated by at least one of them, so none
holds by the shape of the model alone.

## Theorems

Proved by TLAPS for all values of the constants.

- `RowPartition_proofs`: `RangesAreDisjoint`, `RangesCoverTheBlock`. For every
  number of rows and threads the ranges are disjoint, lie in the block and cover
  it, also where rounding leaves the last threads nothing. The module also holds
  `InductionUpTo` and `RecursionUpTo`, with which facts about recursive functions are
  proved in the other modules: induction over numbers up to a bound, derived from the
  pigeonhole principle, since the library's induction theorems take an operator as a
  parameter.
- `CpuQuantizerPool_proofs`: `TypeCorrect`, `Quiescence`, `NoRowTwice`,
  `TrueIsEncoded`, `TilesFitScratch`. They rest on one inductive invariant. What the
  properties alone lack is the bookkeeping of a task: a worker that has not taken the
  current task has not been counted, `completed_` counts the workers that have
  reported, a worker inside a task has a share computed from the current block and a
  position inside it, and rows are written exactly up to that position. From this,
  `completed_ = max_threads_` leaves no worker inside a task, disjoint shares give at
  most one write of a row, and covering shares that were all finished give the whole
  block. `PoolKeepsPromise` takes from it that every step of the pool is a step of
  `CpuQuantizer` or none; `FailInv` is added, by which false is returned only after a
  tile has failed.
  `NoWakeupIsLost` is the safety behind `DestructorReturns`: the code notifies after it
  has left the mutex, and a notification wakes only who is asleep at that moment. Still
  no worker sleeps through a task or the end of the pool, nor the caller through the last
  report: while someone sleeps whose condition holds, the notification is yet to
  come, or a worker has still to report (`NobodyWaitsInVain`). What makes this
  inductive is `SignalInv`: a caller asleep although everyone has reported has a signal
  on its way.
- `ChunkCall_proofs`, about `ForkJoin`: `TypeCorrect`, `PlacesStay`. The invariant says
  that threads are started in order, that each one started has its place in the vector
  of results and a first row inside the call's (so that the cut takes away only places
  of threads that are not started, which is where the bounds of `RowPartition` enter),
  and that a row that has been written belongs to a thread that has come so far.
  `VerdictsAreTrue` rests on `VInv`: a place of the vector holds the rows of its slice
  once its thread has ended (`PlacesInv`), a slice is written before its thread reports
  (`EncodedInv`), what is left of the vector reaches to the last row (`EndInv`), and the
  sum of the first places is the number of rows before the next slice (`SumInv`). So the
  call is believed exactly when all rows were encoded.
  About the blocks that such calls write and read: `BlocksAreFaithful`, for all numbers
  that an encoder may choose and whatever memory held before. `BlockInv` says, bit by
  bit, what the rounds of each loop have placed so far, and that a field into which later
  rounds or has been cleared or assigned by then; at the end the layout holds the bits
  it names and no others (`Placed`), from which each decoder is shown to undo its own
  layout. For ternary digits (`TernaryInv`), a byte holds the fraction of a number of five
  digits, at most 242, so that no product overflows while it is built; rounding up adds
  less than one 243rd, which carries into no digit, and multiplying in eight bits
  drops exactly the digits already taken (`IsFraction`).
- `IqTables_proofs`: `KernelsReadFinishedTables`, `NoArrayIsLost`, `TypeCorrect`, under
  the assumption `Coordinated`: the host keeps first calls and frees to themselves and
  the fused path does not come first. Findings 1 and 2 show that both parts are needed.
  The invariant says how far each builder has come with its slot (`Progress`), that a
  slot is empty, whole, or in the hands of a builder (`SlotInv`), that calls share a slot
  only when it is finished (`SharedInv`), and that no array is referred to from two slots
  (`DistinctInv`), so that filling or freeing one slot leaves the others as they are.
  About the tables of `Kernels`, for every lattice, grid and number of neighbours:
  `TablesFillTheirMemory`, `TablesFindTheNearest`. By `TablesInv`, the first pass has
  counted what the codes so far need, the second has filled exactly as much, and each
  code that it has passed leads to its own record. The order by distance numbers
  the grid's points without gaps (the ranking is a bijection), and the record ends between two shells
  of equal distance; so it holds whole shells, and as many as were asked for.
- `GpuPipeline_proofs`: `SlotsAreSettled`, `BuffersStayWhileUsed`, for tensors of every
  shape and any number of chunks. The second speaks of each buffer by itself: on the plain
  path the output buffer is replaced behind a queued copy, which uses the input buffer
  only. `StreamInv` says that the stream holds commands of the
  queued chunks only, and that an event follows every command of its buffer; so an event
  that has been passed leaves nothing of that buffer in the stream, and an empty queue
  leaves an empty stream. `RoomInv` says that a pipelined tensor has reserved enough for
  each of its chunks, so that no buffer grows while chunks are under way.
  `VerifiedRowsAreRight` and `StreamIsImplemented` follow the data along the stream
  (`DataInv`): the queued chunks lie behind each other and behind what is written
  (`RowsInv`); what is left of the stream is the end of the commands of those chunks, in
  order (`OrderInv`), so that the number of commands left says how far the device has
  come with a chunk; and that tells which of the four buffers holds the chunk's rows
  and in which form (`ContentInv`).
- `SafetensorsPayload_proofs`: `RoomForEveryChunk`, `ScratchIsBounded`,
  `NothingOutsideIsRead`, for every list of plans and every size of the scratch memory.
  The invariant bounds the rows of a chunk by what the formula of its path allows, ties
  each vector to the rows it was sized for, and keeps `row` within the plan; rows inside
  a plan whose end was checked lie in the mapped source. `OutputIsRight` is an equation
  that each step preserves (`OutputInv`): what is written, followed by what is about to be
  written and by what the current plan has still to produce, is what the plans begun so
  far ask for. `ReportInv` adds the count for the report. `EveryRowIsSummedOnce` follows
  the row counter (`ImatrixInv`). `PayloadIsAStream` needs the converse view of the
  bytes (`StreamInv`): behind a head of whole plans, all written, come the zeros, rows
  and trailer of the current one. The rows that are whole in a beginning of this are
  the rows of the head, followed by the first so many rows of the current tensor, which
  is what a step of `TensorStream` may leave.
- `Policy_proofs`: `AllPlansFit`, `CommandLineIsObeyed`, `FirstTwoAreFavoured`,
  `DynamicNeverDemotes`, for all tensors, file types and policies. The first two follow a
  plan from the rule that made it; the last two need that the counter equals the number of
  decided value tensors among the plans (`CountInv`), since the mixed policy's choice
  depends on it. `NothingIsLostInPlanning` rests on
  `SummaryInv`: tensors are planned in their order, so that what was said of earlier ones
  stays true, and the counts of the report grow with the sets they count.
  About `Patterns`, for every pattern of `*` and `?` and every text: `MatchingIsExact`. By `NamesInv`,
  the text can be cut as the pattern asks exactly if the call under way finds a cut, or
  one of the loops that wait on the stack does with a later place of its star.
  About `SafetensorsSource`, for every header and any size of the words:
  `TensorsLieInTheirFile` and `StrippingKeepsNames`. `SourceInv` says of the entries
  read so far that they lie in the file, also when sums of the check have wrapped, and
  that their names are those of the header; the second theorem adds that removing a
  prefix that all remaining names share keeps different names different.
- `Converter_proofs`: `ConverterTypeCorrect`, `LayoutIsTrue`, `SuccessIsTrue`,
  `OldOutputSurvives`, `GpuIsMeant`. `LayoutInv` adds to the properties that the offsets
  in the header are aligned and each is the one before plus the padded size
  (`HeaderInv`), and where the file position is during and between tensors, less the
  bytes of a short write (`PositionInv`). Between tensors the padded position equals the
  next offset, which is the step from one tensor to the next. `VerificationIsDone` adds
  that the budget left and the tensors verified so far make up the number asked for
  (`CountInv`), and that the largest are chosen before the output is opened (`ChosenInv`).
  About `GgufComparison`, `NoDifferenceIsOverlooked`, for files of any number of tensors
  and items: while a file is read, the dictionaries hold of each key the last value so far
  and how often it occurred (`ReadingInv`); after each stage the reports are exactly the
  differences in what has been compared (`DifferencesInv`). What one reader keeps of two
  items is the same exactly if the items are alike (`AlikeIsKeptTheSame`), and a name that
  occurs once finds its tensor (`UniqueIsFound`), which takes both to the files themselves.
  About `GgufValidation`, `OverlapsAreFound` and `ReportsAreTrue`, for any number
  of tensors: of the ranges swept, the one remembered ends last (`PlaceInv`), which is
  enough to find an overlap with any of them, and the reports are those of what has been
  looked at (`ReportInv`), a warning for every tensor of unknown size among them
  (`WarnedInv`).

Each states a property some run checks, with these exceptions. The type invariants of
`IqTables`, `ForkJoin` and `Converter`, `ScratchIsBounded`, `NoWakeupIsLost` and the two theorems about ranges need no small instance beside their
proof.
`PoolKeepsPromise`, `StreamIsImplemented` and `PayloadIsAStream` state of the three
refinements that initial states and steps are those of the abstract specification; the
runs check them with the fairness that the abstract specifications promise besides.

Assumptions are those stated with the constants (`PoolAssumption`,
`ConverterAssumption`, `ReadersAssumption`, `KernelsAssumption` and so on): at least one
thread, non-zero sizes, a copied tensor is not of a quantized type, numbers of a header
fit their words, there are no more codes than points of the lattice, elements round to
three values; and `Coordinated`
where said. TLC evaluates the former in the runs. Where a run has a bound on tensors,
rows, arrays, lengths or words, the theorem holds for every value of it.

Only model-checked is liveness, which the proof system does not reach: that the pool's
destructor returns (`DestructorReturns`), that a forked call returns (`Returns`), and the
fairness that the three refinements promise. Every safety invariant and every step of a
refinement that a run checks is proved.

## Findings

1. *First calls that overlap* (`iq_race`). `iq2xs_init_impl` publishes the grid before
   the map and the neighbours and treats a published grid as a finished table. Two
   threads that make the first call for a type at once, which the Python binding
   allows since it releases the GIL, can leave one with null or unfinished tables. The
   kernels assert "IQ tables are not initialized".
2. *The fused path never builds tables* (`iq_fused`).
   `quantize_decoded_source_chunk_native` calls the IQ kernels for F16 and BF16 sources
   without `iq_tables_init`; the assertion fails unless an earlier call happened to
   build the tables.
3. *Brackets in patterns* (`shell_brackets`). `src/docs/policy.md:25` says "Patterns use
   shell-style matching." `fnmatch_case` (`cli/quantize/policy.cpp:173-205`) compares a `[`
   literally, so that the pattern `[a]` matches the name `[a]` and not `a`.

Two more disagreements with the documents show in `Policy` and have no run of their own:

- `Wanted` applies a type forced by `--tensor-type` before `--exclude`
  (`src/csrc/cli/quantize/policy.cpp:529`), while `src/docs/policy.md:23` and the help
  (`src/csrc/cli/quantize/options.cpp:82`) say that `--exclude` keeps matching tensors unquantized.
  `OptionsAreObeyed`, proved as `CommandLineIsObeyed`, is what holds.
- A scalar with a forced type reaches `PlanScalar`: `prepare_plans` takes the last
  dimension of a shape that has none (`policy.cpp:545`), where `src/docs/policy.md` promises
  a fallback.

## Not modelled

- What kernels compute: the search for scales and the rounding in floating point, on
  the CPU and on the GPU. The SIMD variants repeat the reference kernels, and the formats
  left out of `BlockPacking` keep one number per field or use grids.
- Most of the repository's lines are generated data: the neighbour tables of the GPU
  kernels (`iq1_neighbours.cuh`, `iq2_neighbours.cuh`, `iq3_neighbours.cuh` and other
  tables) make up more than two thirds of it. They state no behaviour beyond what
  `IqNeighbours` says of the tables' construction. The share of the lines that the
  models translate is small for that reason and stays so.
- JSON grammar, metadata bytes, messages, timings, parsing of arguments, importance
  matrix files (arithmetic in floating point on two file formats).
- What becomes of GPU buffers while an exception unwinds; a thread that cannot be
  started ends the process.
- File identity: that the output path may name the input.

## Plan

Done: the pool, forked calls, tables, GPU pipeline, converter, payload writer, parser,
policy, patterns, inspection and comparison, packing, and proofs about all of them.
Left, in this order:

1. The metadata of a GGUF file: writer and `inspect.py`'s reader as one round trip.
2. Legacy and `imatrix` GGUF importance files: matching of entries to tensors.
