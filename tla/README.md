# A TLA+ verification of dcc_2nd

dcc_2nd sends one big Arrow file to another host: `sender` (main.cc) maps the
file, cuts it into slices, compresses each slice with zstd and sends it over a
TCP connection of its own; `receiver` (main_recv.cc) decompresses the slices
into a mapped output file, validates the result and reports back.

This directory models the parts of the program that carry its logic and checks
them with TLC on small instances. Every safety property and every refinement
that the runs check there is proved with TLAPS for all values of the parameters.

## 1. The system

| component | state | operations | interacts with |
|---|---|---|---|
| `ThreadPool` (util/thread_pool.h) | `tasks_`, `stop_`, `m_`, `cv_`, threads | worker loop, `enqueue`, destructor | used by both programs with `--jobs + 1` threads |
| `FileSlice` (util/file_slice.h) | slices: index, length, chunks | `SplitFile`, `GetBuf`, `LinkCompressChunk`, `SetChunkLinksHeader` | modifies the flags; its offsets must match those that `Server::Recv` works out |
| `SendingFlow` (util/sending_flow.h) and `main` | futures, `args_` | `Init`, `Run` per slice, `Supervise`, `Destory` | header connection first, then a connection per slice; listens for the report |
| `Server` (util/recv_flow.h) | static `slices_num_`, `split_len_`, `reads_max_bytes_`, `start_`, `mmap_`, `slices_th_res_`, `slices_th_num_` | `Run` (accept loop), `Recv` per connection, `Supervise` | all of them on different threads, with hardly any lock |
| `ZSTDCompressUtil`, `ZSTDDecompressUtil` | `args_`; contexts per call | `Compress`, `Decompress` | called by `Run` and `Recv` |
| file header | the text `S<size>#<slices>` | `SendFileSizeOnly` prints it, `Recv` parses it | all the receiver learns about the cut |
| `MMapReader`, `MMapWriter`, `SockFactory` | a mapping, an address | thin wrappers of system calls | |
| `ArrowUtil`, `ValidUtil` (with `RandomUtil`, `ColValue`) | arrays of `--file_rows` elements | `createDataFile`, `readDataFromFile`, `getValidResult` | `--gen_file` and `--verify` of the sender; `Server::Supervise` validates with them |

One transfer: the sender's main thread enqueues `Supervise` (it listens on port
10050), sends `S<size>#<slices>` on a first connection and closes it, and
enqueues a `Run` per slice. The receiver's main thread accepts connections and
enqueues a `Recv` for each. The `Recv` of the first one parses the header and
maps the output file; the others read a 10 byte header and the payload in
rounds, driven by edge triggered epoll, and decompress. The receiver's
`Supervise` waits on a condition variable until `slices_num_ + 1` connections
have been counted, connects to the sender, waits for all `Recv`s, sends `E`,
validates, sends the result and cleans up.

What is hard about it:

* the receiver's threads share plain static variables; what a `Recv` takes its
  connection for depends on what other `Recv`s have stored so far;
* the supervisor's wait, whose predicate changes without its mutex;
* edge triggered epoll: what a round leaves in a socket raises no new event;
* failures on one side (a dead sender, a broken connection, a failed system
  call) that the other side has no timeout for;
* memory freed on one thread and used on another;
* arithmetic: two programs that work out the same offsets independently,
  numbers that pass through text and through 16 and 32 bit integers;
* the validation, whose arrays have the size of a flag and not of the file.

PROJECT.json lists the hazards one by one, with the lines where they bite.

## 2. Modules

| module | what it is |
|---|---|
| `TaskPool` | abstract: what users of the pool rely on (order, once, at most Size at a time, the head does start) |
| `ThreadPool` | the pool with mutex, condition variable and spurious wakeups; implements `TaskPool` |
| `ThreadPoolProofs` | its theorems |
| `FileSlice` | `SplitFile` and the receiver's placement of slices, integer widths as parameters |
| `FileSliceProofs` | its theorems |
| `Wire` | abstract: the order in which the sender uses its connections; `Sender` implements it |
| `Server` | the receiver: `Run`, `Recv`, `Supervise`, with the sender and the sockets as environment |
| `ServerProofs` | its theorems on types, the accept loop and lost slices |
| `ServerReadProofs` | on top of it: the bytes a `Recv` reads and the events it waits for |
| `ServerReportProofs` | on top of both: the supervisor's order, undefined behaviour, one job |
| `MCServer` | the symmetry set for TLC |
| `Sender` | `main`, `SendingFlow`, and the receiver as environment; implements `Wire` |
| `SenderProofs` | its theorems |
| `Codec` | one slice's data: `Compress`, `SendFileSlice`, `Decompress`, with zstd by its contract |
| `CodecProofs` | its theorems |
| `CopyFile` | abstract: a file is copied piece by piece, every byte once, and the end is announced when all are there |
| `FileHeader` | the file header as text: printing, the limit of 17 bytes, `find`, `substr`, `stoul` |
| `Transfer` | a whole transfer with the file's contents: `FileSlice`, `FileHeader`, placement, counting, report; implements `CopyFile` |
| `Validation` | `Transfer` between `--gen_file` and the receiver's `getValidResult` |
| `MCValidation` | for TLC: texts that the header's freed memory may hold |
| `TransferProofs` | the theorems of `FileHeader`, `Transfer` and `Validation` |

Next to a definition there may be a variant of it with a name of its own
(`StopUnlocked` before `Stop`, ...): plausible mistakes in that piece of code.
PROJECT.json lists for every property the variant that violates it, which shows
that the property really depends on the code.

### ThreadPool

A worker's `wait` is three steps: it tests the predicate (`Park`) and goes to
sleep (`Sleep`) while it holds `m_`, and is woken by a notification or
spuriously. The client's critical sections are single steps that need `m_` to
be free; notifications are separate steps. One client thread enqueues and
finally destroys the pool, as in both programs; a callable need not return.

### FileSlice

`ChooseSegment` is the first part of `SplitFile` (default, clamp, remainder),
`PushSlice` one round of its loop, `ReceiveHeader` what the receiver derives.
`Source` and `Target` are the offsets of the two sides. `IntMax` and `UShort`
stand for INT_MAX and 2^16.

### Server

Each access to a variable that other threads write is an action of its own, so
`Recv` is a dozen actions: the test of `split_len_` and `start_`, the store of
`reads_max_bytes_`, the two loads of it, the reads, the second test, and so on.
Steps are merged only where the order cannot be told from outside:

* `++slices_th_num_` and `notify_one()`: the interleavings between them differ
  only in a supervisor that tests the new count by itself, and then needs no
  notification;
* `accept()` and `push_back()`: nobody else looks at the backlog;
* the `get()`s of all futures: a future that is ready stays ready;
* the lookup of `mmap_[index]` in a later round and the loads next to it: a
  later round reads at most what is missing, whatever `reads_max_bytes_` is.

The loads of `split_len_` and `start_` in one condition are one step: `start_`
is stored after `split_len_` and the condition needs both unset.

Data races and other undefined behaviour are outcomes: `ub` says what has
struck, and the receiver takes no more steps then. They are actions of their
own where another thread must be at a certain point (`MapRace`, `VectorRace`,
`UseAfterFree`), otherwise a choice of the action that commits them. `mmap_` has
three kinds of users: a `Recv` that inserts (line 371), `Recv`s that look their
slice up (from line 264 and from line 384 on), and the supervisor that iterates
over it when it cleans up (line 174). An insert that meets one of the others is a
`MapRace`.

The cleanup is two steps, `FreeBuffers` and `UnmapFile`: a `Recv` that is still
running after a torn wait can insert before, between and after them, use a
buffer that has been freed, or decompress into a mapping that is gone (`Dest` is
what its `buf_` points to by then).

The supervisor's `connect()` may be refused without any fault: the sender need
not have come to `listen()` yet. Then `Supervise` returns, its pool thread takes
a `Recv` more, and nobody reports.

Bytes are counted in units. A file header and a slice header are one unit each,
written by one `write()` to an empty socket and therefore read at once; the
payload is `CLen` units, a round can take `Small` (17 bytes) or `Big` (128 KiB
or 6 MiB) units, a socket's receive buffer holds `RcvBuf`. Which slice a
connection carries is its identity; offsets are the matter of `FileSlice`, and
what is in the payload that of `Codec`: here a slice that arrives completely is
restored, which needs a length of at most INT_MAX (`AcceptedExactlyWhen`).

`early` (slices that looked for the header before the file was mapped) and
`torn` (the wait ended although its predicate was false) are history variables;
no action depends on them.

### Sender

`main()`, one action per statement that others can notice; `Run` per slice;
`Supervise`. The report is five units so that TCP can cut it at the two places
where that matters. A failing `Run` tells nobody, as in the code. The receiver
may connect at any time after the header has been sent, which includes what a
torn wait makes it do.

The header is written by one loop that treats a `write()` which gives nothing (0
or EAGAIN) as its end: the connection is closed and `Init` goes on as if the
header had been sent (`HeaderUnsent`). A non-blocking socket that has just been
connected has room for 17 bytes, so this needs a fault; `Wire` allows it under
`Faults` only, and `Server`'s environment has it too. In a slice's loop EAGAIN
tries again, which is no step; a `write()` of 0 to a TCP socket with a length
that is not 0 does not happen there and is left out.

### Codec

The other modules count units; here they have contents. The slice is the
sequence 1 .. `len`, the frame that zstd makes of it a sequence of numbered
units, and the slice header unit 0. What zstd does is known by its documented
contract only: how much input it takes, how many units it adds to the frame and
how many it holds back is its choice in every call, within what the two loops
of `Compress` rely on (`CompressStream2`, `DecompressStream`).

One round of a loop is one action, since all of it is private to the thread
that runs the slice. `mem` are the `malloc()`ed buffers, `compress_buf_` the
list of chunks that points into them, so that a buffer that is filled again
after it was linked, or freed by two owners, shows. Whether calls may fail is
chosen in `Init`. When the compressed length does not fit the header, `Recv`
either stops at a part of the frame or reads past its buffer, depending on how
its rounds fall; `Gather` has both. Two leaks are part of the model or noted
only: the last output buffer, which `Compress` returns and `Run` drops
(`BuffersOwned` says it is the only one), and `Decompress`'s context.

### FileHeader and Transfer

`Transfer` extends `FileSlice`, whose actions are its first steps, and
`FileHeader`. Characters are digits of base `Base`, `S`, `#` and anything else;
`HeaderMax` is the 17 bytes of `Recv`'s only round for the header.
`WriteHeader` writes the text, or any text of the same length out of `Garbage`:
`h` points into a temporary `std::string` that is gone (sending_flow.h:144), so
what `write()` finds there is up to the allocator. `Garbage` is any set of
texts; the run has six kinds of them, from one that is no header at all to a
header with other numbers.

The file's byte at offset b is b + 1, so that a byte in a wrong place shows.
Slices arrive as the sender's pool lets them (`Arrive`: at most `jobs` Runs
overtake another one) and each is put into the output file later, at any time
(`Place`). `slices_th_num_` has 16 bits; the wait compares it, as C++ does, as an
unsigned number (`Counted`). Reads and writes behind the end of a mapping are
lost in its last page or kill the process (`overrun`). The slices come after
the header has been parsed: what happens when they overtake it is in `Server`,
and so is what a torn wait does.

`Promised` says for which inputs the program copies the file: at most 2^15 - 1
slices, a rest of fewer bytes than slices (or one slice), and a header that
fits and was still there to be written. Then `ImplementsCopyFile` holds.

### Validation

`createDataFile` fixes the number of rows of the file: row r is the unit r of
it, the rest is what Arrow needs, and the last unit is the footer without which
the file cannot be opened. After the report, `OpenTable`, `ReadBatch` (one per
record batch, of any size) and `Sample` (one round of the three loops) are
`getValidResult`. The four columns use the same indices, so one stands for all;
the sequence of sampled values stands for their printed average.

### Composition

`Server` and `Sender` use the pool as `TaskPool` promises, and `ThreadPool` is
shown to implement `TaskPool`. The connections are where the two programs meet:
`Sender` is shown to implement `Wire`. `Server`'s environment is written from
the same lines of the sender and has the same guards, but this is not a checked
refinement: the receiver closes connections too. `Transfer` takes one connection
for two steps, a slice arriving and a slice being placed, which is what `Server`
(`LossOnlyIfEarly`) and `Codec` (`RoundTrip`) show of a connection that is
neither early nor broken, and composes them with `FileSlice` and `FileHeader` to
the copy of a file.

## 3. Runs

| run | instance | shows |
|---|---|---|
| `thread_pool` | 3 threads, 3 tasks | no lost wakeup, queue drained, `TaskPool` implemented with its liveness, destructor returns |
| `file_slice` | files of 1..20 bytes, 1..7 jobs, 11 segment sizes, INT_MAX 6, 2^16 scaled to 8 | tiling, lengths, when placement is right, termination |
| `big_file` | the same with the default segment size | **violation**, see findings |
| `server_parallel` | 2 slices of 2 units, 2 jobs, a receive buffer of 1 unit, no faults | stranded connections, losses and undefined behaviour only where explained, completeness of the report |
| `server_faults` | 1 slice of 4 units, 2 jobs, faults | the same with everything failing, and stranded bytes |
| `server_single` | 1 slice of 5 units, 1 job, a round and a receive buffer of 3 | nothing is early, everything arrives, undefined behaviour only where explained with one job |
| `torn_wait`, `lost_wakeup` | 1 slice | **violations**, see findings |
| `sender` | 2 slices, 1 job, faults | `Wire`, the report in any pieces, the sender exits |
| `compress_level` | 1 slice, 1 job | **violation**, see findings |
| `codec` | slices of 1..6 units, frames up to 11, INT_MAX 4, 2^32 scaled to 10, faults | chunks are sent once and in order, what is accepted is what was read, when it is accepted, who frees what |
| `end_to_end` | files of 1..8, 49 and 343 bytes, 1..3 jobs, segment sizes 0..3, 0, 2 or 5 rows, base 7, 17 bytes scaled to 5, 2^16 to 8, INT_MAX to 5, STEP to 2 | when the header is understood, that the transfer implements `CopyFile`, what is read back and reported, that the wait ends |

Why these bounds are enough to be interesting:

* three threads and three tasks let a notification reach a worker while another
  one is about to sleep and a third runs, and leave a task queued;
* file sizes up to 20 with INT_MAX 6 reach the clamp with and without a rest
  and with a rest larger than the number of slices; 2^16 = 8 reaches the wrap
  of the index and of `slices_num`;
* two slices and two jobs give two `Recv`s that race each other and the header,
  and a third connection in the queue; a receive buffer of 1 keeps the number of
  states down and still lets a slice take several reads and rounds;
* `Small` < 1 + `CLen` means a `Recv` with a shrunk `reads_max_bytes_` cannot
  read a slice at once, and `CLen` > `Big` - 1 needs several rounds;
* one slice suffices for faults: the code handles no failure across slices;
  and for one job, where slices are received one after the other. The proofs of
  the same invariants are for any number of slices;
* a slice whose receive buffer holds more than a round (Linux grows them to
  several MiB, a round is 128 KiB) may stall, and no property says otherwise:
  `NoStrandedBytes` and `SingleJobDelivers` have `RcvBuf <= Big` in their
  formulas, and the runs set `RcvBuf` = `Big`, the limit of it;
* `codec`: `Limit` 3 gives slices with small buffers (1 in, 2 out) and with big
  ones (3 in, 4 out), several input chunks and several output chunks for one of
  them, empty chunks, and lengths on both sides of INT_MAX and 2^32.
* `end_to_end`: base 7 and 5 characters let a header fit for up to 6 slices, lose
  a digit of the number of slices for 7, all of it for 49 bytes and the `#` for
  343; 8 slices wrap `slices_num` to 0. `slices_th_num_` becomes negative with 3
  slices (the last number for which waiting is right), and ends the wait too
  early with 4 to 6. Up to 3 slices are placed in every order. 0, 2 and 5 rows
  are less than, as many as and more than `--file_rows`, and 5 with STEP 2
  overflows `i` at INT_MAX 5.

Deadlock is checked in `codec`, where it would mean that a loop cannot go on.
The others stop by design: `SplitFile` and the pool's client come to an end,
the receiver never exits and its pool waits for work, and a transfer that lost
a slice hangs. The progress that can be expected is stated as liveness
properties.

Fairness: weak fairness of each thread's steps (the kernel schedules threads
that can run), of the pool starting a task (implied by `ThreadPool`), and, in
`Server`, of the sender going on with what it began. A callable of the pool,
faults, spurious wakeups, and the moment main destroys the pool have none.
Nothing is assumed of the receiver in `Sender`, since it may sleep for ever
(`lost_wakeup`), and for the same reason nothing of `WaitEnds` in `end_to_end`;
there the rest of the steps has weak fairness as a whole, which is enough as
every behaviour is finite and no other step waits for anything but another one.

What a liveness property needs beyond that is in its formula. `JoinReturns`:
callables end. `SingleJobDelivers`: one job, no faults, `RcvBuf <= Big`, a wait
that is not torn and a supervisor that is not refused. `SenderFinishes`: nothing
fails, the receiver is not refused, takes what a Run writes, and reports once
all connections are closed, in pieces that are not the two bad ones.
`TransferEnds`: the wait is not slept through (it lasts although its predicate
stays true), the header that was meant was written, and there are fewer than
2^16 - 1 slices.

## 4. Findings

1. **big_file**: with default flags, a file so big that the segment is clamped
   at INT_MAX, and a rest of at least as many bytes as there are slices, the
   receiver's `file_size_ / slices_num_` is not the sender's segment size and
   slices are written to wrong offsets. `RestoredExactlyWhen` is the exact
   condition, `DefaultIsSafe` the safe range.
2. **torn_wait**: the supervisor's predicate loads `slices_num_` twice; if the
   header is parsed in between, the wait ends early.
3. **lost_wakeup**: `slices_num_` is stored without a notification and the count
   changes without the mutex; the supervisor can sleep for ever.
4. **compress_level**: `Destory` frees the compression arguments before the
   slices that read them have run.

Four more behaviours are not stated as violated claims, since nothing in the
repository claims the contrary, but properties describe them exactly:

* with two jobs or more in the receiver, a slice that is served before the
  header is refused (`LossOnlyIfEarly`; with one job `SingleJobNeverEarly`);
* after a torn wait the supervisor cleans up under `Recv`s that are still at
  work, also with one job (`UBExplained`);
* a header of more than 17 characters is misread, silently if only the number
  of slices is cut (`HeaderReadExactlyWhen`), and 2^15 connections make
  `slices_th_num_` negative, which ends the wait at once (`Promised`). With
  2^16 - 1 slices it can also wait for a count that has gone (`TransferEnds`);
* a receiver whose `--file_rows` is less than the rows of the file, as the
  default 1 nearly always is, writes behind its arrays (`RowsReadBack`).

## 5. Proofs

All theorems are checked by TLAPS from the constants' named assumptions alone.

`ThreadPoolProofs` (any finite non-empty set of threads, any set of tasks):

* `TypeCorrect`, `NoLostTask`, `NoLostStop`, `Drained`: the four invariants of
  the run. None but the first is inductive. The strengthening adds who may hold
  the mutex (at most one thread, and exactly the one in `test` or `parking`),
  that a worker that has decided to sleep still sees an empty queue, and that
  workers leave only after `stop_` with an empty queue. `NoLostTask` is a count:
  as long as anyone sleeps there are as many workers on their way to the queue
  as tasks in it, the notification that is due (`AwakeInv`) included. "Some
  worker is awake" would not be inductive, and counting a busy worker as awake
  would be too weak: it may be busy with `Supervise`, which waits for the very
  tasks in the queue. Without the mutex it fails, as `EnqueueUnlocked` shows.
* `PoolRefinement`: initial states and steps of `ThreadPool` are initial states
  and steps, or stutters, of `TaskPool`. It needs that no task is in two places
  (queue, running, done) and that each worker runs a task of its own, from
  which the number of running tasks is bounded by the number of threads.

`FileSliceProofs` (any file sizes, job counts, segment sizes, INT_MAX, 2^16):

* `TypeCorrect`, `LengthsFit`, `Tiling`, `Placement`, `DefaultFlags`. The
  inductive invariant says that after k rounds there are k slices, slice i has
  index (i - 1) modulo 2^16 and, but for the last, length `segment_size`, and
  that `f_index` is k segments, or the whole file once the last slice with the
  rest is pushed. From the shape of the finished sequence, tiling is division
  with remainder; `Placement` is the lemma that
  `(n * q + rest) \div n = q` exactly when `rest < n`.

`ServerProofs` (any finite non-empty set of slices, any number of jobs, any
`CLen`, `Small` < `Big` and `RcvBuf`, with and without faults):

* `TypeCorrect`, `BacklogServed`, `LossExplained`. The inductive invariant
  `IInv` has, beside the three: where a `Recv` is in its round and what its
  locals hold there (`RoundInv`: nothing has been read yet before `read()`, a
  slice that has parsed its header is in `mmap_`); that only the `Recv` of the
  header stores `split_len_` and `start_`, and never goes back (`HeaderInv`);
  that a slice which goes on past its first test was early or the file is
  mapped (`EarlyInv`); how much has been sent (`WireInv`); and that each
  connection is at most once in the backlog or in the pool's queue
  (`QueueInv`), without which `Accept` and `Start` could set a running `Recv`
  back to its start. `LossExplained` is where they meet: a slice is refused
  when the second test finds the header unknown, the mapping is never undone
  (`munmap()` leaves the pointer `start_` as it is), so it was unknown at the
  first test. The other ways to return -1, a reset connection, zstd and epoll,
  are told apart by where the `Recv` stands when it does.

`ServerReadProofs`, on top of `ServerProofs`:

* `BytesServed`. That a sleeping `Recv` has an event to come is not inductive:
  what it leaves in the socket is decided several steps before it sleeps. The
  strengthening `ReadInv` counts the bytes (`ByteInv`: what was taken from the
  socket is what has been accounted for, plus the unit of the slice's header),
  says who can have changed `reads_max_bytes_` and what the copies of it in
  progress are (`SizeInv`; `LargeInv`: as long as nobody was early they are
  the large size), that a `Recv` that was woken finds something, so that a round
  that reads nothing ends a dead connection only (`WakeInv`; the header's may
  also have been closed unsent if there are faults), and that in the
  steps after a read whatever is left has an event (`EdgeInv`).

`ServerReportProofs`, on top of `ServerReadProofs`:

* `ReportsLast`. The wait ends with a count, the report needs to know which
  connections were counted: `VectorInv` says that each connection is in
  `slices_th_res_` once and the count is never ahead of the vector, so that
  N + 1 of them are all of them (`AllThere`, by the pigeonhole principle);
  `SupInv` carries the value of the count through the supervisor's steps.
* `CausesKnown`. Every undefined behaviour is traced to its cause: where the
  pointer came from (`BufInv`), how many threads were busy (`BusyInv`, counted
  against the size of the pool), and whether the supervisor was ahead (`SupInv`).
  A `Recv` that is still running while the supervisor cleans up was not among
  the futures it collected, so the wait was torn (`NotCollected`).
* `HeaderFirst`. The header is the first of every queue it passes through
  (`FifoInv`), and the only thread it can meet is kept by `Supervise`, unless
  that was refused (`SingleInv`, `BusyInv`).

`SenderProofs` (any number of slices and jobs, any `CLen`, with and without faults):

* `TypeCorrect`, `ReportRead`, `WireRefinement`. `QueueInv` (no task twice in the
  queue, slices enqueued in order, `Supervise` only while it is queued) is what
  keeps `Start` from running a slice again; `HeaderInv` and `SliceInv` tie main's
  and the Runs' places to how far their connections are, from which each step
  on a connection is one of `Wire` (`HeaderUnsent` is the close that `Wire` allows
  under `Faults`); `ReportInv` says that what `Supervise` has
  read always ends at one of the cuts of the stream.

`CodecProofs` (any lengths of slices and frames, INT_MAX and widths):

* `TypeCorrect`, `InOrder`, `RestoredExactly`, `Acceptance`, `Ownership`. The core
  is `LayoutInv`: there are numbers P such that chunk i holds the units of the
  frame from P[i] on, in its own buffer, and the wire holds what is in front of
  the next unit. The list of chunks only says how long each is, so their starts
  have to be guessed (an existential), and each step of `Compress` extends the
  guess by one. `InputInv` says that zstd has been given the slice up to where
  `Compress` stands, `StageInv` what each place in the slice's story still knows
  of the earlier ones, `RestoreInv` that what is restored is a prefix, and
  `OwnerInv` who has which buffer.

`TransferProofs` (any base and buffer of the header, any file, any cut, any order
of the slices, any division of the rows into batches):

* `HeaderExact`. `Digits` and `Value` are recursive functions. The library's
  theorems on induction and recursion take operators as parameters, which the
  provers cannot instantiate; `Induction` says the same with a set in their
  place, and follows from the theorem that the order of the numbers is well
  founded. With it: the recursive definitions have solutions, the digits of a
  number are digits and give the number back (`stoul` of what was printed), and
  fewer digits give a smaller number. So a header that is cut in the number of
  slices is taken for fewer slices, never for as many; `UnreadInv` and
  `ParsedInv` carry this through the transfer, for a text that has survived until
  it is written.
* `CopyRefinement`. On top of `FileSliceProofs`' `IInv`, which is part of the
  invariant: `CutInv` (the cut does not change any more), `CountInv` (the 16-bit
  count is that of the connections that have arrived) and `PlacedInv`, which says
  of a promised input that the output is exactly the bytes of the slices
  written so far. That slices are disjoint and cover the file is
  `SlicesTile`; that the report waits for all of them is the count, which below
  2^15 slices says what it means. `PromisedCut` is the link to `HeaderExact`: if
  the file is to be copied, the header on its way is the one that was meant.
* `AllTypes`, `RowsInPlace`, `ResultRight`: `RowsInv`, `ReadBackInv` and
  `SamplesInv` say what has been read and sampled so far. `Step` times the number
  of samples is where the loop stands, which bounds where it overflows.

The inductive invariants were checked with TLC on the runs' instances as well,
all but `LayoutInv`, whose P range over all numbers.

The SMT encoding of this version of the prover says of every function, not only
of every sequence, that its domain is `1 .. Len`. An obligation that has `Len` in
it and a function with another domain (the connections are numbered from 0)
could be proved from that alone. The proofs were therefore checked a second time
with the encoding corrected (`DOMAIN s = 1 .. n` implies `Len(s) = n`, and not
the other way round); every leaf cites what it needs to hold there too.

Two assumptions on constants are stronger than needed to write the model down:
`UShort > 1` (a count of one connection fits) and `Base > 1` (a numeral system).

Only model-checked is liveness, which the prover does not handle: the liveness
part of `ImplementsTaskPool`, `JoinReturns`, `SplitEnds`, `SingleJobDelivers`,
`SenderFinishes` and `TransferEnds`. The four violations are counterexamples
that TLC finds.

## 6. Not modelled

* zstd and Arrow themselves: zstd's contract is assumed, and how Arrow cuts a
  table into batches and which damage of a file it notices is left open;
* averages, floating point and the wording of the result: `Validation` compares
  the values that are averaged; a negative `--file_rows`;
* `RandomUtil`, `ColValue`, `SockFactory`: random numbers, a struct, and an
  address that is filled in before there is a second thread to ask for it;
* `MMapWriter::MMapWriting` and `SockFactory::MakeSockets`, which nothing calls;
  the demos, which no target of CMakeLists.txt builds;
* memory allocation failures, except that of zstd's contexts.

## 7. Plan

Done: all modules of section 2 and their runs, and the proofs of all the safety
properties and refinements that the runs check. Left
are theorems about what the liveness properties rest on: for each of them, the
invariant that says why a thread that waits can still be woken (for `Server`,
that a supervisor that sleeps with all connections counted has missed the store
of `slices_num_`, as `lost_wakeup` shows).
