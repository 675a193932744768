# TLA+ verification of cpp-example-code

The repository is a collection of C and C++ programs. Most of it is vendored
(spdlog, npcap, SimpleIni), generated (protobuf) or a demonstration of a
library. The parts with logic of their own are a C++ thread pool, a
multi-reactor HTTP server in C, hash tables and an integer coding in C, a
logging facade over spdlog, and two operating-system algorithms. This directory
models those parts in TLA+, model-checks them with TLC on small instances, and
proves the main safety properties of most of them with TLAPS for every instance.

`PROJECT.json` is the index: components, runs, mutants, the map from
definitions to source lines, hazards and theorems. Definitions
named "Mutant" in a comment are altered copies of an action, used to show
that a property can fail; no specification uses them.

## 1. Inventory

### The system's parts

| Component | Source | State | Operations |
|---|---|---|---|
| thread pool | `ThreadPool/ThreadPool.h` | `tasks`, `stop`, `queue_mutex`, `condition`, `workers` | constructor, worker loop, `enqueue()`, destructor |
| event loop, channel map | `httptest-geektime/lib/event_loop.c`, `channel_map.c`, `channel.c` | pending list, `is_handle_pending`, socket pair, channel map | add, remove and update a channel event, wake up, run |
| epoll dispatcher | `lib/epoll_dispatcher.c` | the epoll set | add, del, update, dispatch |
| acceptor, TCP server | `lib/acceptor.c`, `tcp_server.c`, `utils.c` | listening socket, the pool's `position` | accept and hand over a connection |
| sub-reactor start-up | `lib/event_loop_thread.c`, `thread_pool.c` | per thread: `mutex`, `cond`, `eventLoop` | start, init, run, choose a loop |
| TCP connection | `lib/tcp_connection.c` | input and output buffer, channel, request | read, close, send, shut down |
| network buffer | `lib/buffer.c` | block, `readIndex`, `writeIndex`, `total_size` | append, read from a socket, make room, consume |
| HTTP callbacks | `lib/http_server.c`, `src/http_server01.c` | request state | parse, answer, reset |
| HTTP text | `lib/http_request.c`, `http_response.c` | header arrays | add and get headers, encode |
| poll dispatcher | `lib/poll_dispatcher.c` | `pollfd` array | as epoll |
| hash table | `c-hacks/src/hashtbl.c` | buckets, `nentries`, `resize_threshold` | create, insert, lookup, remove, clear, resize, apply, iterate, delete |
| linked hash table | `c-hacks/src/linked-hashtbl.c` | the same, and a list of all entries | the same, with access order and eviction |
| LEB128 | `c-hacks/src/leb128.c` | none | encode and decode integers |
| logging facade | `spdlog/utils/logging.cpp`, `logging.h` | `g_sink`, the SIGSEGV handler | `LogInit()`, `GetSink()`, the macros, `SystemErrorHandler()` |
| daily file sink | `spdlog/spdlog/include/spdlog/sinks/daily_file_sink.h`, `details/file_helper-inl.h`, `details/circular_q.h`, `logger-inl.h` | open file, `rotation_tp_`, `filenames_q_`, mutex | log, rotate, remove old files, flush |
| dining philosophers | `操作系统算法/哲学家就餐问题/main.cpp` | one mutex per chopstick | one thread per philosopher |
| banker's algorithm | `操作系统算法/银行家算法/banker.c` | `MAX`, `Allocate`, `Need`, `Available` | initialise, request, check, undo |

What is not modelled is in section 7.

### How they interact

* A client of the thread pool calls `enqueue()`, which pushes under
  `queue_mutex`, unlocks and then notifies. Workers wait on `condition`; a
  running item may itself call `enqueue()`; the destructor sets `stop`, notifies
  all and joins.
* The main thread of the HTTP server runs an event loop with the listening
  socket. A connection it accepts is given to the next sub-reactor: the channel
  goes to that loop's pending list under the loop's mutex, and a byte in the
  loop's socket pair ends its `epoll_wait()`. The sub-reactor then owns the
  connection: it reads into the input buffer, parses, calls the application and
  writes the answer. Only the pending list is shared by intent; the main thread
  also still writes `tcpConnection->data` after the hand-over.
* `thread_pool_start()` starts the sub-reactors one after the other; for each, the
  main thread waits on a condition until the new thread has its loop.
* Built without epoll, the server waits in `poll()`: the dispatcher keeps an array
  of descriptors which the handlers of its own loop change.
* Threads log through one of four loggers. A record takes its time, then the
  mutex of the logger's file sink, which rotates the file at midnight; a record of
  level `err` and above takes the mutex again to flush. An exception in a sink
  calls `exit()`; a SIGSEGV logs a stack trace on the main logger and then kills
  the process. The next process appends to the same files.
* The hash tables are sequential. What is shared with the caller is the
  ownership of keys and values: the table frees what it was given.

### What is hard, and what would be correct

| Behaviour | Correct when |
|---|---|
| notify outside the lock, spurious wake-ups, a destructor that overlaps `enqueue()` | no queued item with everybody asleep; accepted items run once, in order, before the destructor returns |
| hand-over of a channel with a wake-up byte | no registered channel is forgotten; a full socket pair does not block for good |
| descriptors closed and reused while events are still to be handled | an event leads to the connection that epoll reported |
| fragmented, pipelined and slow clients | every whole request is answered once |
| start-up handshake | the main thread never takes a NULL loop and never sleeps past the signal |
| overlapping move inside the buffer, failed `realloc()` | the buffer stays a byte queue inside its block |
| resize of a hash table with colliding keys and failing allocations | a map; every object freed exactly once; the iterator visits each entry once |
| eviction inside an insertion, access order, iteration while the table changes | an ordered map; only the eldest entry goes; an iterator meets what stays |
| a poll array changed by the handlers of its own scan, at its limit | array and channel map agree; the scan stays inside |
| sign and width at the last group of an integer | decoding gives back what was encoded |
| midnight, faults and restarts between any two steps of a log call | files keep every thread's order; errors and the trace reach the disk; only old files go |
| lock order of the philosophers | nobody waits in a circle; everybody eats |
| the in-place safety scan of the banker | a positive verdict is right; a refused request leaves no trace |

Every hazard is listed with its source line in `PROJECT.json`, with the
properties that cover it or the reason none does.

## 2. Modules

`MC*` modules hold the constants of the TLC instances, `*Proofs` modules the
theorems.

### ThreadPool

One program counter per thread. A worker goes through lock, check (the wait
predicate), waiting, running; `enqueue()` through lock, push (or throw, when
stopped), notify; the destructor through lock, stop, notify all, join. Items
running on a worker may call `enqueue()`. `notify_one()` wakes any sleeping
worker or nobody; spurious wake-ups may happen at any time. `accepted`,
`started` and `finished` are histories.

### Reactor

The server after start-up: `thread_number` sub-reactors, any number up to
`MaxThreads` chosen at the start, or none, in which case the main loop serves
connections too. The kernel is modelled by what the
code sees: what is queued on each socket, whether the peer closed or aborted,
which descriptors are open, which connections each epoll set reports, and the
bytes in each socket pair.

* `epoll_wait()` returns all events that are ready; fewer than `MAXEVENTS`
  (128) are ever ready in the instances. Events are handled one at a time, in any order.
* Appending to a pending list is one step, since it is done under the loop's
  mutex. Handling the list is step by step with `is_handle_pending`.
* A write to a full socket pair blocks (`WakeCap`).
* `handle_connection_closed()` does not close the descriptor, so it stays used;
  the dispatcher closes it on `EPOLLERR` or `EPOLLHUP` and leaves the entry in
  the channel map. `accept()` failing is not tested by the code.
* `assert()` is active, since the build does not define `NDEBUG`; its argument's
  side effects are kept.
* `channel_write_event_enable()` passes a `tcp_connection` where an
  `event_loop` is expected. The outcomes follow from the layout of the two
  structures: a mutex at the place of a function pointer, `is_handle_pending`
  over `output_buffer`. They are a hang or a crash, and the model chooses
  between them. Because of it the update path and `handle_write()` are not
  reachable.
* `data` is stored after the hand-over: a request served before finds it
  uninitialised, which the model turns into a crash.
* A request is two pieces, head and tail. The tail says whether the client asks
  for the connection to be closed. Requests are HTTP/1.1. A client may send
  several before it has an answer; one is answered per read, and what is behind it
  stays in the input buffer.
* The process may open `fd_limit` descriptors for connections, any number of
  `FdLimits`.

### Buffer and ByteQueue

`Buffer` is `struct buffer` with its memory as a function from offsets to
bytes. `make_room()`'s forward copy is one step per byte, so that an overlapping
move that overwrites unread bytes would be seen. `buffer_socket_read()` reads
into the block and, beyond it, into the 65536-byte spill area and appends that;
in the model the spill takes what the block does not. `realloc()` may fail at
any time: `make_room()` then returns without room and without a word (`nomem`
remembers it), and the `memcpy()` of `buffer_append()` writes past the block
(`CopyPast`, remembered by `overrun`), after which nothing is modelled.
`ByteQueue` is what the buffer promises. The refinement mapping reads the unread bytes between
the indexes; during a move the first `i` unread bytes are already at the front
and the others are still at their old place. The `int` overflow of `total_size` is left out.

### LoopThreads

`thread_pool_start()` and `event_loop_thread_run()`, each lock, test, wait,
signal and unlock a step, with spurious wake-ups.

### HashTbl and Dictionary

`HashTbl` has every operation of `hashtbl.c`. A resize moves one entry per step
from `h` to `tmp`; `hashtbl_create()`, `hashtbl_resize()` and the automatic
resize of `hashtbl_insert()` share these steps, as they do in the code. Any
allocation may fail. `owner` says who has to free an object; key objects can be
equal (same `Name`) and yet distinct objects, since an insertion that replaces
leaves the new key object with its caller. The load factor is in percent. The
mask of `tbl_entry_ref()` is a remainder, which `TypeOK` justifies: the size is
always a power of two up to `MaxSize`. The iterator is ended by operations that change the
table's structure, about which the header promises nothing. Values are never NULL.
`Dictionary` is the map the table promises, with one action for each thing a call
can report: inserted, no memory, removed, absent, cleared. `ret` is what the call
that has just returned reported, with its name and value, so that the map may
change at such a report only and exactly as it says; a failed insertion, a step of
a resize or a lookup may not change it.

### LinkedHashTbl and OrderedMap

`linked-hashtbl.c`: the chains and the list through all entries, each operation
a step, since the code is sequential and every allocation failure leaves the
table as it was. An insertion adds the entry, evicts the eldest one if the
evictor (an entry limit) says so, and then resizes. Lookups in access order move
an entry to the front. The iterator holds the entry it will return next, as in
the code, while every other operation goes on; it ends when that entry is
removed. In access order a lookup may move an entry past the iterator, or the
entry that it stands on: iterators that this misleads are ended too, see
section 5. `OrderedMap` is what the table promises.

### Leb128

The loops of the four coders, a byte per step, for integers of a given width;
`long` and `long long` differ in the width only. Widths that are a multiple of
seven, one above and one in between decide which bits the last group has.

### PollDispatcher, HttpRequest and PollServer

`PollDispatcher` is the `pollfd` array with `poll_add()`, `poll_del()` and the
scan of `poll_dispatch()`; `HttpRequest` is `parse_http_request()` over lines,
with the number of headers, the version and the Connection header. `PollServer`
composes them with the channel map, the TCP connection and clients: one event
loop that accepts, reads, parses, answers and closes. A line is a token, so is
its CRLF. A client sends whole requests or pieces, several before an answer,
reads when it likes, and goes away at any time. What the code does in error is
a value of `fault`: the parser spins on half a request, an assertion fails, the
header array overflows, NULL is compared, or write events are enabled through the
wrong pointer. Of a header line without ": " the parser consumes two bytes; the rest is
the next status line. If it has fewer than two spaces the assertion fails; otherwise
it is a request that no client made, and is answered as request `Phantom`.

### DailyFileSink and Logging

`DailyFileSink` has the operators of one sink and its files: open, close, flush,
write, the next rotation, the retention queue and its initialisation from the
files found. Time is counted in hours; local time (`Wall`) is the hour plus an
`Offset` of 0 or 1 that may change at any hour, so that a day has an hour less or
more, and `Date` is the day of local time. A rotation is set 24 hours after the
midnight that `mktime()` finds with the offset in force, and old files are looked
for 24 hours at a time, as in the code: neither is the next or the previous day
when the offset changes. A day has `DayHours` hours.

`Logging` is the process: `LogInit()` builds the sinks, reading the
clock three times for each; a call stamps the record, sinks it under the mutex,
rotating with the mutex held over open, write and removal, and flushes in a
second critical section. The next of the `Moments` may come between any two steps.
Empty files of the days `Old` are there at the first start. `stdio` may
empty its buffer at any write. Opening and removing may fail, which ends the process through
the error handler, or makes `LogInit()` return false while the program goes on
with the loggers it has. A fault calls the handler once and kills the process at
the second. A step that takes a mutex and holds it for that step only is one
action. The console sink and the formatting are left out. Assumed: the
system clock is not stepped back, the offset changes at full hours and by one
hour, so that the date never goes back, and a thread faults
between its log calls only. A fault inside one, with the sink's mutex held,
would make the handler wait for that mutex for ever.

### Philosophers

`ThreadFun()` of `main.cpp`: the last philosopher takes the chopsticks in the opposite order.

### Banker

The menu of `banker.c`. The safety scan `is_safe()` is one step per process
looked at, including its restart; `try_allocate()` and `return_back()` are
actions. Processes' claims and grants are entered by the user; inputs are
non-negative numbers that the program's own tests accept. Printing is left out.

## 3. Runs

Each run's configuration is in the file of the same name.

| Run | Shows |
|---|---|
| `threadpool` | 2 workers, 2 clients, 3 items: order, no lost wake-up, the destructor drains; accepted items run, the destructor returns |
| `reactor_safety` | 0 to 2 sub-reactors, one client that asks to close and may abort, one that sends its two requests in pieces or together, one descriptor to share or two: no lost registration, events lead to the right connection, pieces are conserved |
| `reactor_liveness` | 0 to 2 sub-reactors, 2 orderly clients: registered, answered, close noticed; the process stops only through the race on `data` |
| `poll_server` | array and channel map agree and the scan stays inside; a client gets the answers to its own requests in order, and others only to the rest of a header line without ": "; a well-behaved client gets all its answers; a client that has gone is forgotten and its slot free |
| `buffer` | a byte queue, and no write past the block unless `realloc()` failed |
| `loop_threads` | no NULL loop, all sub-reactors start |
| `philosophers` | the six of `main.cpp`: no circular wait, no deadlock, each eats again and again |
| `banker` | resources conserved, positive verdicts right, refusals undone, the scan ends although it restarts |
| `hashtbl` | the table is a map, also during a resize and after failures, and changes only as its calls report; entries found and counted, load bounded, memory freed once, iteration complete |
| `linked_hashtbl` | list and chains agree, memory freed once, iterators in both directions meet every entry that stays, an ordered map with eviction of the eldest |
| `leb128` | every number of three widths comes back, whatever follows it in the buffer, in the fewest bytes |
| `logging` | files keep what each thread logged in order, also over midnight and restarts, and on its day but for the hour after a short one; returned errors are on disk; a lone fault leaves its whole trace; a file is removed only when `max_files` newer ones exist, and no later, but around a change of the clock |

The type invariants of ThreadPool, Buffer, LoopThreads and Philosophers, with
`MutualExclusion`, `StopWakesAll`, `InBounds`, `NoLostSignal` and
`NeighboursExclude`, are proved and not checked by a run; those of the other
modules are a conjunct of the first invariant of their run.

### Bounds

* ThreadPool: two workers are the least that can miss a notification meant for
  the other; three items let an item enqueue another while a third is queued.
* Reactor: two connections and one or two descriptors give reuse of a
  descriptor and two events in one batch, two loops give hand-overs in both orders,
  `WakeCap` 1 makes the socket pair full at once. `MaxReq` and `Pipeline` are 2 in
  `reactor_safety`: a second request, or half of one, arrives behind the first
  and waits in the input buffer. They are 1 in `reactor_liveness`.
* Buffer: a block of two bytes and up to four unread ones (`MaxUnread`) make
  moves that overlap, growth, and reads that spill.
* LoopThreads and Philosophers depend on one number. The proofs are for every value.
* HashTbl: four key objects with three names, of which two share a chain up to
  size two and two share one at every size, and tables up to `MaxSize` slots,
  so that chains split, stay together and reach the maximal size. Values are
  symmetric: nothing in the code looks at one.
* LinkedHashTbl: the same keys and hashes; evictors that allow no entry, two and
  three, so that an insertion evicts itself, another entry or nothing.
* Leb128: 11, 14 and 15 bits, every number of each.
* PollServer: tables with room for one connection and for two (`PollSizes` 3 and
  4, of which the socket pair and the listening socket take two), two clients
  and two requests, cut after the first line or not, one header of room, and a
  socket that holds one answer. The first client makes every kind of request, the
  second well-formed HTTP/1.1 ones.
* Logging: two threads with a call each (of level info or err), the main logger
  alone (the sinks of different loggers share nothing; that `LogInit()` may fail at a later
  logger is covered by the proofs, which are for any loggers), two starts, one failing file operation, and a trace of its header line. Days
  have two hours; day 3 is a common one, day 4 loses its second hour and day 5 has
  it twice. The program starts at the end of day 3 with the files of days 1 and
  2, and lives through one hour of day 4, the first of day 5 and the last. Three
  files are kept, so that the first rotation removes one. Reached among others are
  a record of the hour after the short day in the old file, a name that is queued
  twice, a file removed too early for that reason, one removed in the common way,
  a file of the short day that the constructor passes over, and a record that
  waits while another thread rotates.
* Banker: three processes are needed for a scan that skips one and returns to it.

### Fairness

* A thread that can go on does go on: weak fairness of each thread's steps. The
  code relies on nothing more than the operating system's scheduler.
* Taking a mutex has strong fairness in ThreadPool, LoopThreads and
  Philosophers: other threads take the same mutex again and again, so weak
  fairness would allow a thread to wait for ever. Windows mutexes are queued in
  order; POSIX does not promise it, and the liveness results for the pool and
  the start-up depend on it.
* Spurious wake-ups are not fair and may also go on for ever.
* Reactor: weak fairness of each loop's thread, and of the client's sending the
  rest of a request it has begun. Nothing makes a client open, send or close.
* PollServer: weak fairness of the loop and of a client's reading.
* Banker: the program goes on after an input; the user need not enter any.

Deadlock is checked in Philosophers, LoopThreads, Banker, HashTbl,
LinkedHashTbl, Leb128 and Logging (there the end of the last start is
a step of its own). The other systems may stop: a pool that has been destroyed,
a server without clients, a crashed process, a buffer whose block has been
overrun.

## 4. Proofs

All proofs are for every value of the constants that meets the module's named
assumption.

* **ThreadPoolProofs.** `Invariance` proves `IInv`, the conjunction of the
  checked properties with five facts that make them inductive:
  `StopMeansDestructor`, `ExitedMeansDrained` (a worker leaves only a stopped,
  empty pool, and such a pool stays empty), `Carried`, `StartedIsHeld` (an item
  taken from the queue has run or is inside a worker) and `JoinedMeansExited`.
  `DestructorDrains` follows from the last three; `NoLostWakeup` needs the
  pending notification of an `enqueue()` that has already unlocked. The workers are a non-empty set:
  with none (`ThreadPool(0)`) accepted items would never run.
* **BufferProofs.** `CallInv` says what is true of the call in progress,
  `RoomInv` that the step which copies has room. `Refinement` shows that every
  step of `Buffer` is a step or a stutter of `ByteQueue`, with the mapping
  described above, failed `realloc()`s included up to the write past the block.
  `OverrunSafety`: only a failed `realloc()` leads to that write.
* **LoopThreadsProofs.** `ThreadInv` and `MainInv` tie the threads' positions to
  the loop pointer and the mutex; `LoopSafety` and `SignalSafety` follow for any
  number of sub-reactors.
* **PhilosophersProofs.** `HoldInv` says which chopsticks a position implies.
  `DeadlockFree`: each philosopher waits for a chopstick numbered higher than
  the one it holds, so the holder of the highest chopstick in a supposed circle
  cannot be waiting for one of its members. For any number from two.

* **ReactorProofs.** `IInv` says who has a connection at each moment: one loop
  has it registered, in its pending list or in the middle of closing it
  (`Owned`); a list holds at most one addition and one removal of a channel, in
  agreement with the epoll set (`Lists`); the channel map leads from its
  descriptor to it (`Mapped`); open connections have descriptors of their own
  (`Descriptors`); and what `epoll_wait()` reported is still true when the event
  is handled, although other events of the same batch came before (`Reported`,
  `EventsBacked`). `EventsMapped`, the assertion of the event path, is not
  inductive without all of them, since a descriptor may be closed and come back.
  `NoLostRegistration` needs the byte in the socket pair or the main thread
  on its way to write it. `RequestsConserved` relates pieces sent, queued, in
  the buffer and answered, for any number of requests sent together; its one
  exception is a connection to which a write failed, whose thread hangs. The count
  of a concatenation is proved once as a lemma. `CrashIsRace` assumes `Orderly` (nobody aborts, reads slowly
  or asks for a close, the configuration of `reactor_liveness`): then no
  write fails, and a connection without `data` is the one the main thread is
  accepting.
* **BankerProofs.** `Ledger` says that, while a request is handled, the tables
  are the saved ones with the request applied; so `return_back()` undoes it,
  `RefusedIsUndone`. `Scanned` is the invariant of the safety scan: `Work` is
  what is available plus what the finished processes hold, and every set of
  processes that contains a finished one has a member that could finish
  first. At the positive verdict all processes are finished and this is
  `SoundVerdict`. Both need facts about sums over sets of processes (`Held`
  adds up over disjoint sets and is monotonic), proved for finite sets from the
  definition of the fold. `Conserved` assumes `~Again`: with a
  second initialisation it is false, see section 5.
* **LoggingProofs.** First come lemmas about local time, for any `Offset`: dates
  do not go back; what is logged before the rotation that was set at some hour
  is in place (`BeforeRotation`); a rotation that finds its own day again
  happens on a long day only, and the next one is then set for the end of that day or
  later (`AfterRotation`); 24 hours before an hour is an earlier day or the same
  long one (`DaysAgo`). `Safe` has six parts. `SinksSound` describes each sink:
  what is open (`Opened`), that no file or record is of the future
  (`Dated`), the retention queue (`Queue`), and the two halves of `FilesInOrder`
  (`Timely`, `Ordered`). `Queue` says that the names are within `max_files` and in
  order, equal ones of long days only; that the open file's is among the last two,
  and when it is being queued again, the rotation has settled (`Settled`), so
  that it does not happen a third time; and that all files since the oldest one found
  are there but the one being rotated to and those of short days. That the
  open file is never the one removed needs at least three names in the queue:
  `DailyFileSinkAssumption` asks for `MaxFiles >= 3`, the code uses 7.
  `Constructed` follows `LogInit()` through a sink's constructor, `Calling` ties
  a thread in a call to its record and its mutex, `Fresh` says that a record in
  flight is newer than all its thread has written, without which a write would
  not keep the order, and `Kept` that a returned call is in the file, and from
  level `err` on out of the `stdio` buffer. Each step is first shown to be one
  of four kinds (a step inside a call, the beginning of a call, a step
  of a constructor, the end of the process), and the invariant is proved for each
  kind. `Retention` follows step by step from `Queue`; `ErrorsSurvive` from
  `Kept`. `TraceComplete` needs `Tracing`, which counts the lines of the trace
  already in the file, and assumes `LevelName # "OFF"`: at that level the
  trace itself is filtered out. `LoggingAssumption` asks for distinct loggers,
  the first of which is the main one, as in the table of `LogInit()`, for
  the six levels of the macros, and that there is no file of the first start's day
  or later.

* **HashTblProofs.** `HashTblAssumption` says of the caller that key and value
  objects differ, that a key object has a name and a name a hash (`hash_fn()`
  and `equals_fn()` agree), and of the code that `MaxSize` is a power of two.
  The inductive invariant has three parts.
  `Core` is about the two tables that exist during a resize: each is `Sound`
  (entries are in the slot of their hash, no two of a chain have equal keys,
  `nentries` is the sum of the chains), and together they hold each entry once
  and its objects are the table's (`Whole`). `OwnedOnce` and the placement need
  both halves, since a resize unlinks from one table and links into the other.
  `Stages` and `Pending` say what is known at each point of a call; that the key
  being inserted is in neither table is what lets a resize come between the
  search and the addition. `Loading` is the load bound: once an insertion has
  passed its test the new entry is counted already (`Count`), which is what
  shows that one doubling is enough, whatever the rounding of
  `resize_threshold`. Tables of the maximal size, of a load factor below one
  half, or with a failed resize are outside the bound, as in the property.
  `Walk` places the iterator in the
  sequence of chains: what it has met is the chains before its slot and the
  first `at` entries of its own, from which `HashTblIterIsApply` follows.
  `HashTblImplementsDictionary` takes the map of the entries held by either
  table, and the report of the call. A move leaves that map alone, an insertion, a
  removal and a clearing change it as they report, and every other step, failures
  included, not at all.
  Facts about sums over slots, concatenations of chains and cardinalities that
  these steps need are proved as lemmas first.

The inductive invariants of Reactor, Banker, Logging and HashTbl (their types
apart) also hold in the instances of the runs, as TLC confirms.

Where a proof needs induction over a set or a sequence, it takes the least
counterexample (the least-number principle on a set of natural numbers, a
lemma of ReactorProofs, BankerProofs, LoggingProofs and HashTblProofs, or a minimal element of a well-founded
relation): induction theorems that take a predicate as a parameter cannot be
used by the provers.

Only model-checked: all liveness properties, deadlock freedom of the runs other
than `philosophers` (the prover has neither fairness nor `ENABLED`), and everything
about LinkedHashTbl, PollServer and Leb128. The chains of the linked table are
those of HashTbl; its list and its iterators are filtered sequences (`SelectSeq`),
about which the library's theorems take a predicate as a parameter. The poll
server's invariants are within reach of the method used for Reactor and have not
been proved; what the LEB128 coders compute for every width is arithmetic with
powers, modulo and division at once, which the provers do not do.

## 5. What the models say about the code

HTTP server:

* The server answers clients that send one whole request, wait, and read
  quickly. That is what the liveness properties assume. Half a request hangs the
  event loop, since `parse_http_request()` loops until the request is complete
  without reading (`http_server.c:43`), although the comment at line 88 says that
  incomplete data has to be handled. Of two requests that arrive together the
  second is answered at the next read only, since `http_onMessage()` handles one
  request per read. `RequestsConserved` says that it is not lost meanwhile, nor the
  half request.
* When `write()` does not take the whole answer the rest is put in
  `output_buffer`, and `channel_write_event_enable()` takes `channel->data`, a
  `tcp_connection`, for an `event_loop` (`channel.c:21`): the rest is never sent.
* A header line without ": " is taken for the empty line and all but two bytes of
  it are parsed as the next request: without two spaces the assertion of the
  status line fails; with them (as in a User-Agent without the space after its
  colon) an answer that nobody asked for is sent before that of the next request.
  `AnswersInOrder` allows these answers and no others. An HTTP/1.0 request without Connection header compares NULL
  (`http_request.c:78`). Header arrays are filled without a test of their size
  (`http_request.c:46`).
* The test for a full poll array (`poll_dispatcher.c:84`) is never true: one
  connection too many stays in the channel map and is never served, silently.
  The loop bound at line 159 is one too large; `TableIsMap` shows that
  `ready_number` always ends the loop before.
* `CrashIsRace`: with at least one sub-reactor (`http_server01.c` runs with two)
  a request can be served before `handle_connection_established()` has stored
  `data`. The property says that nothing else stops a process whose clients
  read quickly.
* A descriptor that the dispatcher closed (`epoll_dispatcher.c:140`) and that
  comes back with a new connection is found occupied in the channel map, and
  `event_loop_handle_pending_add()` ignores the connection. `AcceptedIsServed`
  fails for this reason when a client asks for its connection to be closed
  (`Closing = {c1}`) and is therefore checked with orderly clients.
* `NoOverrun` holds with the exception it names: `make_room()` has no way to
  report a failed `realloc()`.
* Seen and not modelled: the terminator of method, url and version is written one
  byte past the string (`http_server.c:21`); `http_request_reset()` forgets the
  headers it had allocated.

Tables:

* A `max_load_factor` of 0.0 is kept (`hashtbl.c:288`, `linked-hashtbl.c:347`),
  where the header says that it "uses a default value": the threshold is zero and
  each insertion doubles the table, up to 2^30 slots.
* A hash table's iterator keeps a pointer to an entry (`hashtbl.c:411`); after a
  removal or a resize it must not be used. The linked table's iterator survives
  everything but the removal of the entry it stands on and, in access order, a
  lookup that moves an entry past it: a forward iterator then skips that entry, a
  backward one meets it again.

Banker:

* `is_safe()` errs on the safe side: it goes back to the first process only when
  the last one has just finished (`banker.c:228`), so that a safe state may be
  refused, where `banker.md` repeats the search after each process. With a
  second initialisation (`Again = TRUE`) `Conserved` fails, since `banker.c:101`
  accepts the process number `progress_num` and the row of a former process is
  still there.

Logging:

* A record that waits over midnight and then rotates opens the file of the day
  that is over, and the next rotation is a day later: the whole day's records go
  to the file of the day before. `FilesInOrder` bounds this by the day on which
  the rotation was set.
* `next_rotation_tp_()` adds 24 hours to local midnight (`daily_file_sink.h:148`).
  On a day of 23 hours the rotation comes at 01:00 of the next day, and the records
  of its first hour are in the old file (`InPlace`). On a day of 25 hours it
  comes at 23:00 and opens the same file: the name is queued twice, and a file
  is removed although fewer than `max_files` newer ones are there. `Retention`
  excepts removals while a name of such a day is queued.
* `init_filenames_q_()` takes at most `max_files` files, stops at the first day
  without a file, and removes nothing: what a restart leaves out of the queue is
  never removed. A program restarted every day keeps all its files, where the
  comment at `daily_file_sink.h:42` says "retain only the last max_files and
  delete previous". When midnight passes between the opening of the file and the
  listing of names, even the open file is left out. Going back 24 hours at a
  time, it passes over a day of 23 hours or takes one of 25 twice, depending on the hour.
  `Retention` therefore counts the files from the oldest one on that the constructor found
  (`Own`), and not those of days that were passed over (`ShortDays`).
* `TraceComplete` needs its condition: when a second thread faults, the process
  dies with whatever part of the trace is written. Records below `err` of the
  other loggers are lost with any crash.
* When `LogInit()` fails, the loggers it had built stay in use, the others drop
  their records silently, and no handler is installed; `main.cpp` does not look at
  the result. A file that cannot be opened or removed at midnight ends the process.
* The models assume that writing to an open file succeeds. The result of
  `fflush()` is not tested (`file_helper-inl.h:60`), so that on a full disk the
  call of an error may return without the record in the file. They also take
  `exit()` in the error handler for one step, while other threads could still
  reach for the loggers that it destroys.

Thread pool: `ThreadPool(0)` accepts items that nobody runs; `ThreadPoolAssumption`
excludes it.

## 6. Plan

1. Done: ThreadPool, Buffer, LoopThreads and Philosophers with proofs; Reactor;
   Banker; HashTbl; LinkedHashTbl; Leb128; PollDispatcher, HttpRequest and
   PollServer; DailyFileSink and Logging.
2. Done: proofs of the safety properties of Reactor, Banker, Logging and HashTbl,
   and that HashTbl implements Dictionary.
3. Left: `TableIsMap` of PollServer, and the list of LinkedHashTbl.

## 7. Not modelled

* Most lines of the repository are not its own: the bundled fmt, the pattern
  formatter, the asynchronous loggers and the other sinks of spdlog, of which no
  program here calls more than the synchronous path of Logging; two copies of
  SimpleIni; the npcap SDK, mostly constants; generated protobuf code. They
  are libraries with their own tests, or tables without behaviour, and the map
  covers none of them beyond what the modelled programs run. This is why it
  covers a small share of all lines.
* The boost, protobuf, OpenCV and npcap programs call one library each in a
  straight line and keep no state.
* `coord-convert/main.cpp` has two threads that share a viewer
  (line 617), but what a viewer that is not ready does is in osgEarth, which is not
  in the repository.
* `log.c`, `read.c`, `sock_ntop.c` and `tcp_client.c` wrap system calls.
* `poll_update()`, `handle_write()` and the update path of the event loop are
  behind the wrong pointer described above, `poll_clear()` and `epoll_clear()` are never called.
