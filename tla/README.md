# A TLA+ verification of the SO-1112-inv code

The repository holds the practical work of an operating systems course, in C
and C++ for Windows. Four of its programs have a core that is hard to test:
a user-mode thread library (SE2, part I), a file indexer that runs as a service
between processes (SE2, part II), a tracker that serves many connections
with a pool of threads and asynchronous I/O (SE3), and an HTTP server whose pool of
threads grows and shrinks. This directory models them in
TLA+, checks them with TLC and proves the central safety properties with TLAPS. Paths
below are relative to `src/`.

## 1. The system

### Components, state, operations

| | Component | State | Operations | Model |
|---|---|---|---|---|
| A | **UThread scheduler** `SE2-Solution/Parte I e II/UThread/UThread.c` | `ReadyQueue`, `SleepQueue` (ordered by wake time), `RunningThread`, `MainThread`, `NumberOfThreads`, `SwitchCount` | `UtRun`, `UtCreate`, `UtExit`, `UtYield`, `UtActivate`, `UtDeactivate`, `UtSleep`, `UtAlive`; inside: `Schedule`, `ExtractNextReadyThread`, `WakeSleepThread`, `ContextSwitch`, `InternalExit` | UThread |
| B | **Join** `UThread/WaitJoin.h`, `UtJoin` | the wait queue of (target, joiner) blocks | `WaitInJoin`, `VerifyWait` | UThread |
| C | **RingSynch** `SE2-Solution/Parte I e II/RingSynch` | a list, a mutex, two semaphores | `RingInit`, `RingPut`, `RingGet` | RingSynch |
| D | **Indexer ring** `SE2-Solution/Parte II Ex8/Indexer/IndexerService/Ring.c` | an array in shared memory with `iPut`, `iGet`; named semaphores and mutex, opened at each call | `RingInit`, `RingPut`, `RingGet` | IndexerRing |
| E | **Indexer queries** `IndexerService/Indexer.c`, `Utils.h` | the service record with `opened`, one mapping and one event per client thread, the server's handle of its last answer | `OpenFileIndexer`, `QueryCount`, `QueryFolders`, `ProcessNextQuery`, `StopIndexer`, `QueryNext` | IndexerService |
| F | **Indexer's monitor and hash table** `FileNotifyInfo` in `Indexer.c`; `Indexer/HashTable` | the changes of the directory still to be entered; for each name the list of its paths | `ProcessNotifyInfos` with the handlers of additions, removals and renamings; `HashTableAdd`, `Remove`, `Get` | IndexerDirectory, IndexerService |
| G | **Tracker hash table** `SE3-Solution/Server/HashTable.cpp` | buckets of entries of items; counters of keys, items and bytes | `HashTableAdd`, `Remove`, `Clear`, `Keys`, `KeyValues` | HashTable |
| H | **Tracker store** `SE3-Solution/Server/Store.cpp` | the table plus one heap block per location | `StoreRegister`, `StoreUnregister`, `StoreGetTrackedFiles`, `StoreGetFileLocations` | Store |
| I | **Tracker pool** `SE3-Solution/Server/Server.cpp` | `threadsCounter`, `activeThreadsCounter`, the completion port | `StartConnection`, `CreateThreadPool`, `AddThread`, `RunOperation` | TrackerServer |
| J | **Tracker connections, requests** `Connection.cpp`, `Handler.cpp` | per connection a buffer with `len`, `rPos`, `lastReq`; the operation it waits for | the reads, `ProcessInputRequest`, the processors, `AdaptBufferIn` | TrackerServer |
| K | Tracker logger `Logger.cpp` | start, stop, close flags, a message counter that is printed | `LoggerStart`, `Stop`, `Post` | not modelled |
| L | **HTTP server** `HttpServer - Part I/HttpServer_2.cpp`, `Connection.cpp` | `threadsCounter` under a critical section, `workersCounter` without it, the completion port; per thread one buffer for input and output | main's loop, `ProcessConnection`, `ContextInit`, `ProcessRequest`, `SendResponseFile` | HttpServer |
| M | SE1 exercises, test programs, the C# TestClient, `List.h` | none that lasts | | not modelled, see section 7 |

### How they interact

- B is called by A and calls it: `UtJoin` deactivates its caller, `UtExit` calls
  `VerifyWait`, which activates the joiner. They share the scheduler's state,
  so they are one module.
- Clients of E put a query into D and wait for an event; the server takes it from
  D, looks at F, writes the answer into a mapping with the client's name and sets
  the event. D and E are separate modules: D is shown to implement
  `BoundedBuffer`, and E uses `BoundedBuffer` in its place. E and F are composed:
  `IndexerService` extends `IndexerDirectory`, and the server's look-up is two steps
  under the mutex that the monitor needs for every entry.
- J runs on the threads of I: each completion that a thread takes from the port is
  one step of one connection, which ends by asking for one more operation.
- J calls H, and H calls G. `Store` instantiates `HashTable` with endpoints and is
  shown to implement `Registry`; `TrackerServer` keeps only which files have a location. After an
  UNREGISTER the file may be gone or have other locations: both are allowed (`Stored`).

### What is hard in this code

- *User threads* are cooperative, so interleavings come only at library calls; the
  difficulty is in the lists they are moved between, in the 32-bit clock that
  wraps, in handles that are addresses and are used again, and in the end of
  `UtRun`, which relies on counting.
- *The indexer* has several processes on one mapping. A client can die at
  any step (the mutex is abandoned, a semaphore's count is not), it can come
  before the service is ready, and the service can be stopped while someone waits.
- *The index* changes while it is asked, from notifications that come in batches,
  and a rename is two of them.
- *The HTTP server* adds a thread when two counters are equal, one of which is changed
  without a lock, while idle threads time out; each thread reads and writes through
  one buffer, which is cleared between requests.
- *The tracker* has threads that take completions of any connection, a pool
  that compares two counters without its lock, requests split at any place by the
  network, and resets.
- *The store* is sequential, but its counters size the buffers of its answers and
  must be right after any series of calls.

Each hazard is in `PROJECT.json` under `hazards`, with its line and the
properties that would notice it going wrong.

## 2. The modules

| Module | What it is |
|---|---|
| `UThread` | Scheduler, join and the programs that call them. `phase` says where the running thread is inside the library (in user code, scheduling, switching, exiting); the program of a thread is any sequence of calls the constants allow. The clock `Tick`s while a thread runs or the scheduler spins. |
| `MCUThread` | Join relations and symmetry for its runs. |
| `DataLemmas` | What the proof modules share: lemmas about numbers, sizes of finite sets, recursive functions, sums and folds, and sequences seen as lists without repetition. |
| `UThreadProofs` | The theorems of `UThread`: its lists, sleeping, joining and the end of `UtRun`. |
| `BoundedBuffer` | Abstract: a FIFO buffer with a capacity, one atomic put and get. |
| `RingSynch`, `MCRingSynch` | `RingPut` and `RingGet` call by call on two semaphores and a mutex. |
| `RingSynchProofs`, `IndexerRingProofs` | The theorems of the two rings, with their refinements of `BoundedBuffer`. |
| `IndexerRing` | The indexer's ring, line by line on named kernel objects, with crashes of clients. |
| `IndexerDirectory` | The directory below root, Windows' notifications, the monitor and the hash table. |
| `IndexerService`, `MCIndexerService` | The query protocol on the abstract buffer, with the lifetime of mappings and with the index. |
| `IndexerServiceProofs` | The theorems about the index and the answers. |
| `Registry` | Abstract: the list of locations of each file. |
| `HashTable`, `Store`, `MCStore` | The table with every counter of the code; the store and its heap blocks. |
| `StoreProofs` | The theorems about the table and the store, with the refinement of `Registry`. |
| `TrackerServer`, `MCTrackerServer`, `TrackerServerProofs` | Pool, connections and request handlers composed; the theorems about the pool and about what becomes of every request. |
| `HttpServer`, `MCHttpServer`, `HttpServerProofs` | The HTTP server's main loop, its threads, and the clients they serve; the theorems about its counters and the answers. |

Definitions keep the source's names; `map` in `PROJECT.json` gives the lines of
each. Variables marked "history" in a module are read by properties only.

Abstractions: stacks and registers are the identity of the running thread
(UThread); a query is its client's name, and its content a number that says which
question it answers, with the paths found (IndexerService); a request is two pieces,
its first line and the rest (HttpServer); a file's name is a model value with a hash
and a size (HashTable); a stream of bytes is a sequence of tokens, a type, an
argument, CR and LF (TrackerServer), so that a chunk may end at any token but not
within a word. Sizes in the constants are in the units of the abstraction: a
`BUFFERSIZE` of 7 tokens stands for a buffer that holds one request and a half.

## 3. The runs

| Run | Instance | What it shows |
|---|---|---|
| `uthread_safety` | 3 threads, 4 creations, sleeps of 0..2, a clock of 4 ticks that wraps at 3, any join, any thread may park | Types; a thread is in exactly one place; none is lost, freed too early or reachable after; `NumberOfThreads` counts; the sleep queue is sorted; nobody wakes early; a joiner leaves only when its target exits. |
| `uthread_liveness` | the same with sleeps of 0..1, a chain of joins, nobody parks | `UtRun` ends with everything exited; ready threads (unless each `Schedule` wakes a sleeper, section 4), sleepers and joiners are resumed; `UtRun` returns. |
| `uthread_doublejoin` | two threads join the third | **violation**: `UtRun` returns while one joiner is still suspended. |
| `ringsynch` | 2 producers, 2 consumers, 2 rounds, 2 places | The ring implements `BoundedBuffer`; each place is free, taken or in someone's hands; all calls return; no deadlock. |
| `iring` | 3 clients, 2 rounds, 2 slots, 2 crashes | The server reads a FIFO of whole queries even when clients die at any line; an unread slot is not overwritten; a lost place is one a dead client held; with no crash all is read. |
| `iring_early` | clients may find the service open before `RingInit` | **violation**: the query is forgotten. |
| `iservice` | 2 client threads, 3 queries and changes (2 at most) of the directory together, after one file that comes before them, 1 place, 3 paths, a stop and a failing mapping | Nobody is shown the answer to an old question, although a mapping used again keeps old paths behind a count of 0, nor one mixed from two moments of the index; the newest answer is kept until the server answers somebody else; once entered, the changes leave exactly what is in the directory, also when a rename is read in two batches; queries return unless the server ended; a stopped server with a query in the ring ends; the index catches up with the directory. |
| `store` | 3 files, 2 in one bucket, 2 hosts, 3 blocks | One entry per key; totals agree with the lists; answer buffers are large enough; every file is listed; no block is leaked; the table is a `Registry`. |
| `store_unregister` | the same | **violation**: another host's location at the same port is removed. |
| `tracker` | 2 clients, 3 requests, 5 thread identities, one reset, buffer of 7 tokens | The pool's counters agree with the threads, but for those a failed completion has ended (`threadsCounter` goes on counting them) and those added a moment ago; only such failures bring the pool below `MIN_THREADS`; the pool is bounded by the larger of `MAX_THREADS` and twice the connections; a connection has one operation at a time; unserved bytes survive; requests are carried out once and in order, as long as chunks do not end between CR and LF or at a request's end with more to come; no deadlock before the end. |
| `http` | 3 clients, one that waits for its answers, one that asks twice at once, the second time with a malformed header, one that asks nothing; 1 to 2 threads | `threadsCounter` is the number of threads, within its bounds; `workersCounter` is off by no more than overlapping updates explain; answers come in order, once, and none is missing but those the code drops; every accepted connection is closed; the pool shrinks to its minimum. |
| `tracker_chunks` | 1 client with 2 requests, chunks cut anywhere | **violation**: a request is lost. |

### Why the bounds are enough to be interesting

- *UThread*: with three threads one can run, one be ready and one sleep, wait or
  park, and a list can have its middle element inserted. Four creations on three
  addresses make one address be used again. A clock that wraps at 3 puts a wake
  time on the other side of the wrap. `SwitchCount` is taken modulo 1: it has no
  reader.
- *Rings*: two producers put four elements into two places, and three clients six
  queries into three slots of which two may be taken, so that somebody waits on a
  full ring and the indices wrap.
- *IndexerService*: one place makes the second client wait in `RingPut` while the
  first waits for its answer; the second query of a thread is the one that could
  meet its old mapping. `Effort` bounds queries and changes together: all mixtures
  of three are checked. One more path has been created before the first query (`Early`): so a thread can
  ask again after that path has gone and meet it in its old mapping, or another thread can
  ask in between, and an entry with two paths can lose one. The monitor reads any first part of
  the pending changes, so that the two entries of a rename can come in two batches. The paths are two
  of one name in two folders and one of another name, so that there are a rename
  within a folder and a move.
- *HttpServer*: two threads are enough for updates of `workersCounter` to overlap, for
  both to time out, and for one to be added and to end. The third connection comes
  when the pool has been through that. With the minimum of 1 thread, as in
  `httpserver.h`, one wrong timeout would leave nobody.
- *Store*: two files collide, the third is alone; three additions of the same
  location are possible. With `MaxAdds` 3 the byte total, which no removal brings
  down, reaches its largest difference from the real size.
- *TrackerServer*: `MAX_THREADS` 3 and `MIN_THREADS` 2 are the values of `Server.h`, and
  the program starts with `MIN_THREADS + 1` threads (`CreateLoggerThread` runs a pool
  thread too). A timeout and a reset make the pool small enough for two
  busy connections to find all threads active, and to add some. Seven tokens are
  fewer than the twelve of the first client's two requests, so that a part of a
  request is left over and moved to the front.

`CHECK_DEADLOCK FALSE` is set where a program really stops: `UThread` ends after
`UtRun`, and the indexer's server waits for queries nobody will send. The others
are checked for deadlock: `RingSynch` has a step that does nothing when all calls have
returned; in the tracker a waiting thread can always time out (`Server.cpp`,
MAX_INACTIVE_TIME), so there the check says only that every thread that is
inside the loop can go on as long as no other one is waiting; `http` has it on too, with
the same limit.

### What the tracker's passing run assumes

`tracker` sets `AnyCut` to FALSE: no chunk ends between a CR and its LF, and none ends
at the end of a request when the client has sent more. The second is what
`tracker_chunks` shows to go wrong. Its clients send no empty lines
(an empty line asks for no further operation, `Handler.cpp:186-190`, so the
connection is never served again; the C# client sends one after
LIST_FILES, `TestClient/Program.cs:77`), ask only for registered files
(`Handler.cpp:139` answers and then returns -1, which the caller takes for an
incomplete request), and send lines shorter than the line buffer. These are recorded
as hazards; each deserves a run of its own.

### What the indexer's and the HTTP server's runs assume

Windows' queue of changes does not overflow (when it does, `ReadDirectoryChangesW`
returns no entries and `Indexer.c:100` works through the old buffer once more), and
folders that are renamed or removed are empty. A path is shorter than 128 characters: the
client takes the size of the next path from one byte (`IndexerInternal.h:68`). A name is
found at most 10 times (`CAPACITY`, `IndexerInternal.h:63`).

The HTTP clients send whole requests, whose headers may be malformed (the connection is
closed then, `Connection.cpp:136`); the others have a Connection header. They close without a
reset. The completion port does not fail: no overlapped operation is started on it, and main
closes it only as the program ends, so that the branch at `HttpServer_2.cpp:135-140`, which
counts a thread out without the lock, is left out. Without that header, which a client may leave out, `HttpServer_2.cpp:155` compares
with NULL. A client that asks again before it has its answer may lose requests
(`Connection.cpp:110`), and an empty file, or one that became shorter, is never answered
(`Connection.cpp:77`); the model has both, `lost` records them, and `AnsweredInOrder`
excuses them. It also allows 404 for a file that exists, since `CreateFile` in line 46 does
not share it with another thread.

## 4. Fairness

Each fair specification asks for weak fairness of what the operating system
schedules, and no more.

- `UThread!FairSpec`: there is one operating system thread, so the library's own
  steps (schedule, switch, exit, return) and the clock go on. A user thread is only
  assumed not to keep the processor for ever while others are ready: in the end
  it yields or exits (the cooperative contract of the library). Progress of
  sleepers and joiners also needs programs that end, which is stated as an
  antecedent, `ProgramsEnd`, and not assumed by the specification: a single ready
  thread that yields for ever does starve sleepers (`UThread.c:228`). Progress of a ready
  thread has the antecedent `SchedulesWithoutWake`: it does not happen for ever that each
  `Schedule` finds a sleeper due. It is needed: a woken sleeper goes to the head of the
  ready queue (`UThread.c:306`), so a thread that calls `UtSleep(0)` in a loop, or two that
  in turn work for a millisecond and call `UtSleep(1)`, starve all others for ever; TLC
  shows the first when the antecedent is left out (`MaxTick`, the bound of the clock, lets
  the model sleep for 1 ms finitely often, so it cannot show the second).
- `RingSynch`, `IndexerRing`, `IndexerService`: weak fairness of each thread or process
  in its calls. Semaphores and mutexes are not assumed to be fair: the
  programs are finite (`Rounds`), so nobody can overtake for ever. A crash is never
  fair, nor is `StopIndexer` or a failing mapping. The indexer's monitor is a thread
  like the others; the users of the directory need not do anything.
- `HttpServer`: weak fairness of main, of each thread and of the clients. A client is
  assumed to end: one that has no answer gives up after some time. Without that a thread
  waits in `recv` for ever, which the code has no timeout for. `accept` does not fail
  (if it does, the program ends).
- `TrackerServer` and `Store` have no fair specification yet: their runs check
  safety and deadlock only.

## 5. Findings

1. **A second joiner is never released** (`WaitJoin.h:47`, run `uthread_doublejoin`).
   `VerifyWait` breaks out after one block, while `UThread.c:167-170` promises that
   `UtRun` returns only when all threads have exited and `UThread.c:199` asserts
   it.
2. **A client can be faster than the service** (`Indexer.c:146`, run `iring_early`).
   `opened` is set before `RingInit` runs.
3. **Another host's location is removed** (`Store.cpp:25`, run `store_unregister`).
   The comparison of addresses compares one with itself.
4. **A request is lost when it comes just after another was carried out**
   (`Connection.cpp:20`, run `tracker_chunks`). The buffer is filled anew and `rPos`
   is not set back.

A fifth behaviour has no run of its own, and the passing run goes around it: a server that waits in
`RingGet` does not notice `StopIndexer` (`Indexer.c:284-286`). `opened` is read before
the server blocks, and once it is cleared no client sends the query that would wake
it. `StopWithQueryEnds` says what remains true: a stop works when a query is in the
ring.

## 6. What is proved

All theorems hold for every value of the constants that the named assumptions allow:
any finite number of threads, clients, connections and places, any programs, and any
bound that the runs set to a number.

| Theorem | Statement |
|---|---|
| `UThreadProofs!TypeCorrect` | `Spec => []TypeOK` |
| `UThreadProofs!OnePlaceAlways` | `Spec => []OnePlace`: a thread is at most once in one of the ready, sleep and wait queues, or runs, or is parked |
| `UThreadProofs!NoThreadLostAlways` | `Spec => []NoThreadLost`: what the lists and the scheduler can reach is exactly what is allocated |
| `UThreadProofs!CountMatchesAlways` | `Spec => []CountMatches`: `NumberOfThreads` is the number of threads that have not exited |
| `UThreadProofs!SleepQueueSortedAlways` | `Spec => []SleepQueueSorted`: within an epoch of the clock the head of the sleep queue is due first |
| `UThreadProofs!NoEarlyWakeAlways` | `Spec => NoEarlyWake`: only sleeps across a wrap of the clock may end early |
| `UThreadProofs!JoinOnlyAfterExitAlways` | `Spec => JoinOnlyAfterExit` |
| `UThreadProofs!RunEndsCleanAlways` | `Spec => []RunEndsClean`, if `JoinsEnd`: what `UtRun` asserts when it comes back |
| `RingSynchProofs!TypeCorrect`, `PlacesConservedAlways` | no semaphore exceeds its maximum; free places, elements and places in someone's hands add up to the ring's size |
| `RingSynchProofs!Refinement` | `Spec => IsBoundedBuffer` |
| `IndexerRingProofs!PlacesConservedAlways`, `Refinement` | the same of the indexer's ring, if `EarlyClients = FALSE` |
| `IndexerServiceProofs!IndexConsistentAlways` | `Spec => []IndexConsistent`: what the monitor has still to enter brings the index to what is in the directory |
| `IndexerServiceProofs!AnswerIsCurrentAlways`, `AnswerIsWholeAlways`, `AnswerKeptAlways` | what a client is shown, the count and the paths, belongs to its last query, as long as no mapping fails, also in a mapping that keeps old paths; it is all paths of the mapping or none, each once; the answer is there until the server goes on |
| `StoreProofs!TypeOKAlways`, `OneEntryPerKeyAlways`, `AllFilesListedAlways` | the table's counters are numbers; a file has one entry, in its own bucket; the walk of LIST_FILES finds each file once |
| `StoreProofs!TotalsMatchAlways`, `BuffersLargeEnoughAlways` | the totals are those of the lists until the table is cleared, and after that still large enough for the buffers they size |
| `StoreProofs!NothingLeakedAlways` | the endpoints in memory are those that the table holds |
| `StoreProofs!ImplementsRegistry` | `Spec => IsRegistry` |
| `HttpServerProofs!PoolCountedAlways` | `Spec => []PoolCounted`: `threadsCounter` is the number of threads and within its bounds |
| `HttpServerProofs!WorkersCountedAlways` | `Spec => []WorkersCounted`: the unlocked `workersCounter` is off by no more than the updates overwritten |
| `HttpServerProofs!AnsweredInOrderAlways` | `Spec => []AnsweredInOrder`: a client's answers come in the order of its requests, fit them, and none is forgotten but those the code drops |
| `TrackerServerProofs!PoolCountedAlways` | `Spec => []PoolCounted`, if `MAX_THREADS = MIN_THREADS + 1`, for any clients and chunks |
| `TrackerServerProofs!OneThreadPerConnection` | a connection is in one thread's hands at a time, with no operation asked for meanwhile, under the same condition |
| `TrackerServerProofs!StreamsHold` | `Spec => [](IInv /\ Streams)`, if also `PlainClients`, which includes `AnyCut = FALSE` (no chunk ends between CR and LF, or at a request's end with more to come): every connection's buffer and input hold what has not been carried out, and fit the operation it waits for |
| `TrackerServerProofs!OneOperationAlways` | `Spec => []OneOperation`, under the same conditions: an open connection is with one thread or waits for one completion, and has none only when its socket is broken |
| `TrackerServerProofs!UnservedKeptAlways` | `Spec => []UnservedKept`, under the same conditions: buffer and input are the stream of the requests not carried out |
| `TrackerServerProofs!AnsweredInOrderAlways` | `Spec => []AnsweredInOrder`, under the same conditions: each request once, in order, and all of them before the server ends the connection |

### Assumptions

The modules name what they assume of their constants, and TLC evaluates it in every run.

- `UThread`: `ThreadsAssumption` (threads are finitely many and differ from the main
  thread and from NULL), `ClientAssumption` and `BoundAssumption` (types). Nothing is
  assumed about joins or clocks, but in `RunEndsCleanAlways`. It asks for `JoinsEnd`: no
  thread parks itself, each is joined by one other at most, and the joins have no cycle
  (said by a rank that falls along them, which for finitely many threads is the same).
  Programs that do not keep to this do wait for ever: run `uthread_doublejoin` shows it of
  the second condition, and the others are deadlocks of the program's own. The instance of
  `uthread_liveness` satisfies it.
- `RingSynch`, `IndexerRing`: `RingAssumption`, which says that clients are finitely many
  and that the ring has a place. The theorems about `IndexerRing` also ask for
  `EarlyClients = FALSE`, that is, clients that come after `RingInit`; without that
  they are false, as run `iring_early` shows.
- `IndexerService`: `DirectoryAssumption` (a path has one name; one file at most is on its way into the
  index when the service begins to answer) and `ServiceAssumption`
  (finitely many client threads, none of them the server). The paths and names may be
  infinitely many.
- `Store`: `StoreAssumption`. The files are finitely many, since their sizes are summed;
  hash values and the capacity are any numbers, a capacity of 0 included, for which the code
  takes 1024 buckets. An endpoint's size is the code's.
- `HttpServer`: `HttpAssumption`, the types and the order of the two bounds of the pool.
- `TrackerServer`: `ServerAssumption`. The theorems also ask for `MAX_THREADS =
  MIN_THREADS + 1`, as it is in `Server.h`: `CreateThreadPool` counts `MAX_THREADS`
  threads and there are `MIN_THREADS`, and the one that `CreateLoggerThread` starts.
  Those about the streams ask for `PlainClients`, which TLC evaluates for the instance of
  `tracker` (`PlainInstance`). It says of the clients what section 3 says of that run, of any
  number of them with any number of requests: each request fits the buffer, and no name is a
  line end or missing; LIST_LOCATIONS is only asked for a file that the same client
  registered before and that nobody unregisters; and `AnyCut` is FALSE.
  Without the last the theorems are false, as `tracker_chunks` shows. Without the one on
  LIST_LOCATIONS they are false because a processor that returns -1 has already answered
  (`Handler.cpp:139`), and a file that another client may unregister can be missing again.
  A request longer than the buffer cannot be completed in it. Resets are not excluded: the
  theorems hold with any number of them.

### Arguments

*UThread, the lists*. The four invariants are inductive only together: moving a thread
from one list to another keeps `OnePlace` only if it was in no third list, and freeing
keeps `NoThreadLost` only if the exiting thread was in none. With
`ExitingThread`, which says that a user thread is the one running while the
library is inside `UtExit`, they make `IInv`. `InitIInv` shows it of the initial
state and `NextIInv` of every step, one step of the proof per action. The list
operations are treated once: `DataLemmas` shows that appending, prepending,
inserting and removing change the set of elements and keep them different,
and `ReadyAppend`, `ReadyCons`, `SleepInsert` and `WaitCons` state that of the
scheduler's queues. `WakeFacts`, `VerifyFacts` and `ExtractFacts` say the same of
the scheduler's helpers, which several actions share.

*UThread, the waits*. `SleepQueueSorted` speaks of the unwrapped times, the code sorts by
the wrapped ones. `SleepOrder` is what is inductive: the wrapped times are sorted, and each
is the time due modulo the width of the clock. `LaterTick` shows the second of the addition
in `UtSleep`, `InsertKeepsOrder` the first of its walk. Two times of one epoch
are in the order of their ticks (`EpochAndTick`), and a head that is due by its tick is due, or
belongs to a later epoch. The joiners need `OnePlace`: the block that `VerifyWait` takes
out is the only one of its thread.

*UThread, the end of a run*. That the scheduler comes back to `UtRun` with empty queues is a
property of `ExtractNextReadyThread`; that nobody is left in the wait queue then needs more.
`Awaited` says that a thread that somebody has joined is still allocated, which `UtAlive`
sees to when it is joined, and which stays so because `VerifyWait` takes out its only
joiner before it is freed. So if a thread were left, all that are left would wait, each
for another one of lower rank; the one of least rank (`LeastNatural`) waits for none.

*The rings*. That both semaphores count right is not inductive, since a thread holds a
place or an element between two lines; `PlacesConserved` counts these too, and
`Locked` (`Exclusive` in `IndexerRing`) says that at most one caller is between the
mutex' lines and that it is the owner. In `IndexerRing` the content is an array between two
indices that wrap: `UnreadForm` and `Reduce` take the remainder away, and `Contents`
says which slots are not yet read. A client that dies gives up the mutex and keeps its
place, so `Balance` has a term for the dead. Both refinements then go step by step: the
line that stores an element is the buffer's put, the line that takes it out is the get,
all others stutter.

*The index*. `IndexConsistent` folds the handlers over the pending notifications, so it says
something of states that the table will only be in later. `Entered` unfolds it: there is a
sequence of tables, from the present one to one with the directory's content, that each
pending notification takes one step in, and all are `Clean`, with each path once and under
its own name. A change in the directory makes the sequence longer at its end, an entry shorter
at its start, and a batch that the monitor reads moves notifications from one list to
the other without changing it.

*The queries*. A thread has one query at most (`OneQuery`): in the ring, with the server, or
announced by its event, in this order and never in two of them. `Whole` follows an
answer from the look-up, whose two halves are under the mutex, into the mapping. There it may
be hidden later: a query that found nothing sets the count to 0 and leaves the paths, so the
invariant is `WholeOrHidden`, the count is that of the paths or 0. `Current` says that
from the server's write to the client's read the mapping is `UpToDate`: its count was written
for the client's query, and so were its paths, unless the count hides them. It holds only as long as
no mapping failed, since an event is set without a new answer then (`ReplyFails`,
`ViewFails`). `Kept` says which mapping the server has open at which line. Nothing of
this is inductive without `OneQuery`: a second query of the same thread in the
ring would overwrite an answer that is being read.

*The store*. `Held` reads the table as a function from files to items, by the code's own
`FindInBucket`. `Lists` says that a bucket is a list of entries of its own hash value, none
empty and no two of one file, which makes `Held` describe all of it. `Totals` relates the
counters to sums over `Held`, as an equation until the table is cleared and as an inequality
after it: `HashTableClear` leaves `totalKeySize` as it is, and `totalDataSize` of an entry is
never brought down, so the equation that one would like is not an invariant; the
inequality is, and it is what the buffers need. `Memory` says that each endpoint in the
heap is in one place of the table. The refinement maps the table to the values that
`StoreGetFileLocations` answers (`Shown`): additions, removals and clearing are the
registry's, whatever the buckets. The walk over all buckets that stops when it has as many names
as there are keys is shown to be complete by the sizes of the sets of names (`NamesFacts`).
That the mask of the hash value leads into the table rests on the doubling loop of
`HashTableInit`, whose result exists and is reached (`BucketsFacts`).

*Data*. Sums, folds and recursive functions are reasoned about by `DataLemmas`. The library's induction
theorems take an operator and cannot be used, but the least element of a set of
numbers can be had from the well-foundedness of finite sets (`LeastNatural`), and induction
from that, for a set of numbers in place of a predicate (`InductiveSet`). The function that a
fold or a recursive definition chooses is shown to exist (`FoldExists`, `RecursionExists`)
and to be the only one; `SumChange`, `FlattenElements` and their like say what it computes.

*The pools*. `DataLemmas` says what the move of one element does to the size of a
set; each step of a thread is one move or none. For `HttpServer`, `Drift` bounds how far
`workersCounter` is from the number of working threads by the history `overwritten`, and is
kept by each of the halves of an unlocked update. For `TrackerServer`, the bound of the pool rests on
connections: a busy thread has one of its own (`InHand`, for which `HandledServed` follows
every path through the handlers and finds at most one new operation on it), so no more
than there are connections are active (a thread that leaves has counted itself out of
`threadsCounter` only, and keeps the critical section meanwhile, so that no other can come
to work). A thread that comes to add one has read a `threadsCounter` no larger than that.
`Growing` are these threads and the one that leaves; when one of them joins, counter and
`Growing` together are at most twice the connections, and no other
step makes the sum larger.

*The tracker's streams*. None of `OneOperation`, `UnservedKept` and `AnsweredInOrder` is
inductive: what the next handler does depends on where in a request the last one stopped.
`Streams` says it, in three parts. `Order`: the answers are the first requests, and each
connection is `Kept`, that is, its buffer behind `lastReq` followed by the input is the
stream of the requests after those (`Held`, `Match`), and the operation it waits for,
if any, is `Pending`. `Pending` lists the five states a connection can be left in: its
start, at the beginning of a request, behind a request's type with the processor
still to come, at the end of all that has come, and with a part of a request moved to the front
of the buffer. `Cut` says that what has come ends neither between CR and LF nor, while more is to come,
at the end of a request. `Cared`: an open connection whose socket is not broken waits for
an operation or is in a thread's hands, and what that thread took (`Carried`, `Brought`) is
one of those five. `Located`: a registered file that nobody takes back has a location, which the
processors need. The lemmas `...Asked` follow the handlers from the innermost, `AdaptAsked`
and `ReadAsked`, outwards to `HandledAsked`, each on one connection's values apart
from the state: from a pending operation a handler comes to a pending
operation, with the same requests or with one more carried out. `StreamsStep` says that a step about
one connection leaves the others as they are, and `NextStreams` puts the actions together.
That a request's stream can be taken apart at its ends is in `StreamSplit` and the lemmas on
concatenations of `DataLemmas`.

*The order of the answers*. `Traffic` is the invariant behind `AnsweredInOrder`. A connection is in
one place (`OneHand`): with main, in the port, or with one thread. While no thread has used any
of its input, all that the client asked for is on the way (`Untaken`). After that, `Progress`
counts how many pieces the thread has used: those left in its buffer are the next
ones and those in the socket follow them, piece by piece (`Follow`), the requests before are
answered or dropped, and the thread's place says which piece it is at. So no reordering
and no repetition is possible however the input is cut; that none is forgotten follows from
the shape of what is left. The lemmas `Progress...` show each of a thread's actions on one
connection's values apart from the state, and `ServiceAt` that the other connections are not
touched.

### Only model-checked

All safety properties of the passing runs are proved. What is left to TLC:

- Of `UThread`, `RingSynch`, `IndexerRing`, `IndexerService` and `HttpServer`: all liveness
  properties. Liveness under fairness and `ENABLED` are out of the prover's reach.
- The violated properties of the four findings, which are false.

## 7. What is not modelled

- Stacks, contexts and the assembly of the context switch; failing allocations.
- `HashTableGet` and `HashTableGet2` of the tracker's table, and `HashTableGet2`,
  `HashTableClear` and `HashTableDestroy` of the indexer's, which their programs do not
  call. The tracker does not call its `HashTableClear` and `HashTableDestroy` either; the first
  is modelled, as a public operation of the table (`StoreClear`), the second is not.
- `HttpServer.cpp` and `HttpServer_1.cpp`, earlier versions that the project file excludes
  from the build; the HTTP server's allocation pool, content types and failing `recv`,
  and the failure of its completion port.
- The tracker's output buffer (a blocking send), lines longer than the line
  buffer, the splitting of one payload into several locations.
- The copy that `QueryNext` walks is what `Shown` makes of an answer; its limit of
  `CAPACITY` paths, the client's failing `MapViewOfFile`, handles that `RingGet` never
  closes, and colliding mapping names (`Utils.h:36`) are not modelled.
- The SE1 exercises, sequential programs that print what Windows tells them; the test
  and measuring programs, read only for the protocol they follow; `List.h`, given
  code, modelled as sequences.
- The logger: pure output, with a counter that is only printed.

## 8. Plan

Modelled and checked: the scheduler, the two rings under one abstract
buffer, the query protocol with the index and its monitor, the store under its
abstract registry, the tracker's pool with its connections, and the HTTP server. Proved:
the safety of the scheduler, of both rings with their refinement, of the index and its
queries, of the store with its refinement, of the HTTP server and of the tracker.
What is left, in order:

1. *More of the system.* In the tracker: empty lines, unknown files and the
   start-up of the pool; progress of a connection under weak fairness of the
   threads. In the indexer: colliding mapping names, and an overflow of the changes.
2. *Composition.* `TrackerServer` over `Store` in place of the set of files.
