# Models, checks and proofs of cppbaseutils

cppbaseutils is a C++17/20 library of base components: a thread pool with task objects and
results, an asynchronous logger, a fork of moodycamel's lock-free queue with a blocking
variant, signal/slot objects, Unix signals and crash diagnostics, weak pointers, two-phase
construction and singletons, and many small helpers. This directory holds TLA+ modules of what
has state in it, TLC configurations that check them on small instances,
and TLAPS proofs. Paths below are relative to `src/`.

- [Inventory](#inventory): the components, their state, what is hard about them.
- [Modules](#modules): which module models what, and how it corresponds to the code.
- [Runs](#runs): what each TLC run asks, its bounds, what it shows.
- [Fairness](#fairness): what is assumed and why.
- [Proofs](#proofs): what is proved, from what, by which invariant.
- [Disagreements](#disagreements): where the code does not do what it says.
- [Not modelled](#not-modelled) and [Plan](#plan).

## Inventory

| component | state | operations | talks to |
|---|---|---|---|
| thread pool `Src/XThreadPool/xthreadpool.cpp` | `m_tasksQueue`, `m_threadsContainer`, idle and busy counters, mode, thresholds, `m_isPoolRunning`, `m_mtx`, two condition variables | `runnableJoin`, `start`, `stop`, setters, destruction, worker loop | tasks (calls them), clients |
| task and result `xabstractrunnable.cpp`, `xresult.cpp` | owner, `m_is_running`, promise, binary semaphore, `m_recall_`, `m_allow_get_` | claim by `append`, `call`, `result()` in four forms | pool, clients |
| log queue `Src/XLog/xlog.cpp` | `m_log_queue_`, limit, shutdown flag, two mutexes, one condition variable | `log`, `flush`, `waitForCompletion`, `setAsyncQueueSize`, worker, destruction | log file |
| log files (same file) | current name, size, rotation count, retention | open, rotate, find the latest, clean up | file system |
| lightweight semaphore `Src/XConcurrentQueue/xlightweightsemaphore.cpp` | `m_count`, kernel semaphore | `tryWait`, `wait`, Many forms, `signal` | kernel |
| blocking queue `xblockingconcurrentqueue.hpp` | lock-free queue and semaphore | `enqueue`, `try_dequeue`, `wait_dequeue`, timed, bulk | both |
| lock-free queue `xconcurrentqueueabstract.hpp`, `xconcurrentqueue.hpp`, `xconcurrentqueueproxy.hpp` | per producer: blocks, index, tickets; free list; list of producers; hash tables from threads to producers; global offset, tokens | enqueue, dequeue, bulk, tokens, recycling, end of a thread, move, swap | - |
| signal/slot objects `Src/XObject/` | connection lists, senders, current sender, 131 shared mutexes | `connect`, `disconnect`, `emitSignal`, destruction | slots of other objects |
| Unix signals `Src/Unix/XSignal` | `m_signalHandlerMap_`, `m_orphanSignals_`, `m_async_`, a pipe, the system's actions | register, deliver, unregister, end of the program | the process, the thread that reads the pipe |
| crash diagnostics `Src/XLog/xlog.cpp` | `m_crash_diagnostics_`, `m_crash_handler_` | setup and removal of handlers, `handleCrash` | Unix signals |
| ring buffer `Src/XContainer/ringbuffer.hpp` | an array, head, tail, size | push, pop, clear, access, iterators | - |
| counting semaphore `Src/XThreadPool/xsemaphore.hpp` | a count, a mutex, a condition variable | release, acquire, try, with a timeout | threads |
| weak pointers `Src/XTools/xpointer.*` | counters shared with the object | create, copy, move, swap, destroy | objects, which free the counters too |
| two-phase construction, singletons `Src/XMemory/xmemory.hpp` | a `once_flag` and its object; the error log | create in four ways, singleton with five attempts | Qt's object tree |
| Windows signals, `XThreadLocal` | a handler; a map | one-step operations | - |
| `XHelper`, `XTupleHelper`, `XMath`, `XContainerHelper`, atomics, Qt adapters, chain of responsibility | none or a single atomic | stateless or one-step operations | - |

What is hard:

- **Pool.** One condition variable serves workers, joins that wait for room, and `stop`;
  `m_isPoolRunning` is stored outside `m_mtx`; `start` decides in three separate sections; a
  leaving thread updates container and counters in separate steps while the pool is restarted.
  Correct means: no task is lost or run twice, nobody sleeps over a task or a stop, the
  counters are exact, thresholds hold, `stop` leaves nothing behind, every call returns.
- **Result.** Claim, promise, permit and two flags are changed in separate steps by joins,
  the worker and any number of getters. Correct means: a result is delivered once, to a join
  that asked for it, nobody blocks for ever, no exception leaves a `noexcept` function.
- **Logger.** `notify_one` on a variable shared by the worker and the callers of `flush`; the
  worker holds a message that is neither queued nor written; shutdown is announced without
  the mutex. Correct means: messages are written once and in order, the queue is bounded,
  a flush or wait means written, destruction drains and ends.
- **Semaphore and blocking queue.** A count that goes below zero for sleepers, posts that are
  made after they were counted, timeouts that must settle with both. Correct means: never
  more permits than signals, no signal lost, each permit backed by an element.
- **Lock-free queue.** Consumers reserve before they know that there is an element, and look for
  it in a block list and an index that the producer changes meanwhile; blocks are taken again as soon as
  all their slots are marked, or given back by the consumer that marks the last one; every index
  wraps; the free list has the ABA problem; threads insert themselves into hash tables that
  others replace; producers are recycled; consumers with tokens move in step by a counter
  that each saw at another time. Correct means: each producer's elements
  leave in order, each to one consumer, wherever the consumer stands when the producer moves
  on; a block is in one place; a thread finds its own producer; a dequeue that reports nothing saw
  every producer empty; tokens stay spread out; destruction destroys what is left, once.
- **Signal/slot.** Emission iterates over a copy without the lock while connections and
  objects go away, and slots emit again; pairs of shared mutexes are taken by many threads;
  `disconnect` reads before it locks and chooses among four cases. Correct means: no lock embrace, a
  unique connection is made once, a disconnect removes what it was asked for and nothing else,
  the current sender is that of the innermost emission.
- **Unix signals and crashes.** A handler may do no more than write into a pipe; another thread acts
  later, on an object that may be unregistered or dropped by then, while the thread that faulted
  faults again. Correct means: the action of the system and the map agree at rest, and the process does
  not end before its crash was reported.
- **Log files.** Names, numbers and sizes are found again after each restart, on other days, with
  other limits, while the file system may fail at any of it. Correct means: the order of the names is the
  order of the messages, and the size that decides about the next file is that of the file, but for what failed.
- **Ownership.** Counters that several threads make at once and the last one frees; objects that fail
  half-way; a singleton that is tried five times while others ask for it. Correct means: freed
  once, by the last; nobody gets a part of an object.

`PROJECT.json` lists these hazards at their lines with the properties that cover them.

## Modules

All modules treat atomic operations as sequentially consistent. A critical section that does
not wait inside is one step, guarded by the mutex being free; a section another thread can
separate (it waits, unlocks or touches state that is also changed without the mutex) has a
step for each part. Spurious wakeups are left out: each wait re-tests its predicate, and a
wakeup that finds it unchanged goes back to sleep.

### XThreadPool

State variables carry the names of the members. An accepted join is its *ticket* (1, 2, ...).
A worker is a pair of an `XThread_` address and a slot: `start` on a container that was
already started runs a second OS thread at the same address, which is why the slot exists.
`wpc` follows `run()` and `acquireTask()`; `cpc` follows a caller.

| action | code |
|---|---|
| `RunnableJoin`, `AppendPush`, `AppendFull`, `AppendTimeout`, `AppendFail`, `AppendNotify` | `append`: claim, the one-second wait for room, push with the growth decision, `notify_all` |
| `StartCall`, `StartLoadRunning`, ... | `start`: the test of `m_isPoolRunning`, of the container, the counters, the creation |
| `StopCall`, `StopNotify`, ... | `stop` and the destructor: store, `notify_all`, `notify_all` under `m_mtx`, wait for the container to empty |
| `SetCall`, `SetStore` | the setters: test, then store |
| `Acquire...` and the rest of `WorkerStep` | `acquireTask`, the call of the task, the departure of a thread |

Bodies of tasks may join further tasks (`NestedJoins`); `start` and `stop` from inside a task
return at once, as in the code. The thread timeout in CACHE mode is an expiry that may happen
whenever the thread waits (`ThreadsExpire`).

### XResult

One task object, its `XResult` and the pools it is joined to. A pool is the number of times
its queue holds the task. `std::promise` is modelled by its sequence of shared states: each is
unset, broken, or holds the number of the run that set it; `set()` replaces the promise,
stores and releases in three steps. The four forms of `result()` keep each load and each store
of their flags as a step of its own. A `future_error` inside a `noexcept` function sets
`terminated`. `ResultInit`, `ResultNext` and `ResultSpec` carry the component's name because the module
is extended next to others.

### XLog

`m_log_queue_`, the limit, the shutdown flag, the queue mutex, the condition variable (threads
at `wait`/`waiting`) and the file. Messages are numbered in the order of acceptance; `hand` is
the message the worker has popped and not yet written; `written`, `dropped` and `failed` are
history. `flush` has its check under the queue mutex and its write under the file mutex, where
the worker writes; the destructor stores, notifies and joins in three steps.
A fatal log is a `log` whose caller then flushes.

### XLightweightSemaphore

`m_count` and the kernel's value. A load whose `compare_exchange` succeeds is one step; a
failing one is no step (it is tried again). `spin` is the state in which a thread may still
take a permit or subtract itself (`maxSpins` is left open). `KernelTimeout` may fire whenever a
thread with a positive timeout waits; `AdjustRestore`, `AdjustSignalled`, `AdjustTry` are the
loop that gives the decrement back or takes the post that was already counted. `Post` makes the
posts of one `signal` one after the other. `signalled` and `acquired` are history. The
constructor hands `initialCount` to the kernel semaphore and leaves `m_count` at zero, and
the model does the same. The mach and Windows kernel semaphores have the same interface and
have no module of their own. `PermitsKept` joins two invariants: permits taken and still there equal
those signalled, and no thread sleeps in the kernel that a signal has counted.

### XBlockingConcurrentQueue

Extends the semaphore's module and uses its actions: a producer pushes (`Enqueue`) and then
signals (`EnqueueSignal`); a consumer gets permits (`TryDequeue`, or `WaitDequeue` ... `Waited`)
and loops (`TakeElements`, `TakeNothing`) until it has that many elements. The lock-free queue
below is the number of its elements; it may return nothing, or part of a bulk, while it has
elements. An enqueue that fails for want of memory changes nothing.

### XSubQueue, XExplicitProducer

`XSubQueue` is what the queue of one producer promises: a FIFO `queue`, and for each consumer the elements it
has claimed and not yet moved. `XExplicitProducer` is the code of `ExplicitProducer`; an element
is told by the index it was enqueued at. The refinement mapping reads `queue` and `taken` out of the
blocks *through the index, the way a consumer would*: an unclaimed element is found from the
published front, a claimed one from the header, front and slot that its consumer has loaded. A
block that is taken again too early, an entry that is overwritten, or an index that grows wrongly changes
what is read there and is no step of `XSubQueue`.

| action | code |
|---|---|
| `EnqueueCall`, `TakeAhead`, `NoneAhead`, `NewBlockIndex`, `InsertBlock`, `EnqueueFails` | `enqueue`, `enqueue_bulk` until all blocks are there, one step per block; `new_block_index`; `requisition_block` is the choice between `InsertBlock` and `EnqueueFails` |
| `Ready`, `Construct`, `ConstructorThrows`, `Enter`, `Publish` | flags, front and elements in the two orders the code has (`mayThrow`), the store of `tailIndex` |
| `DequeueCall`, `Reserve`, `Check`, `GiveBack`, `ClaimElements` | the tickets of `dequeue`, `dequeue_bulk`, one step per access to a shared variable |
| `LoadIndex`, `Locate`, `MoveOut`, `MarkEmpty` | the search for the block, and for each block its elements and its flags |
| `Destroy` | the destructor: the half-dequeued block and the slots it visits |

`enqueue` is `enqueue_bulk` of one element except for the order of flags and index entry, and
`dequeue` is `dequeue_bulk` of one. Emptiness is kept in flags, as for blocks of up to
`EXPLICIT_BLOCK_EMPTY_COUNTER_THRESHOLD` elements. The initial state is the constructor's (whose
allocation may have failed) or that of a queue through which `Age` elements have passed one by one.
`UndoAnyTime` says when a bulk enqueue may fail with blocks in its hands: see
[Disagreements](#disagreements). `abandoned` and `undone` are history.

### XImplicitProducer, XCircularIndex

`XCircularIndex` has the arithmetic of indices that both kinds of producers use (`index_t`,
`circular_less_than`). `XImplicitProducer` is the code of `ImplicitProducer`, shown to implement the same
`XSubQueue`. Its blocks do not form a list: each counts the elements that were moved out of it
(`Counted`), and the consumer that takes the last one clears the entry (`MarkEmpty`,
`Release`) and gives the block back (`FreeBlock`). Three properties follow the blocks:
`BlocksGivenBack` (when nobody is in a call, exactly the blocks with elements are out of the free list, each with
one entry), `FreeBlocksUntouched` (no step touches a block that is there), `DestroysWhatIsLeft`.

| action | code |
|---|---|
| `EnqueueCall`, `InsertKey`, `InsertTail`, `GrowIndex`, `InsertFails` | `enqueue`, `enqueue_bulk`, `insert_block_index_entry`, `new_block_index` |
| `Requisition`, `RequisitionFails`, `EnterBlock` | `requisition_block`, the entry of the block, `rewind_block_index_tail` |
| `Construct`, `ConstructorThrows`, `UndoBlock`, `UndoEnd`, `Publish` | the elements, the two undo loops of `enqueue_bulk`, the store of `tailIndex` |
| `DequeueCall` ... `ClaimElements` | the tickets, as in the explicit producer |
| `LoadIndex`, `Locate`, `MoveOut`, `MarkEmpty`, `Release`, `FreeBlock` | `get_block_index_index_for_index`, the elements, `set_many_empty`, the entry, `add_block_to_free_list` |
| `Destroy` | the destructor, block by block |

### XBlockPool, XProducers, XQueueMove, XDispatch

The rest of the lock-free queue, a module for each of its shared structures.

- `XBlockPool`: the initial pool (one `fetch_add`), the free list and the allocator. Each access to
  `freeListHead`, to a block's `freeListRefs` or `freeListNext` is a step; the count and its bit
  `SHOULD_BE_ON_FREELIST` are `freeListRefs` and `shouldBeOn`. `BlocksConserved`: a block has one
  owner or is listed once, and when nobody is in a call none is lost.
- `XProducers`: recycling (`Take` is the compare-and-swap of `inactive`), the list, the hash tables with the
  resize flag, the two conditions on the load (`HalfFull`, `Admitted`), the insertion
  of a thread's slot (`Insert`), tokens, the notifier of a thread's end. Threads share hash values so that
  they collide; a thread that ended may come back as another with the same id. `SearchLeadsToOne`:
  a producer has one holder, a thread gets the same producer while it lives, one thread allocates. That every table
  keeps an empty slot, where probes end, is `SearchEnds`, which is refuted.
- `XQueueMove`: the first hash table is a member of the queue object; moves and swaps redirect the
  newest table or the end of the chain (`PrevFixed`). Sequential, as the code requires; threads and
  tokens outlive the queues they used. `TablesMoveAlong`: the chain of each queue ends in its own
  part, its producers name it as their parent.
- `XDispatch`: `try_dequeue` with its scan of the fullest of the first three producers, `try_dequeue` with a token and its
  rotation, the bulk and non-interleaved forms, and the proxy's count. A producer is a number of
  elements and what consumers have optimistically claimed in excess of them. The three loads of a rotation are one
  step (`Missed` is how many rotations the token did not see, `Delta` leaves out whole rounds of them), and giving back an excess is one step with the claim. `ReportsTruly`: a dequeue that returns nothing saw every producer empty
  at some moment of its call, and at rest the proxy's count is the number of elements; `SpreadOut`: tokens
  that have seen the same offset stay as far apart as they began.

### XObject

Objects hash to mutexes of a pool; `lockOf` is chosen in the initial state, so every way in which
objects share mutexes is checked. Index 0 is also the mutex of a null receiver, as in
`signalSlotLock(nullptr)`. A thread in `connect`, `disconnect` or at the start of an emission is at
`lock` or, with one of two mutexes in its hands, at `lock2`; the last mutex is `Granted` and the call's end
gives all back (`Release`). What the code does under all its locks is one step (`Disconnect`, `EmitCopy`), except
that a unique connection is searched for in one step (`ConnectSearch`) and made in another (`Connect`), with the
thread at `add` and the mutexes `Held` in between: it is the locks that keep others out, not the model.

| action | code |
|---|---|
| `ConnectCall`, `ConnectSearch`, `Connect` | `connect`, `connectImpl`: the search for an equal connection, `addConnection` |
| `DisconnectCall`, `Disconnect` | the three templates of `disconnect` with their nulls, `disconnectImpl` and its four cases (`Dropped`) |
| `EmitCall`, `EmitCopy`, `EmitSkip`, `SlotCall`, `SlotReturn`, `EmitEnd` | `doActivate`: the copy of the list, blocked receivers, `XSender` around each slot |
| `BlockSignals`, `Destroy` | `blockSignals`, `~XObject` |

What a disconnect leaves of the list of a signal is `Kept`, the loop of `disconnectImpl` over that list as a recursive function.
`AllAskedGo` says that what was asked for goes, and that nothing else does. Its one exception is `ClearsAll`, a signal
and a receiver without a slot, where the code clears the sender (see [Disagreements](#disagreements)).

Each thread has a stack of emissions; in the body of a slot it may do everything, emit again
included. A slot is a member function, which compares, or `Lambda`, which does not. Three
things are assumed of the caller: one thread at a time emits to an object
(`m_currentSender` is not guarded), nobody blocks signals of an object that another thread
emits from, and an object is destroyed only when nothing uses it or is connected to it (`Unused`:
the destructor leaves connections of other objects in place).

### XSemaphore

What happens under `m_mutex_` is one step; a wait gives it up (`Sleep`) and ends by `notify_all`, without a
reason, or by time (`Late`, where the predicate decides once more). `count_` beyond `max()` is an
error of the caller, as in the assertion.

### XLogFile

The files of one process after another (`Application`): the name of a file is its base, its day and
its number in it. `Initialized` is `initializeLogFile` with the search for the latest file (three
digits, today only), `Rotated` and `Opened` are what a write does first, `Cleaned` the retention.

The file system may fail at each of these, and the model follows each `catch`: a search that fails finds no
file, and a fresh name is taken (`~found` in `Initialized`, `xlog.cpp:438`); an initialization that fails falls back to
`application.log`; a rotation that fails closes the stream and keeps the name; a file that does not open loses the
message, and the next one tries again (`OpenFails`); a size that cannot be looked up is taken as 0 (`~found` in
`Opened`, `:572`); a stream that fails takes all, some or nothing of the message and nothing more until the file is
opened again (`good`, `Written`), while the size counts every message in full (`:585-589`). `missed` is history: what
the file had when its size was taken as 0.

`FilesInOrder`: the messages that got into the files, or parts of them, are in the order of the files' names (those in
`application.log` aside). `SizeFollows`: the size that decides about the next file is that of the file, less only what a failed
lookup missed, and more only if a write has failed since the file was opened. What a failed stream
still holds when it is closed is not modelled, nor files that others remove.

### XSignal, XCrash

`XSignal` is the registry with the thread that reads the pipe (`Loop`, `Read`, `FindHandler`,
`CallHandler`, `Called`), the two ways to unregister, dropped pointers and the end of the program. A signal is
registered by one thread (two threads that register the same signal both find it free), and an object
is unregistered once. `XCrash` puts `handleCrash` on top: the tables are the set `registered` there, and a
thread that faults goes back to its instruction, so the signal comes again and again until the pipe
is full or the default action ends the process. It speaks of the time in which the logger lives: its
destructor removes the handlers.

### XRingBuffer, XPointer, XMemory

- `XRingBuffer`: head, tail and size as in the code, `newest` the sequence of the values that were
  pushed last; iterators are indices with the tests of each operation. `KeepsNewest` holds until
  the buffer was emptied by `pop_front` (see [Disagreements](#disagreements)).
- `XPointer`: each step is one access to `m_sharedRefcount_`, `m_weak_ref` or `m_strong_ref`. The
  object is destroyed while threads copy, move and drop their weak pointers; nobody makes one from a plain
  pointer then, which is the caller's duty. `WeakPointersSound`: the counters are freed once,
  by the last, and a weak pointer to a destroyed object is null.
- `XMemory`: allocation, constructor, `construct_` and its failure, for unique pointers, children
  in Qt's tree and the singleton (`EnterOnce`, `TryAgain`, `PassOnce`). `CreatedWholeAndOnce`: an object is given out only
  when all of it succeeded, has one owner, and there is one singleton, for ever.

## Runs

The MC modules say which operations the clients use; the configurations do the rest. Five MC modules hold
several components that are small enough to share a run: in each behaviour one of them, the
*part*, takes its steps and the others stay in an initial state, so the states of the parts
add up and do not multiply. `MCXBlockingConcurrentQueue` holds what waits, `MCXOwnership` what owns,
`MCXSubQueues` the two kinds of producers, `MCXObject` signals and slots and the choice between producers, and
`MCXParts` the thread pool and the rest. Where a run has symmetry (`objects_all`, `ownership_all`, `producer_all`), only
values that every property treats alike are exchanged. Four modules only put
components side by side under names that do not clash, with the properties of each: `XOwnership` (blocks, weak
pointers, memory, moves), `XTokens` (the list of producers and the hash tables), `XChoice` (the choice of a producer) and `XParts` (log files, crashes, signals, ring buffer,
counting semaphore). The runs and the proofs both extend these, so that a theorem is about the very property that a run checks.

| run | bounds | states | question and answer |
|---|---|---|---|
| `pool_all` | pool: 1 client, all calls (4), 2 addresses x 2 slots, a queue of 1 or 2, both modes, nested joins, expiry; counting semaphore: 3 threads, 3 releases of 1 or 2; log files: limits 0 and 2, every failure, 3 starts, 3 days, 3 messages; signals: 2 threads, 2 signals, 3 objects, 2 raises; crashes: 2 threads, a signal of each kind, a pipe of 2, 2 switches; ring buffer of 3 | 1.7M | nobody sleeps on a task, every ticket in one place and the queue in the order of acceptance, counters exact, `stop` leaves nothing; permits, file order and size, handled signals, reported crashes, the newest values: hold |
| `pool_live` | 1 client, 3 calls, nested joins, both modes, queue of 1, no expiry | 17k | every call returns; in a pool that is not stopped every task runs: hold |
| `log_all` | 2 clients, every operation, limits 1 and 2, 2 messages, 2 waits, failing file, destruction | 265k | the worker hears, messages in order, bound, drained at the end, calls return: hold |
| `producer_all` | 2 consumers, 3 calls of `enqueue` or of 3 elements, bulk dequeues of up to 3, 3 blocks of 2, first index of 2 entries, 4-bit indices, new or after 14 elements; the same for an implicit producer, of which the old one has elements that may throw | 829k | each one FIFO queue (`BothImplementQueue`); explicit: tickets balance, blocks come back, destruction; implicit: blocks are given back once and not touched afterwards: hold |
| `waits_all` | 3 threads, 4 calls, bulk of 1 and 2, with and without a timeout (one of zero is one that expires at once); results: 3 joins, 5 gets, 2 workers, the queue may be full | 158k | permits are kept and backed by elements, nobody sleeps beside one; results of its own run, nothing throws; calls return: hold |
| `ownership_all` | results: 2 clients, 2 pools, 3 workers, any order; producers: 3 threads, 2 of which collide, 2 producers, 3 tables, 4 calls; blocks: 3 threads, pool of 2, 1 allocated, 5 requests; moves: 3 queues, 5 moves; pointers: 2 threads, 4 calls; memory: 2 threads, 2 objects, 3 calls | 1.4M | one owner for each result, producer, block, table, counter and object: hold |
| `objects_all` | objects: 2 threads (one emits), 2 objects on 2 mutexes or on one, 4 calls, emissions nested twice; dispatch: 2 producers, 2 consumers, 3 calls, scan and quota of 1 | 1.7M | locks never embrace, a unique connection is new, disconnects remove what they are asked and nothing else, dequeues report truly, tokens spread out: hold |

`pool_join_after_stop`, `producer_undo`, `implicit_destroy`, `producers_full` and `log_fatal` end in a counterexample, see
[Disagreements](#disagreements).

**Why these bounds are enough.** The hazards are races of two or three actors around one
window each: a wait against a notification, a timeout against a signal, an update in two
steps against a reader. Two addresses with two slots are the smallest pool in which one
thread leaves while another is created in its place and in which a double start can happen;
a queue of one element is full at once, and one of two has an order; four calls are join, stop, join and destruction.
The client of the pool races with the workers, whose tasks join as well; that two clients
race with each other is covered by the proofs, which hold for any number of clients. Three
threads on the semaphore are a signaller, a waiter that times out and a waiter that takes what
the first gave back; with amounts of 1 and 2 a signal may release one waiter and leave a
permit over. Bulks of three elements over blocks of two give every overlap of a call with its
blocks (one, two, half), three blocks a list in which one is taken again while another is read, and an index of two
entries turns and doubles; indices of four bits wrap in the old queue in the first calls. Of the implicit
producers the run has an old one with elements that may throw and a new one with elements that do not; the other
two kinds were checked as well (1.3 million states in all), and are left out because they add neither a position in
the index nor an order of steps. With
bulk dequeues of two elements the same properties hold over 1.4 million states. Two clients of the logger and its worker are the smallest number in which one
flushes or waits on the shared variable while the other logs. Two objects give both orders of a pair
of mutexes, a pair that is one mutex, and an object connected to itself; four calls are a
connection, two nested emissions and a call in the innermost slot. The ABA race of the free list needs one
thread that has read a next pointer and two that take and return the block. Two threads that
collide in the hash and one that does not, over tables of two, four and eight slots, cover insertion into a
table that is replaced, an older table that is searched and a slot that is used again. Two producers and two consumers make a scan that passes the end
of the list; `CountMod` lets counts of the proxy wrap. A pipe of two is full when two threads have faulted once
each, and two switches of the diagnostics are off and on again. `Max...` constants bound the
number of calls only, `MaxDepth` the nesting. Each property is paired in `PROJECT.json` with
a small change of the model, a plausible bug, that makes the same run fail; so no run holds because
its bounds miss the case.

**Deadlock** is checked except in `log_all`, where the destructor may hang; `CallsReturn` takes its
place there. In the shared runs the parts that may really stop have the step `Stops`: a
getter may block for ever, a process ends by a signal or writes no more. A program that has made
all its calls is `Quiescent`, `Finished` or the like.

## Fairness

- `XThreadPool!FairSpec`: strong fairness of each worker and of each caller inside a call: the
  scheduler runs every thread, a wait of one second ends, a task body returns. It is strong because
  workers take `m_mtx` again and again, so it is free again and again and not for ever; that
  a thread asking for it gets it is what a mutex that does not starve its waiters gives. Calls are
  not fair: nobody must make them.
- `MCXBlockingConcurrentQueue!WaitsSpec`, results: weak fairness of the client inside a call and of each
  worker.
- `XLog!FairSpec`: strong fairness of the steps that take the queue mutex (same reason), weak
  fairness of the destructor.
- `MCXBlockingConcurrentQueue!WaitsSpec`, queue: weak fairness of each thread; for a timed wait, that
  time passes. Also that a lock-free queue which has elements gives one in the end to a thread
  that keeps asking.
- `XObject` has no liveness property: that some thread can go on is the invariant
  `SomeLockProceeds`, and emissions end when their slots do.

## Proofs

Eight modules hold the theorems, which are for any number of clients, threads, thresholds, limits, objects,
indices and calls:

| module | about |
|---|---|
| `XThreadPoolProofs` | `XThreadPool`, which it extends |
| `XLogProofs` | `XLog` |
| `XObjectProofs` | `XObject` |
| `XPartsProofs` | the parts of `XParts`: `XLogFile`, `XCrash`, `XSignal`, `XRingBuffer`, `XSemaphore` |
| `XOwnershipProofs` | the parts of `XOwnership` (`XBlockPool`, `XPointer`, `XMemory`, `XQueueMove`), and `XResult` |
| `XBlockingConcurrentQueueProofs` | `XBlockingConcurrentQueue`, the `XLightweightSemaphore` it extends, and `XDispatch` through `XChoice` |
| `XExplicitProducerProofs` | `XExplicitProducer`, and through `XTokens` the producers, `XProducers` |
| `Totals` | lemmas: induction over numbers and over finite sets, sums over a finite set |

The prover cannot instantiate an induction principle that takes an operator. Where an induction is needed it is
stated with a set in the place of the predicate (`Totals!InductionOnNat`: a set of numbers with 0 and with the
successor of each member is all of them), and the set is given by its property. In this way sums over threads, the length
of a free list, the depth of emissions and the recursive function `Kept` are reasoned about.
Types are proved first everywhere; the types of pool, logger and `XObject` have a theorem (`TypeCorrect`), those of
the others are part of the invariant. `TypeOK` of these three no longer takes a place among the
properties of the runs.

**Pool.**

- **NoWakeupIsLost**: `NoLostWakeup`. It is inductive together with `TypeOK` and `LockOwner`
  (`m_mtx` is held across steps exactly by a worker that has tested the predicate and not yet
  begun to wait). That owner is what keeps an `append` from pushing between the test and the
  wait; `stop` stores without the mutex, and its second `notify_all` under the mutex saves it.
- **TicketsNeverLost**: `TicketsOnce`, inductive together with `TypeOK`.
- **CountersAlwaysExact**, **StopAlwaysMeansQuiet**: the invariant `CounterInv` adds to `CountersExact` that a
  thread which has not left is in the container and alone at its address (`InContainer`), what a task may call
  (`NestedCalls`), and that a client which found the pool stopped starts it on an empty container
  (`StarterAlone`). Both assume `OneStarter`: one client joins and starts. The code needs it: two
  concurrent `start()` start each thread object twice and count it once (see
  [Disagreements](#disagreements)). Others may stop the pool and set its limits, and tasks may join.

**Results.**

- **ResultsReturnedOnce**: `ResultOnce`. `OnceInv` relates the shared states of the promise to runs and getters: the number of a
  run is with one worker or is the value of one state (`RunsOnce`), a future is one client's (`FuturesOnce`), and what was
  returned came out of a future that nobody waits for any more (`DeliveredOnce`). Any clients, pools and forms of `result()`.
- **ResultsInTurn**, **NeverTerminated**: `OwnResult` and `NotTerminated` for a client that is alone with the task, takes
  each result before it joins again, and does not use `result(duration)` (`Alone`); `TurnInv` follows the flags, the permit and
  the last state of the promise through its turn. Without these conditions both are false, for the reasons given
  under [Disagreements](#disagreements).
**Logger.**

- **TypeCorrect** has `Holding` with it: the worker has a message in its hand
  exactly at `popped` and `writing`, so what it appends to the file is a message.
- **WorkerAlwaysHears**: `WorkerHears`. The strengthening `HearsInv` says who may be awake while
  the worker is about to sleep (`AboutToSleep`), that a flusher at the file saw an empty queue
  (`AtTheFile`), that the sleeping worker left nothing behind (`AsleepOnEmpty`) and that the last drain
  told every waiting client (`AllTold`): without it, `notify_one` could wake a flusher.
- **NothingPendingAtExit**: `DrainedAtExit`, through `ShutdownInv`: once the worker has left, nothing
  is queued, and no call is in progress that could queue more.
- **QueueAlwaysBounded**: `QueueBounded`; the push drops one message when the queue is at its
  limit, and a limit that shrinks does not let the queue grow.
- **AlwaysInOrder**: `InOrder`. `OrderInv`: what was written, what the worker holds and what is queued each
  increase, come one before the other, and together with what was dropped or failed are as many as were accepted.
- **CrashAlwaysReported**: `DiesReported` of `XCrash`. While the process lives, a signal that the
  diagnostics have on, and that no switch in progress has yet to reach, goes to the handler or was reported already
  (`SignalSafe`); the reader tells before it undoes (`Handling`); a switch adds a signal to the map only when its
  action is the handler (`Switching`). Assumed is that the list of crash signals is not empty (`Listed`).
- **FilesAlwaysInOrder**: `FilesInOrder` of `XLogFile`, whatever fails and when. The file in use comes after all others of its base name (`IsLast`),
  or it is still to be made and will. That rests on `TodayNumbered`: the files begun today are numbered without a gap, because
  the retention removes only files that were last written before today; so the first free number is the
  next one. Without it, removing file 1 of today would let a later message into it. Limits, retentions and
  lengths are natural numbers (`Counts`); days, files, messages and restarts are any number.
- **SizeAlwaysFollows**: `SizeFollows` of `XLogFile`, under the same assumptions: opening makes file and count equal but for what
  is `missed`, each write adds to the count at least what it adds to the file, and no less while the stream is good.

**Signals and slots.**

- **LocksNeverEmbrace**: `SomeLockProceeds`. `LockInv` says which mutexes a thread holds (`OwnersHold`): its first when it
  wants a second, all it needs when it is between the search and the connection, else none. If nobody is
  there, the threads that want a second hold all that is held, and one of them has the largest first mutex
  (`LargestFirst`, from the well-foundedness of strict inclusion over the finite pool); whoever
  held its second would have a larger first. The number of threads is not bounded, mutexes and
  objects are any; that the pool of mutexes is finite is assumed.
- **UniqueAlwaysNew**: `UniqueIsNew`. A thread at `add` searched and found no equal connection, and there is none still
  (`Searched`): whoever would append to the same list needs the sender's mutex, which that thread holds by `OwnersHold`
  (`NeedsApart`). `Kept` keeps the order of what it keeps.
- **AllAskedAlwaysGo**: the action property `AllAskedGo`. `Kept` keeps what the disconnect does not name, all of it, and what is
  not named in the comment's sense is not dropped, except where `ClearsAll`.
- **SenderAlwaysInnermost**: `InnermostSender`. `SenderInv` says of each depth of a thread's stack that the sender it
  found is the innermost below it, and is the current sender's when it is on top. It is proved under `[]OneAtATime`,
  one thread at a time in the slots of an object, because `m_currentSender` has no guard; `XObject` itself
  assumes as much of the emitters.
- **AlwaysHandledIfRegistered**: `HandledIfRegistered`, which joins that of `XSignal` (**SignalsAlwaysHandled**) with
  `DiesReported` of `XCrash` (above), each under its own specification. Of `XSignal`, while the program runs, `HandledInv`: an object is
  registered for one signal (`Registry`), one that its thread has not registered yet is nobody else's (`Makers`), what the
  reader is about to call is registered for what it has read or is an orphan (`InHands`), no object is forgotten while
  its user has it (`UsersRemembered`), and each signal stands as its thread's step of registering or unregistering left it
  (`SignalInv`). Assumed is `Owned`: a signal is registered by one thread, as in the module.

**Lock-free queue.**

- **TicketsAlwaysBalance**: `TicketsBalance`, for every width of the indices. All counters wrap, so each equation holds
  up to a multiple of `IndexMod`; what remains is that the sum of the consumers' reservations, taken over the finite set of
  consumers, changes by what each step reserves, claims or gives back.
- **BlocksAlwaysConserved**: `BlocksConserved`. `PoolInv` gives each block one place: still in the initial pool, owned,
  listed, just popped, on its way into the list in one thread's hands, or left to the last reader, who will list it.
  Its `freeListRefs` is the number of threads that refer to it, and one more while the list does (`BlockInv`); listed blocks
  have a depth that falls by one along `freeListNext` (`StackInv`), so the list does not turn back on itself. A
  reference keeps a block from being listed again, and so the next pointer that was read through it stands (`Reads`):
  the compare-and-swap of a thread that was overtaken cannot succeed with a stale one (ABA).
- **OneProducerEach**: `SearchLeadsToOne`, which is `OneHolder`, `SameProducer` and `OneAllocates`.
  `ProducersInv`: there is memory for the producers listed and about to be (`RoomInv`); a producer has one holder, or
  none when it is inactive (`HeldInv`); the flag belongs to one thread (`ResizeInv`); and for each thread, what it is taking
  (`TakerInv`), the one implicit producer it has from then until it ends (`MineInv`), that its slots lead there
  (`SlotInv`) and that its search finds the slot (`PathInv`). The last stands although others write to the same tables since a slot that was used is never empty
  again, so no search stops earlier than it did (`FoundStays`); the doubling of a table ends (`DoublingEnds`). Assumed is `Hashed`: finitely many
  threads with a hash each, none of which is one of the two invalid ids, and a first table that is not empty.
  `SearchEnds` was to be its fourth part. No invariant would give it, because `hashCount` is no upper bound of the slots that are used in a
  table: a thread that reuses a slot of an older table is not counted, and when it is found there it takes a
  slot of the newest table, which may be an empty one, without being counted either. What is missing in such an invariant
  gave the schedule of `producers_full`.
- **AlwaysReportsTruly**: `ReportsTruly` of `XDispatch`. `DispatchInv`: each consumer has visited, and seen empty, the
  producers between the one it began with and the one it stands at (`PlacesInv`), what is claimed in excess of a producer's elements is the
  sum of what its visitors have still to settle (`ClaimsInv`), and the count of the proxy differs from the elements by what the
  calls under way owe it, modulo its width (`CountInv`). Assumed is `Asking`: finitely many consumers, positive amounts, a scan
  of at least one producer.
- **AlwaysSpreadOut**: `SpreadOut`. `SpreadInv` gives the place of each token in closed form, from its initial offset and the
  last rotation it knows (`PlaceAfter`); `StepsAdd` is the arithmetic by which a token that missed several rotations ends where one
  that followed each of them stands. Whole rounds that it leaves out take it back to where it was (`WholeRounds`). The offset must not wrap, and the theorem assumes so (`MaxDispatched < CountMod`, a rotation
  being counted at most once in a call, `RotationInv`): 2^32 rotations of 256 elements each.
- **TablesAlwaysMoveAlong**: `TablesMoveAlong` of `XQueueMove`. `MoveInv`: the chain of a living queue's tables ends in the queue's own
  part and meets no freed table (`EndsInv`), the chains of two queues are apart (`ApartInv`), a producer in a table of a queue is
  listed there and names it as its parent (`OwnersInv`). A chain is the least set closed under `prev` (`ChainIsLeast`), and no
  chain goes round, because an allocated table has one with a smaller number behind it (`Backward`).
- **PermitsAlwaysKept**: `PermitsKept`. Two equations are inductive, one for `m_count` (`CountKept`) and one for the
  kernel (`KernelKept`: its permits and the posts still to be made are as many as the waiters that were released); each
  gives half of the property.
- **AlwaysBackedByElements**, **NobodyEverSleepsOnElements**: from `ElementsKept`: the elements are as many as the
  permits that were signalled and not acquired and what each thread has pushed and not signalled, or acquired and
  not taken. Finitely many threads, amounts in the natural numbers, and the constructors' initial count of zero.

**Ring buffer and counting semaphore.**

- **NewestAlwaysKept**: `KeepsNewest` of `XRingBuffer`. `RingInv`: until `pop_front` empties the buffer, the
  tail is the last of `m_size_` positions that go round from the head, and each has its value (`InPlace`). Assumed is `Capacity`: at
  least one element, and a capacity that an index can count.
- **SemaphoreSafe**: `PermitsCounted`, which is `NoneSleepsOnPermits` and `PermitsAccounted` of the counting semaphore, from the
  maximum and the amounts being natural numbers: a thread goes to sleep only on a count of zero, and only
  `release` raises the count, which wakes all.

**Ownership.**

- **WeakPointersAlwaysSound**: `WeakPointersSound`. `PointerInv`: every weak pointer has the counters of the
  object or none (`OneBlock`), counters that may become the object's are one thread's alone (`PrivateBlocks`), who deletes
  them does it alone, when nobody has a share (`OneDeleter`), and they say that the object lives until it does not (`Expired`).
  Finitely many threads are assumed, since shares are counted.
- **CreatedAlwaysWhole**: `CreatedWholeAndOnce`. `MemoryInv`: a piece of memory is free, in the making by one thread,
  kept by one, a child, the singleton, or lost, and in one of these places only (`Pieces`); what was handed out is whole
  (`Handed`); the singleton is made by one thread, and answers agree with it (`OnceInOrder`). Assumed is
  that the null pointer is no object (`Absent`).

**Only model-checked.** Everything about liveness, which this prover does not reach under fairness. Of the lock-free queue: the two
refinements of `XSubQueue`, whose mapping reads elements through the index, `BlocksComeBack`, `BlocksGivenBack`, `FreeBlocksUntouched` and
`DestroysWhatIsLeft`. These need an invariant of the blocks and indices that is not written yet. No module declares a recursive operator, so none is out of the
prover's reach by its form.

## Disagreements

Each is a run that ends in a counterexample to a property stated by a comment or document of
the repository; `PROJECT.json` quotes it.

| run | what happens |
|---|---|
| `pool_join_after_stop` | a join after `stop()` sees the idle count of a thread that is still leaving; `start` gives up and the task waits in a pool without threads |
| `producer_undo` | `enqueue_bulk` fails for want of memory after it has inserted a block (`:1102`): the block stays in the list, `pr_blockIndexSlotsUsed` is restored; when the block is taken again it is entered but not counted, so the index looks as if it had room when it is full, and the next new block overwrites the entry of a block with elements. A consumer then takes elements from the wrong block; built with assertions, the program stops in `set_empty` |
| `implicit_destroy` | the destructor of an implicit producer tests for the inside of a block where its first index is meant (`:1431`): it gives a block back and looks for it again at each index inside, stays with the old block at the first index of the next one, and so destroys a slot that has no element and leaves one that has |
| `producers_full` | one counter stands for the slots used in all hash tables (`:2334`). A thread that was admitted to an older table inserts itself there over the slot of a thread that has ended, and one is taken from the counter (`:2429`); its next call copies it into the newest table, which adds nothing (`:2343`). With enough such threads the newest table is full though the count says less than three-quarters, and `while (true)` (`:2326`, "Not an infinite loop because at least one slot is free in the hash table") never ends for an id that is not in it. `MCXProducers` gives the schedule: a first table of 16, one doubling, 44 threads with one hash, 10 of them slow. With the first table of 32, which is the default, the same schedule gives a table of 64 that is full, which TLC confirms (`InitialSize` 32, `MaxProducers` 90, `MaxCalls` 200): 88 threads, 22 of them slow; its counterexample is too long to keep as a run. The same happens with other hashes, since the table is full |
| `log_fatal` | the flush of a fatal message returns while the worker still holds the message |

The modules also reach the following, without a run of their own:

- `result(duration)` drops the value exactly when it arrives in time (`xresult.cpp:72`: the
  condition is the wrong way round);
- a disconnect of one signal from any slot of one receiver clears every connection of the
  sender (`xobject.cpp:376`), though `xobject.hpp:106` calls it disconnecting a signal;
- with `UndoAnyTime`, further: an index that doubles in a bulk enqueue which has taken blocks again and then
  fails keeps the entries of those blocks (`xconcurrentqueueabstract.hpp:1096`); the destructor
  starts its walk at a wrong entry after an undone bulk enqueue (`:783`) and destroys an element
  that was dequeued, or leaves one. `producer_all` excludes exactly these failures;
- a constructor that throws leaves its block with all flags reset (`:843`, `:881`): the block is never taken
  again, though `:899` says that it is available for next time, and the destructor
  destroys elements in it that were never constructed;
- `MAX_SUBQUEUE_SIZE` is not tested when the block ahead is taken again (`:840`): with a limit of
  two blocks, the queue may hold the elements of three;
- a CACHE thread whose wait expired leaves without another look at the queue, though a join
  counted on it (`xthreadpool.cpp:28`), and the task waits for the next join (in `pool_all` threads expire, for the counters;
  `pool_live` has none that do, so its liveness says nothing of this race); growth adds as many threads as tasks are queued, not
  the room below the threshold (`:94`);
- two concurrent `start()` both pass the tests and each thread object is started twice (`:158`);
  a `start` in progress sets the pool running behind a `stop`, which then waits for ever;
- `result()` after `result(NONBLOCK)` blocks for ever (`xresult.cpp:60`), as does one of two
  concurrent `result()` (`:48`); one that timed out makes the future end in `broken_promise`
  inside `noexcept` (`:73`);
- a task queued twice loses its owner after its first run and enters another pool, and the end
  of one run clears `m_is_running` of the next join (`xabstractrunnable.cpp:46-47`);
- the destructor of the logger announces shutdown without the mutex, and the worker may sleep
  through it (`xlog.cpp:31`), so that it never returns: `DrainedAtExit` speaks of one that returns, `WorkerHears` of messages; `waitForCompletion` returns while the worker holds a message (`:239`).

- `pop_front` of the only value of a ring buffer moves the head and leaves the tail, and the next value goes
  where the tail is: `front()` and `[0]` then give another slot (`ringbuffer.hpp:100`, `:121`);
- an iterator of a ring buffer compares a position in the array with that of the tail (`ringbuffer.hpp:218`): once
  the buffer has gone round, its first elements cannot be dereferenced, and its end sometimes can;
  `IteratesNewest` therefore speaks of buffers whose head is not behind their tail;
- the initial count of the lightweight semaphore is given to the kernel and not to `m_count`
  (`xlightweightsemaphore.cpp:31`), so `tryWait` does not see it;
- the proxy's count wraps below zero for a moment when a consumer is faster than the producer's
  `ref` (`xconcurrentqueueproxy.hpp:90`); `ReportsTruly` holds modulo its width, at rest;
- a token's dequeue of a part of a bulk does not test the quota (`xconcurrentqueue.hpp:376`), though
  `:309` says that every 256 elements make everyone rotate;
- log files from number 1000 of a day on do not match the pattern (`xlog.cpp:468`) and are not found
  after a restart;
- a singleton whose five attempts failed stays null for ever (`xmemory.hpp:648`); a constructor that throws loses
  its memory (`:411`);
- `abort()` does not wait for the thread that reports, so its crash information may be missing: the property says
  so; a crash log that cannot be opened is given up (`xlog.cpp:688`), and the report is on standard error only;
- a log file whose size cannot be looked up is taken as empty (`xlog.cpp:572`) and grows past its limit by what it had.

Read in the code but not modelled:

- `XObject::sender()` tests its weak references the wrong way round (`xobject.cpp:89`): it is null in the
  slot of a connection that lives and follows a null pointer once one has gone;
- the bulk dequeue of one producer copies the caller's iterator (`xconcurrentqueueabstract.hpp:1227`, `:1765`), so
  one that goes on to a second producer writes from the first position again;
- `at()` of the ring buffer throws for every position (`ringbuffer.hpp:70`);
- `try_acquire_until` with a predicate cannot be instantiated: its wait returns nothing (`xsemaphore.hpp:75`);
- a second attempt to make a singleton uses arguments that the first has moved from (`xmemory.hpp:581`), the
  pointer is read while `call_once` swaps it (`:589`), `deallocate` gives a number of elements as a size (`:226`);
- `m_currentSender` is written without a lock by two threads that emit to one receiver (`xobject_p_p.hpp:308`), and
  emission calls slots that were disconnected meanwhile (`xobject.cpp:161`);
- `m_is_running` of a task is a `std::function` written by a join and cleared by `call()` without a common
  lock (`xthreadpool.cpp:81`); a join that fails because the queue is full leaves the task claimed (`:78`);
- the name of the current log file is read and written under different mutexes (`xlog.cpp:115`, `:612`), and so is
  the crash handler (`:660`);
- `moodycamelmacros.hpp:115` does not compile in its thread-local branch.

## Not modelled

Result values, formatting, levels, getters that change nothing. Weak memory order: the models
are sequentially consistent, which the code's `memory_order_relaxed` does not promise; the
part where it matters most is `xconcurrentqueueabstract.hpp`, where the models show the algorithm
and not its fences. An assignment that throws in a dequeue. Lifetime of the pool object after its last
reference goes in a worker. What a signal handler may call. The list `m_senders`. Several processes that log into one
directory. The SEH filter and the signal wrapper of Windows. Atomics (each operation is a step of
the modules that use it), compile-time helpers, callables, tuples and Qt adapters have no state of their own
to check. Design-pattern examples and everything under `Test/` are programs, not components.

## Plan

Done: every component with state that is named above. What is left, in this order:

1. Proofs: `ImplementsQueue` of the two kinds of producers step by step,
   which needs the invariant that ties blocks, index and tickets together, and with it `BlocksComeBack` and `BlocksGivenBack`.
2. `JobPool`: what a pool promises (accept, run, once each), with `XThreadPool` shown to
   implement it.
3. A bag of `XSubQueue`s in place of the number in `XBlockingConcurrentQueue` and `XDispatch`.
