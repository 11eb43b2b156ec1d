# The EKA2L1 kernel in TLA+

EKA2L1 emulates Symbian OS. It runs guest ARM code on a recompiler and
implements the EKA2 kernel that the guest's supervisor calls (SVCs) reach, and
some of the system's servers. This directory models the parts on which every
application depends: threads, the scheduler, processes, semaphores, mutexes and
timers; kernel objects and handles; client/server messages; properties and
message queues; and three parts next to the kernel: the command queue of the
graphics driver, the window server's groups, focus and redraws, and memory chunks.
The models are checked with TLC on small instances. The safety invariants of the
scheduler, threads, semaphores, mutexes, timers, handle tables, messages, properties,
message queues and chunks are proved with TLAPS for every instance, and so is that
semaphores, mutexes, the event queue, handle tables and messages implement their
abstract specifications.

Paths below are relative to `src/src/emu/`.

## 1. The system and its parts

| part | state | operations | with whom |
|---|---|---|---|
| scheduler, `kernel/src/scheduler.cpp` | one circular doubly linked ring of threads per level (`readys`, `scheduler_link`), `ready_mask`, the current thread | schedule, resume, wait, sleep, unschedule, stop, reschedule | called by every object that blocks or wakes a thread; driven by the main loop |
| threads, `thread.cpp` | state, priority class and level, time slice, `wait_obj`, request semaphore, sleep request | create, resume, suspend, set priority, kill, `after`, wake-up | SVCs; the timer thread (wake-up) |
| processes, `process.cpp` | thread list and count, priority class, logon and rendezvous requests | run, set priority, logon, cancel, rendezvous, end | threads (count), request semaphores |
| semaphores, `sema.cpp` | count, heap of waiters | wait, signal(n), priority change, suspend | scheduler |
| mutexes, `mutex.cpp` | holder, lock count, heap `waits`, list `pendings` | wait, try_wait, wait_for, signal, priority change, timeout, suspend, destroy | scheduler, timer thread |
| `ntimer`, `timing.cpp` | sorted vector of events, a host thread, a condition variable, two flags | schedule, unschedule, pause, destroy; the thread's loop | calls back into timers, mutexes, threads |
| timers, `timer.cpp` | one request, `outstanding` | after, at, cancel, callback | `ntimer`, request semaphores |
| main loop, `epoc/src/epoc.cpp` | – | run the CPU for a slice, charge it, reschedule | scheduler, CPU |
| handles, `object_ix.cpp`, `kernel_obj.cpp`, `kernel.cpp` | tables of slots (kernel, process, thread), instance numbers, containers of objects, access counts | create, open, duplicate, close | every SVC |
| IPC, `server.cpp`, `session.cpp`, `kernel.cpp`; `services/src/{context,framework}.cpp` | the kernel's messages, session pools, delivered messages, the pending receive | connect, send, receive, cancel, complete, close | servers, both guest and host |
| properties, `property.cpp` | value, queue of subscriptions | attach, define, set, subscribe, cancel, delete | request semaphores |
| message queues, `msgqueue.cpp` | messages, notifications | send, receive, notify, cancel | request semaphores |
| driver queue, `common/include/common/queue.h`, `drivers/src/itc.cpp`, `drivers/src/graphics/backend/ogl/graphics_ogl.cpp` | bounded queue, a host thread, two mutexes and conditions, abort flag | push, pop, synchronous command, finish, abort | window server, front end |
| window server, `services/src/window/` (`screen`, `wingroup`, `winbase`, `winuser`, `fifo`, `io`), `common/src/region.cpp` | order of the groups, focus, event and redraw queues, invalid regions | create, reorder, receive focus, ship input, invalidate, redraw, fetch | its clients, through IPC |
| memory, `mem/src/chunk.cpp`, `mem/src/model/{multiple,flexible}/chunk.cpp`, `common/src/allocator.cpp`, `kernel/src/chunk.cpp` | committed pages, page bitmap, page tables, top and bottom, CPU mapping | commit, decommit, allocate, adjust, switch of process | host memory, CPU |
| change notifiers, code segments, loaders, VFS, other HLE services, scripting, debugger | – | – | on top of or below the kernel |

*Concurrency.* Three host threads matter. The emulator thread alternates between
guest code, SVCs and the main loop; the timer thread runs event callbacks; the
graphics driver's thread dispatches command lists. A kernel lock is held for an SVC
and by most callbacks, but

- the timer thread takes an event off its queue *before* the callback asks for
  the kernel lock, so an unschedule may come too late;
- `mutex::waking_up_from_suspension` and the CPU exception handler do not take
  the kernel lock;
- `prepare_reschedule` stops the guest at once when an SVC calls it, but when the
  timer thread calls it the guest may issue another SVC first;
- the driver queue's `abort` and the driver's `finish` change a condition and
  notify without the mutex of the thread that sleeps on it.

*What is hard to test* is listed at its line under `hazards` in `PROJECT.json`:
links spliced by many calls, thread state and ring membership that must agree, a
heap whose order may be stale, wake-ups in flight while their thread is killed, a
notification sent while nobody waits, cancels that race the callback, the third
contender of a mutex, counters that wrap or drift; handles that outlive their
object, tables and message slots that run out, entries a cancel leaves behind,
queues that are purged while they are filled, commits that fail half-way.

*What makes the parts correct.*

- Scheduler: the rings hold exactly the ready and running threads, in FIFO
  order per level; the highest level runs; peers take turns; the guest never
  executes a thread that has been blocked or stopped.
- Semaphores: count and queue agree, no wake-up is lost, a signal wakes a
  foremost waiter.
- Timer and requests: earliest first, not early, each completed once, none lost,
  the thread can be stopped.
- Mutex: exclusion, no waiter forgotten, never free while wanted, rings intact.
- Handles: an object lives exactly as long as a slot holds it; a handle that is
  held leads to its object.
- IPC: a message belongs to one party at a time; a request is taken once, answered
  once and not forgotten.
- Properties, message queues: a change tells every subscriber once; nobody waits
  beside data.
- Driver queue: no command and no sender is left behind.
- Window server: focus events stay paired, windows are in the order of their
  priorities, what was invalidated is redrawn.
- Chunks: no committed page is given out again, and what the chunk says it has it
  has.

## 2. Modules

    ReadyQueue ──── Scheduler ──┬── KernelThreads ── KernelThreadsProperties ──┬── MCKernelThreads
    ThreadPriority ─────────────┤                                              └── KernelThreadsProofs
                                └── KernelMutex ──── KernelMutexProperties ─────── MCKernelMutex
    NTimer ──┬── NTimerProperties ── MCNTimer
             └── KernelTimer ─────── MCKernelTimer
    HandleTable ── HandleTableProperties ──┬── MCHandleTable
                                           └── HandleTableProofs
    Ipc ── IpcProperties ── MCIpc
    KernelProperty, MsgQueue, DriverQueue, WindowGroups, MemChunk ──┬── MCParts
    Region ── WindowRedraw ─────────────────────────────────────────┘

    abstract:  ReadyFifo, CountingSemaphore  (implemented by KernelThreads)
               EventSource (by NTimer)       LockService (by KernelMutex)
               ObjectStore (by HandleTable)  RequestReply (by Ipc)
    proofs:    SequenceFacts ──┬── SchedulerProofs ──┬── KernelThreadsProofs
                               │                     └── KernelMutexProofs
                               ├── TimerProofs
                               └── PartsProofs
               TimerProofs (KernelTimer, NTimer)  HandleTableProofs  IpcProofs
               PartsProofs (KernelProperty, MsgQueue, MemChunk, DriverQueue, WindowGroups,
                           WindowRedraw)

| module | models | correspondence |
|---|---|---|
| `ReadyQueue` | `queue_thread_ready`, `dequeue_thread_from_ready`, `next_ready_thread`, link by link | a record of `readys`, `mask`, `next`, `previous`; operations are functions on it, so that a call can apply several. Following a null link is a fault |
| `ThreadPriority` | `calculate_thread_priority` with its table; `cp_queue` | a heap is its elements and its front; an operation that rebuilds it may leave any maximal element in front, one that does not leaves a stale front |
| `Scheduler` | the rest of `thread_scheduler`, `switch_context`, `prepare_reschedule`, the loop's turn | `Reschedule(left)`: the CPU has run and left `left` of the slice |
| `KernelThreads` | SVCs on threads, processes and semaphores, exceptions, the wake-up event | one action per SVC. Calls that loop put their iterations in `work`; `ContinueCall` runs them one at a time while nothing else may run |
| `KernelMutex` | SVCs on a mutex, its queues and timeouts, resume and kill of its threads | `MutexSignal` is the hand-over: `GivePending`, `GiveWaiting`, `SetFree` |
| `NTimer` | the event queue, the timer thread statement by statement at its lock boundaries, the destructor | `pc` is the place in `loop()`; `firing` the event taken and not finished |
| `KernelTimer` | timer SVCs and `timer_callback` | requests are numbered; `completions` counts how often each was completed |
| `HandleTable` | `object_ix`, the containers of `kernel_system`, `handle_close`, `handle_duplicate`, creation and opening | a handle is the record of what is or-ed into its 32 bits; `Local` and `InKernel` read the bits back, the instance's own included |
| `Ipc` | `create_msg`, `send_receive` and its variants, `deliver`, `receive`, `accept`, `complete`; for a server of the emulator the dispatch at once | a request is the number of its call; a message is a slot that `carries` a request. The server is of either kind (`hle`) |
| `KernelProperty` | one property and its references | subscriptions are numbered; `outcomes` lists what each was told; entries of the queue are references |
| `MsgQueue` | one queue | an entry whose status was written stays, with `pending = 0`, as in the code |
| `DriverQueue` | `request_queue`, `send_sync`, a frame that is submitted and waited for with `driver::wait_for`, the driver's loop, `abort` | a step is what runs under one mutex, except that testing a condition and sleeping on it are two |
| `WindowGroups` | siblings under the root, `update_focus`, `event_fifo`, key and touch shipping | `child` front first; the purging loop and the loop that queues several events are recursive functions of the number of turns |
| `WindowRedraw`, `Region` | `activate`, the opcodes Invalidate, BeginRedraw and EndRedraw, resizing, visibility, the redraw queue; `region::add_rect`, `eliminate` | rectangles as in the code; `Cells` is what one covers. `InvalidateRect` goes on to `StartRedraw`, as its case goes on to `begin_redraw` |
| `MemChunk` | both memory models; normal, disconnected and double ended chunks, of which `HasBitmap` says who has a bitmap; the bitmap allocator's best fit and count; `committed_`; mapping on a process switch | pages in place of addresses; the bitmap is the set of its free offsets, numbered as the allocator numbers them |

`MCParts` puts the last six rows (seven instances) into one instance for TLC: its
variable `part`, chosen at the start, says which one runs, and the others keep
their initial state. Nothing is claimed of their interaction.

In the thread and mutex modules an assertion that fails or a null link that is
followed sets `fault`; the emulator has died, every action is disabled, and the
properties speak of states with `Alive` only. `crashed`, `wild` and `freed_used`
mark the use of a null or freed pointer in the same way. Data is abstracted: no
registers, addresses, names or status codes. Variables marked history (`owed`,
`missed`, `refused`, `stale`, `simple`, `held` of the handles) record what happened
for the properties and guard nothing but the steps of the guest.

External parts are modelled from their use: the host that may refuse memory, the
CPU that returns after at most the given number of instructions, guest programs.
What is assumed of guest programs is in each module's header: a server has at most
one receive outstanding and completes a message once, a client gives each synchronous
call a status and closes no session that a queued message names, a client has one
`event_ready` or `redraw_ready` request and one notification outstanding, a program stays
within its chunk. The code enforces none of these. A slot of a handle table starts
empty in the model; the code leaves `object_ix_record::object` uninitialised, which only
a close through a handle that was never made would read.

`KernelMutex` shares `Scheduler` with `KernelThreads` and not the semaphores;
its threads are created in `Init` and started with `thread_resume`. The threads in
`Resumed` may be resumed later too, while they wait for the mutex: they run on and stay
queued. Such a thread, or one that was promoted, may be in `waits` and wait again; that
wait is the one step not followed further.

Definitions marked "Faulty" or "Faulty variant" are plausible bugs in the definition
that follows them. The `mutants` of `PROJECT.json` put them in its place: each
property is violated by at least one.

## 3. Runs

| run | module, cfg | checks | shows |
|---|---|---|---|
| sync | MCKernelThreads, Sync.cfg | `ReadyRingsSound` `NoThreadLost` `CpuRunsRunningThread` `CountMatchesWaiters` `SemaphoreQueuesSound` `DispatchesHighest` `ImplementsSemaphore` `ImplementsFifo` | three threads around one semaphore that create, resume, suspend and re-prioritise one another |
| requests | MCKernelThreads, Requests.cfg | `TypeOK` `ReadyRingsSound` `WakeupHasRequest` | two threads; requests completed by wake-ups, cancels, rendezvous, process end; kills and exceptions in between |
| turns | MCKernelThreads, Turns.cfg | `RoundRobin` | with fairness, a ready thread of the highest ready level gets the CPU |
| events | MCNTimer, Events.cfg | `ImplementsEventSource` `SeenEventFires` `DestructorJoins` | the timer thread against schedule, unschedule, pause, destroy and spurious wake-ups |
| timer | MCKernelTimer, Timer.cfg | `NoRequestLost` `OnceUnlessLate` `NotEarly` | two timers started, cancelled and restarted against their callbacks |
| mutex | MCKernelMutex, Mutex.cfg | `MutexRingsSound` `NoWaiterForgotten` `HeldWhileWanted` `MutualExclusion` `ImplementsLock` | three threads, recursion, try_wait, one timed waiter, one whose priority changes, one that may be killed, one that is resumed while it waits |
| handles | MCHandleTable, Handles.cfg | `CountsMatchSlots` `NoDanglingSlot` `HeldHandleResolves` `ImplementsObjectStore` | two threads of a process create, open, duplicate and close handles in all tables; stale handles, reused slots, full tables, instances at the limit of their bits |
| ipc | MCIpc, Ipc.cfg | `ServerMessagesApart` `QueueIntact` `AnsweredOnce` `ImplementsRequestReply` `EveryRequestServed` | two clients, a session with and one without a pool, a server of either kind; slots run out, receives are cancelled, sessions close |
| parts | MCParts, Parts.cfg | `SubscribedOnce` `ChangeTellsAll` (properties) `NobodyWaitsBesideData` (message queues) `EveryCommandDispatched` (driver queue) `OrderCheckExact` `FocusEventsPaired` (window groups) `RedrawsCover` (redraws) `ChunkSound` (memory) | the smaller parts, one per initial state |
| lost_wakeup | MCNTimer, LostWakeup.cfg | `EveryEventFires` (violated) | see 4.1 |
| focus_lost | MCParts, FocusLost.cfg | `FocusLossTold` (violated) | see 4.2 |
| map_committed | MCParts, MapCommitted.cfg | `CpuSeesCommitted` (violated) | see 4.3 |

`MutualExclusion` and `ImplementsLock` speak of behaviours in which threads have so
far only been started, waited and signalled (`simple`): the other operations break them
in the ways of 4.4. `HeldHandleResolves` speaks of holders that close no handle twice and of
instance numbers below their table's bits. `OrderCheckExact` and
`EveryCommandDispatched` name the one case each leaves out.

All runs allow the system to stop (`CHECK_DEADLOCK FALSE`): threads may all block
or die, the clock and the numbers of requests are bounded, and a fault is the
end.

**Bounds.** Each is a constant that appears in a guard.

- `TimeSlice = 1`: a slice is used up or not; what is left of it matters only by
  being zero.
- Three threads are the smallest number with a ring in which a neighbour is
  neither head nor tail, and with a holder, a pending and a waiting thread of a
  mutex. Two priority classes give two levels; every comparison is between two
  threads.
- `MaxCount = 1`: a semaphore is signalled by SVCs only up to this count; waiters
  (negative counts) are not bounded by it. `SignalCounts = {1, 2}` lets one call
  wake two threads.
- `MaxLogons`, `MaxExtraKills`, `CountWidth = 16`: one pending request per
  process; `thread_count` wraps modulo 16 instead of 2^32, which differs only in
  the value it wraps to.
- `MaxTime`, `Delays`, `MaxEvents`: the clock stops at `MaxTime`, which stands for
  every later time (no event is scheduled at it); three events of two keys are
  enough for an event before, after and at the same time as another.
- `MaxRequests = 3` of a timer is enough for a stale callback to complete a later
  request and for that one's own event to hit a third.
- `MaxClaims`, `MaxDrift`: nested waits of one thread, and how far `lock_count`
  goes below zero (4.4). `Impatient`, `Restless`, `Mortal`, `Resumed` choose which
  threads use timeouts, change priority, are killed and are resumed as waiters.
- `Capacity = 2`, `MaxObjects = 2`: a table with a free and a full slot, an object
  in two slots, a slot reused by another object. `FirstInstance = 8190` for the
  process's table: its second and third handle are on either side of the first bit
  that names another table.
- `SlotLimit = 6`: three messages belong to the client threads and the server, one
  to the pool; two are left, so that they run out. Three requests are one held, one
  queued and one sent.
- Two references to a property with four subscriptions: subscribe, cancel,
  subscribe again, beside another subscriber. Two threads and a message queue of
  length 2 with three messages: empty, in between, full. `MaxPending = 1` with three
  senders: two wait on the same condition. `MaximumElement = 4`, `MaxQueue = 5`: an
  event queue is purged, and one that cannot be is longer than its maximum. Windows
  of 2×2 and 2×1 cells: rectangles that split, overlap and contain one another.
  `ClientRect` are the rectangles clients name in Invalidate and BeginRedraw, beside the
  whole window: halves and corners, and an empty one, one without width, one that begins
  outside the window and one with its corners swapped. Two redraw
  priorities: an event goes before those of a later one. Two words of
  two bits, two page tables: every run of pages that crosses a word or a table.
  `CommittedWidth = 5`: `committed_` wraps beyond the four pages of the chunk.

**Fairness.** `FairSpec` (turns): weak fairness of `ContinueCall` – a kernel call
terminates – and strong fairness of `TickingLoop`, the main-loop turns in which
the current thread's slice shrinks or is renewed: `cpu->run` is given `time`
instructions and returns after at most that many, after which `loop` calls
`reschedule`. It is strong because SVCs may come between any two turns. Nothing is
assumed of the guest. `FairTimerSpec` (events, lost_wakeup): weak fairness of
the timer thread's steps and callbacks, of the clock and of the destroying
thread: the host schedules its threads. No fairness is assumed of spurious
wake-ups or of callers. `IpcFairSpec` (ipc): weak fairness of `ServerReceive` and of
`MessageComplete` of each message, which is the loop of a server program: it
receives again after each message and completes what it got. It is an assumption
about the guest's servers; clients are not assumed to do anything.
`EveryCommandDispatched` needs no fairness: it says that a state in which neither the
driver's thread nor a sender can go on has nothing left to do. `Stuck` and `DriverStuck`
say when one cannot, from the guards of their steps and without `ENABLED`, so that it can
be proved as well.

**Symmetry** permutes threads that are created alike, the two timers, or the two
windows of the redraws, in runs without liveness properties.

## 4. Where the code and its own statements disagree

The first three are runs that TLC refutes.

1. *lost notification* (`kernel/src/timing.cpp:119`). An event scheduled after
   `advance` found the queue empty and before the wait begins notifies nobody; the
   timer thread then waits without a limit. `SeenEventFires` shows that this window is
   the only one: an event queued at any other moment fires. The destructor has
   the same window, which `DestructorJoins` leaves out.
2. *focus lost* (`services/src/window/screen.cpp:214`). `update_focus` replaces
   `focus` before it calls `focus->lost_focus()`: the group that gets the focus is
   told that it lost it, the other is told nothing, and when no group can have the
   focus a null pointer is used. `services/include/services/window/common.h:234`
   says of the event "Occurs when a window group loses keyboard focus."
3. *mapping a chunk* (`mem/src/chunk.cpp:116`). `manipulate_cpu_map` takes the set bits
   of the bitmap for committed pages and counts them from the lowest; in
   `bitmap_allocator` they are the free ones and offsets count from the highest.
   `mem/include/mem/chunk.h:96` says "Map the committed region to CPU."

4. The following were met while modelling. The models contain them, and the
   properties are stated so that they hold beside them.

   *Threads.* `thread_resume` of a thread that waits on a semaphore leaves it queued,
   and its next wait fails `assert(!calling_thr->wait_obj)` (`sema.cpp:64`). `after`
   called twice before the wake-up fails an assertion (`thread.cpp:360`). The primary
   thread is counted twice (`process.cpp:50`) and `kill` decrements twice, so that a
   process may end without its logons being completed.

   *Timers.* A cancel after the timer thread took the event completes the request, and
   the callback completes it again, or completes the next request of the same timer
   at once (`timer.cpp:93`). `OnceUnlessLate` shows that nothing else completes a
   request twice.

   *Mutex.* When the last pending thread gets the mutex and `waits` is empty, `signal`
   still takes `waits.top()` (`mutex.cpp:173`). A timed wait that runs out leaves
   `wait_obj` set, so that a later `assert(!holding->wait_obj)` fails (`mutex.cpp:76`).
   `signal` hands over without setting `lock_count`, which drifts below zero, and a
   recursive holder gives the mutex up at its first signal. `thread_resume` of a waiter
   makes it run without the mutex (`thread.cpp:515`). A thread moved to
   `pendings` is not eligible to run, although `mutex.h:94` says so; a waiter whose
   priority rises runs without having the mutex; `try_wait` and `wait_for` do not
   report whether they got it; a killed thread stays holder or waiter.

   *Handles.* The instance number is or-ed over bits 29 and 30, which name the table
   (`object_ix.cpp:65`). When a table is full a new object has no handle and is never
   destroyed (`object_ix.cpp:101`). A stale handle resolves to what is in its slot
   now, and closing it closes that (`object_ix.cpp:139`). `get_by_id` takes the lower
   bound of a uid without comparing it; `DestroysItself` in the proofs shows that
   destruction is nevertheless right.

   *IPC.* Messages are received last in, first out (`server.cpp:66`). A cancelled receive
   leaks its message, and when none is left `create_msg` returns null and is written
   through (`server.cpp:168`). A closed session's pool is not given back.

   *Properties and message queues.* A cancelled subscription stays queued
   (`property.cpp:121`). A thread whose notification was completed stays registered
   and its next one is refused (`msgqueue.cpp:70`). `property_find_set_int` sets the
   binary value (`svc.cpp:2075`).

   *Driver queue.* `finish` notifies without `mut_`, so that a sender between its test
   and its sleep misses it (`drivers/include/drivers/driver.h:98`). After an abort a
   synchronous sender waits for ever.

   *Window server.* `do_purge` skips the event after one it erased, and the queue grows
   past its maximum (`fifo.cpp:65`). The cases of EWsWinOpInvalidate and
   EWsWinOpInvalidateFull have no `break` (`classes/winuser.cpp:555`): an invalidate,
   refused or not, also begins a redraw of its rectangle, which the next `end_redraw`
   takes off the invalid region, and it completes its request a second time.
   `check_order_change` compares the window's priority with itself where it means the
   one in front (`classes/winbase.cpp:149`), so that a window behind one of lower
   priority may count as in place; `OrderCheckExact` shows that this case is the only
   one. The loop over key captures uses the end of the
   list (`io.cpp:186`). `region::add_rect` may lose area and `eliminate` skip
   rectangles. What is invalidated in a hidden window is not queued when it is shown.
   A client that disconnects leaves its groups in the tree (`window.cpp:1374`).

   *Memory.* Best fit goes on with a null word when nothing fits
   (`common/src/allocator.cpp:249`). `adjust` moves top and bottom whatever the commit
   said. A commit the host refuses for one of several page tables reports success.
   The flexible model's `commit` adds to `committed_` the pages it was asked for less
   `allocated_count` of the range (`mem/src/model/flexible/chunk.cpp:83`); that is the
   "Number of cells already allocated on this region" for `allocator.h:105`, and in the
   code counts the set bits, which are the free pages, without the last page of the range
   and numbered from the lowest. A commit of two new pages adds one page, and `decommit`
   takes away pages that were never committed. Programs ask for this size
   (`svc.cpp:1067`).

## 5. Proofs

The theorems speak of every value of the constants that satisfies the named
assumptions of the modules; TLC evaluates those assumptions in the runs. Each inductive
invariant was checked with TLC, on the instance of the component's run, before it was
proved.

| theorem | states | inductive invariant |
|---|---|---|
| *KernelThreadsProofs* | | |
| `Inductive` | `Spec => []IInv` | |
| `TypeCorrect` | `Spec => []TypeOK` | `IInv` |
| `ReadyQueueSound` | `Spec => []ReadyRingsSound` | `IInv` |
| `RingsWhole` | `Spec => []NoThreadLost` | `IInv` |
| `CpuSound` | `Spec => []CpuRunsRunningThread` | `IInv` |
| `CountsSound` | `Spec => []CountMatchesWaiters` | `IInv` |
| `SemaphoresSound` | `Spec => []SemaphoreQueuesSound` | `IInv` |
| `WakeupSound` | `Spec => []WakeupHasRequest` | `IInv` |
| `SemaphoresCount` | `Spec => ImplementsSemaphore` | `IInv` |
| `LevelsStayLow` | `Spec => []LevelsLow` | with `IInv` |
| `HighestDispatched` | `Spec => DispatchesHighest` | `IInv`, `LevelsLow` |
| `RingsAreFifo` | `Spec => ImplementsFifo` | `IInv` |
| *KernelMutexProofs* | | |
| `MutexInvariant` | `Spec => []MutexInv` | |
| `RingsSurvive` | `Spec => []MutexRingsSound` | `MutexInv` |
| `WaitersKept` | `Spec => []NoWaiterForgotten` | `MutexInv` |
| `HeldIfWanted` | `Spec => []HeldWhileWanted` | `MutexInv` |
| `Exclusion` | `Spec => []MutualExclusion` | `MutexInv` |
| `MutexIsLock` | `Spec => ImplementsLock` | `MutexInv` |
| *TimerProofs* | | |
| `RequestInvariant` | `Spec => []RequestInv` | |
| `RequestsReach` | `Spec => []NoRequestLost` | `RequestInv` |
| `RequestsOnce` | `Spec => []OnceUnlessLate` | `RequestInv` |
| `RequestsOnTime` | `Spec => NotEarly` | `RequestInv` |
| `QueueSorted` | `TimerSpec => []SourceInv` | |
| `TimerIsSource` | `TimerSpec => ImplementsEventSource` | `SourceInv` |
| *HandleTableProofs* | | |
| `HandleInvariant` | `HandleSpec => []HandleInv` | |
| `CountsExact` | `HandleSpec => []CountsMatchSlots` | `HandleInv` |
| `NoHandleDangles` | `HandleSpec => []NoDanglingSlot` | `HandleInv` |
| `HandlesResolve` | `HandleSpec => []HeldHandleResolves` | `HandleInv` |
| `HandlesImplementStore` | `HandleSpec => ImplementsObjectStore` | `HandleInv` |
| *IpcProofs* | | |
| `IpcInvariant` | `IpcSpec => []IpcInv` | |
| `MessagesApart` | `IpcSpec => []ServerMessagesApart` | `IpcInv` |
| `QueueSound` | `IpcSpec => []QueueIntact` | `IpcInv` |
| `AnswersOnce` | `IpcSpec => []AnsweredOnce` | `IpcInv` |
| `IpcRefines` | `IpcSpec => ImplementsRequestReply` | `IpcInv` |
| *PartsProofs* | | |
| `PropertyInvariant` | `PropertySpec => []PropertyInv` | |
| `SubscriptionsOnce` | `PropertySpec => []SubscribedOnce` | `PropertyInv` |
| `ChangesTold` | `PropertySpec => ChangeTellsAll` | `PropertyInv` |
| `MsgQueueInvariant` | `MsgQueueSpec => []MsgQueueInv` | |
| `DataIsTold` | `MsgQueueSpec => []NobodyWaitsBesideData` | `MsgQueueInv` |
| `ChunkInvariant` | `ChunkSpec => []ChunkInv` | |
| `ChunksSound` | `ChunkSpec => []ChunkSound` | `ChunkInv` |
| `AllocatesFree` | an allocation gets memory only for pages free in the bitmap | `ChunkInv` |
| `DriverInvariant` | `DriverSpec => []DriverInv` | |
| `NoCommandStranded` | `DriverSpec => []EveryCommandDispatched` | `DriverInv` |
| `GroupsOnce` | `WindowSpec => []WindowInv` | |
| `OrderChecked` | `WindowSpec => []OrderCheckExact` | `WindowInv` |
| `EventsPaired` | `WindowSpec => []FocusEventsPaired` | `FocusInv` |
| `RedrawsCovered` | `RedrawSpec => []RedrawsCover` | `RedrawInv` |

**Ready queue.** `SchedulerProofs` proves what `queue_thread_ready`,
`dequeue_thread_from_ready`, the rotation, a priority change, `next_ready_thread` and a
turn of the main loop do to a sound queue; threads and mutexes both rest on it. The rings
are sound when neighbours agree (`LinksOK`) and each level is a single ring (`OneRing`).
The latter is stated without induction: a non-empty set of threads of a level that is
closed under `next` is all of them. It quantifies over sets, so that first-order provers
handle it, and it excludes an orphaned second ring, which agreement of neighbours alone
does not.

**Threads and semaphores.** The assumptions are those of `ReadyQueue`, `Scheduler` and
`KernelThreads`: finitely many threads, `Nil` is none of them, levels in 0..63, every
class in use leads to a level, the count's width exceeds what is counted.

The inductive invariant is `IInv == TypeOK /\ (Alive => SchedOK /\ SemaOK /\
LifeOK)`. No part is inductive alone. A wake-up queues a thread, which keeps the
rings sound only if the thread is not linked; that follows from state and ring
membership agreeing. A signal pops the front of a queue and clears its `wait_obj`,
which keeps count and queue in step only if `wait_obj` and queues agree. A priority
change must leave the front foremost, which needs the thread's queue to be the one
`wait_obj` names. `LifeOK` adds that a thread not yet created is unlinked and waits
for nothing, so that creating it may set its level. The proof has a lemma per kind of
scheduler step (`ReadyStep`, `UnreadyStep`, `AsideStep`, `SwitchStep`,
`RescheduleStep`, `RepriorStep`), per kind of semaphore step (`BlockStep`,
`WakeStep`, `ResortStep`), and one per action.

`SemaphoresCount` maps a count to its permits and a queue to its set of waiters; each
call maps to `Acquire`, `Block`, `Grant` or `Release` of `CountingSemaphore` or to a stutter, and
the agreement of count and queue in `IInv` is what rules out a permit beside a waiter.
`HighestDispatched` needs more than the rings: `next_ready_thread` looks at the word of
levels 0..31 first, so that it would pass over a thread at level 32 or above. `LevelsLow`
shows from the two priority tables that there is none.

**Rings as queues.** `ImplementsFifo` maps each level to `Ring`, the sequence met by
walking from the level's first thread for as many steps as the level has threads. The
walk is never computed in the proof. `Lists` says what the sequence is: it has exactly the
threads of the level, each once, the first one first and each one's successor next. A
sound ring has such a sequence and only one, and `Ring` is it. For existence, the threads met by a walk
that comes back are closed under `next`, so `OneRing` makes them all of the level;
uniqueness is by induction over the places. What an operation does is then shown by
checking that the changed sequence lists the changed ring: queueing appends, unlinking
leaves one place out, `switch_context` rotates, a priority change does the first two on two
levels, and the other levels keep their list. `RingsAreFifo` goes through the actions as
`Inductive` does and maps each to `Enter`, `Leave`, `Move`, `Rotate` or a stutter of
`ReadyFifo`.

**Mutex.** `MutexInv == Alive => MutexParts` has five parts: types; sound rings, with no
thread on them that was never started or is in state `wait_mutex`; a thread that is
blocked on the mutex and off the rings is in the queue its state names (`QueuedPart`); a
free mutex has empty queues (`FreePart`); and, as long as threads only wait and signal,
`SimplePart`: whoever has asked for the mutex holds it or is in one of its queues and off
the rings, and the running thread is on its ring. The last part carries
`MutualExclusion`: a thread that goes past its wait is the holder because everybody else
who asked cannot run. It holds until one of the operations of 4.4 is used, which is when
`simple` becomes false; the other four hold for every operation. `MutexIsLock` maps each
wait and signal to a step of `LockService`.

**Timers.** A callback knows its timer and not the request, so that neither
`NoRequestLost` nor `OnceUnlessLate` is inductive. `RequestInv` adds that an
outstanding timer has an event on its way, that a request not completed is the latest of
an outstanding timer, and that a timer no cancel has missed has at most one event, queued
or being fired, which carries the time its latest request asked for. For the event queue,
`SourceInv` says that the vector is sorted, that the time of a pass is not ahead of the
clock, and that a callback runs exactly while the thread is at that place of its loop.
`PushedBehind` shows that the events not earlier than a new one are a prefix of a sorted
vector, so that inserting behind them keeps it sorted; `InsertedBag` and `RemovedBag` that
the vector as a bag gains or loses one event. The refinement maps the two calls to
`Schedule` and `Unschedule`, the pop to `Take`, which must be of an earliest event, and the
return of the callback to `Finish`.

**Handles.** The proofs are for every number of threads, processes, slots, objects and
handles made before,
from `TablesAssumption` and `BoundsAssumption` of `HandleTable`. `HandleInv` joins
types, counts and slots (`CountInv`), that a handle's bits say which kind of table
made it (`HandlesTagged`) and that a handle held is in its slot (`HeldInSlots`). Exact
counts are what lets `close` destroy an object without leaving a slot dangling; that
slots hold only registered objects is what makes the count of a new object, zero,
exact. `FillSlot` and `EmptySlot` count slots by cardinality, with the library's
theorems on finite sets; `SmallHasNoBit` and `HandleRoutes` show that a handle whose
instance is small enough is looked up in the table it came from. The refinement maps
each action to `Create`, `Open`, `Close` or a stutter of `ObjectStore`, with the number
of slots for the number of references.

**Messages.** `IpcInv` says where a message is: pools and threads' own messages are in
use and do not overlap (`PoolsOK`), a queued message is lent by the thread that waits for
its request, by the session's pool or by the table (`QueueOK`), and every request sent
is settled in one way or carried by one message (`CarryOK`). Without the first, a slot
found free might be in a pool; without the second, a thread's own message might be queued
twice; without the third, two messages might be completed for one request. `IpcRefines`
reads a request's phase off the sets it is in, and maps receiving, also at once by a
waiting server, and completing to the steps of `RequestReply`.

**Properties, message queues, chunks.** `PropertyInv` adds to `SubscribedOnce` that a
pending subscription is in one open reference that is in the queue, so that the next
change or its cancel reaches it. `MsgQueueInv` adds that registered entries have
notifications of their own. `ChunkInv` adds that bottom is below top and memory within
the chunk; commits are followed page table by page table, also when the host
refuses one.

**Driver queue.** `EveryCommandDispatched` speaks of states in which everybody sleeps or
waits for a mutex. `DriverInv` gives every sleeper somebody who will wake it: the driver,
asleep beside a queued command list, a sender that is about to notify it
(`DriverWoken`); the senders asleep on a queue that is no longer full, as many woken
senders or pending notifications as there is room, counted by cardinality
(`SendersWoken`); a sender that waits for its status, its command list, which is queued
or with the driver, or else the status, which is written and about to be announced
(`StatusComes`). `LocksHeld` says where the holder of a mutex is; it holds after an
abort too, the others until then. Of the constants it is assumed that there are finitely
many senders and room for one command list (`DriverAssumption`).

**Window groups.** `check_order_change` and `move_window` walk over different lists, with
and without the group. A walk is a run of groups with one thing in common, and `IsRun`
determines its length; `InPlace` shows that the second walk has the runs of the first.
`WindowInv`, no group twice in the list, makes the place of a group unique.

**Focus events.** A client's queue must have focus events that alternate and end with a
gain. Because of the disagreement of 4.2 a loss is only ever queued for a client
together with the gain that follows it. `FocusInv` says the former of each queue, that a
client that listens has an empty one, and, as long as no group has had the focus and the server
has not failed, that no queue has a focus event at all (`Paired` with both endings): that
is what lets the first gain be queued alone. The proof follows one turn of `do_purge`: it erases an event that is no
focus event (`OneOut`), or two neighbouring focus events, or one that is the last
(`PairOut`), and steps over the next event, so that the queue stays paired whatever was skipped
(`PurgeTurn`, `PurgeKeeps`). Putting a gain after a loss, or an event of another kind,
keeps it paired (`PutLast`, `QueueOne`), and taking the first event does (`FirstOut`).

**Redraws.** `RedrawInv` says that every cell owed to a client is shown by a queued redraw
of its window, that the queue is in the order of priorities, that rectangles have integer
corners, and that a client with an outstanding request has an empty queue. When a new
rectangle makes the queue drop the ones it covers, each cell of those is shown by the new one
(`CoverCells`, `DropTurn`, `DropKeeps`, `QueuedRedraw`); the first later priority is where
the new event keeps the order. `end_redraw` queues the region that is left, rectangle by
rectangle (`QueuedRects`); hiding a window takes its events out and owes it nothing
(`OthersShown`). Of the
region's own loops only the types are needed (`PieceType` to `EliminateType`): they may lose area
(4.4), and what is owed after `end_redraw` is what they left.

**Loops.** The loops of `do_purge`, of the queues and of `eliminate` are recursive functions of
the number of turns. `SequenceFacts` proves that such a function exists when each turn stays
within a set (`LoopExists`), and induction over the turns (`UpTo`), from the existence of a
least element in every set of naturals: sets take the place of the predicates the library's
induction theorems ask for. It also holds what all the others need of vectors: what is where
after an element was taken out of or put into the middle.

**Only model-checked.** Liveness, which is outside the prover's reach: `RoundRobin`,
`SeenEventFires`, `DestructorJoins`, `EveryRequestServed`. Every invariant of a passing run,
every action property and every refinement is stated by a theorem.

## 6. Not modelled

Within modelled parts: mutex destruction and the suspend paths of mutex and
semaphore (the code never gets past their first test: `thread::suspend` has already
changed the state); contexts, stacks, TLS and exception frames; what an object does
when it is destroyed (a timer with its event queued, a server with messages
delivered); argument descriptors of messages; data races below the level of a kernel
call (`event_types_`; the two callers without the kernel lock run as one step);
`timer_at_utc` with a time in the past (a wrapped difference); key captures, several
screens, graphics contexts and direct screen access of the window server; page-table
entries and address-space sections.

Not modelled at all: change notifiers (no source fires one), code segments and
libraries, the other HLE services, the virtual file system, image loaders, the CPU
back end with its emitters, HLE dispatch, scripting, the GDB stub and the debugger.
These are the bulk of the source by lines: code generation, parsing of binary
formats, codecs, host wrappers, user interface and tables of requests over data that
are served one at a time. Each is a conversion or a call to the host rather than a
protocol with state of its own, and a model would repeat its code. The mapped share
of the source is therefore small. `PROJECT.json` lists every part with the reason.

## 7. Plan

Done, in this order: ReadyQueue, Scheduler, KernelThreads with its proofs, NTimer,
KernelTimer, KernelMutex, HandleTable with its proofs, Ipc, KernelProperty, MsgQueue,
DriverQueue, WindowGroups, WindowRedraw, MemChunk; then the proofs of KernelMutex,
KernelTimer, NTimer, Ipc, KernelProperty, MsgQueue, MemChunk, DriverQueue, WindowGroups,
WindowRedraw and of the ready queue as a first-in-first-out queue. Next:

1. Destruction: `KernelTimer` and `Ipc` with `HandleTable`, so that a timer is
   destroyed with its event queued and a session with messages delivered; the
   disconnection of a window server client.
2. `KernelTimer` with `KernelThreads`' request semaphores, so that a completed request
   ends a `wait_for_any_request`.
3. A clock of bounded width with wrapped delays; link-by-link interleaving of the two
   callers without the kernel lock.

## 8. Running

    tlc -config Sync.cfg MCKernelThreads      # one line per row of section 3
    tlapm SchedulerProofs.tla                 # and each module named *Proofs, SequenceFacts
