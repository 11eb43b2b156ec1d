----------------------- MODULE KernelThreadsProperties ----------------------
(***************************************************************************)
(* What the scheduler, the threads and the semaphores must do.  The state  *)
(* of an emulator that has died says nothing, hence Alive.                 *)
(***************************************************************************)
EXTENDS KernelThreads

Alive == fault = "none"

ThreadStates == {"create", "run", "wait", "ready", "stop", "wait_fast_sema"}
Faults == {"none", "wait_assert", "signal_assert", "sleep_assert", "null_link"}
Heaps == [elems : SUBSET Thread, top : ThreadPtr]
WorkItems == [op : {"signal"}, on : Sema, svc : BOOLEAN] \cup [op : {"update"}, on : Thread, svc : {TRUE}]

\* The kernel's variables keep the types the code declares for them.
TypeOK ==
    /\ readyQ \in ReadyQueues
    /\ state \in [Thread -> ThreadStates]
    /\ real_priority \in [Thread -> Level]
    /\ time \in [Thread -> 0..TimeSlice]
    /\ crr_thread \in ThreadPtr
    /\ halted \in BOOLEAN
    /\ fault \in Faults
    /\ priority \in [Thread -> ThreadClass]
    /\ proc_priority \in [Process -> ProcessClass]
    /\ wait_obj \in [Thread -> Sema \cup {Nil}]
    /\ avail_count \in [Sema -> Int]
    /\ waits \in [Sema -> Heaps]
    /\ sleep_sts \in [Thread -> BOOLEAN]
    /\ wakeup \in [Thread -> {"idle", "scheduled", "firing"}]
    /\ thread_list \in [Process -> Seq(Thread)]
    /\ thread_count \in [Process -> 0..(CountWidth - 1)]
    /\ logon_requests \in [Process -> Seq(Thread)]
    /\ rendezvous_requests \in [Process -> Seq(Thread)]
    /\ work \in Seq(WorkItems)

\* The ready rings are well linked under every interleaving of supervisor
\* calls and wake-ups: neighbours agree, a ring holds threads of one level,
\* ready_mask has exactly the bits of the non-empty levels.
LinksIntact == Alive => LinksOK(readyQ, real_priority)

\* No ready thread is lost on an orphaned ring: following scheduler_link.next
\* from readys[level] meets every thread linked at that level.
NoThreadLost == Alive => OneRing(readyQ, real_priority)

\* A thread is on a ring exactly when it is ready or running: no blocked,
\* suspended or stopped thread can be dispatched, no ready one is forgotten.
ReadyIffLinked ==
    Alive => \A t \in Thread : state[t] \in {"ready", "run"} <=> Linked(readyQ, t)

\* Links, masks and states agree: what the scheduler walks is what the states say.
ReadyRingsSound == LinksIntact /\ ReadyIffLinked

\* Only the current thread is running, and the guest CPU never executes a
\* thread that an SVC has already blocked, suspended or stopped.
CpuRunsRunningThread ==
    Alive => /\ \A t \in Thread : state[t] = "run" => t = crr_thread
             /\ GuestRuns => state[crr_thread] = "run"

\* A negative avail_count is exactly the number of waiting threads, so every
\* signal that finds the count negative finds a thread to wake.
CountMatchesWaiters ==
    Alive => \A s \in Sema :
        Cardinality(waits[s].elems) = IF avail_count[s] < 0 THEN -avail_count[s] ELSE 0

\* A thread is queued on a semaphore iff that is its wait_obj: the assertion in
\* semaphore::signal (wait_obj == this) cannot fail, and no thread is queued twice.
WaitObjMatchesQueue ==
    Alive => \A s \in Sema, t \in Thread : t \in waits[s].elems <=> wait_obj[t] = s

\* A thread blocked on a semaphore is queued on one, so that some signal can
\* wake it (no lost wake-up).
BlockedIsQueued ==
    Alive => \A t \in Thread : state[t] = "wait_fast_sema" => wait_obj[t] # Nil

\* The front of a semaphore's queue is a waiter of maximal current priority,
\* whatever priorities were changed while the threads were waiting.
FrontIsForemost ==
    Alive => \A s \in Sema : waits[s].top \in Foremost(waits[s].elems, real_priority, Nil)

\* Queues, wait_obj, states and priorities agree on who waits where and who is next.
SemaphoreQueuesSound == WaitObjMatchesQueue /\ BlockedIsQueued /\ FrontIsForemost

\* A scheduled or firing wake-up belongs to a request still outstanding: the
\* timer thread never completes a request twice, nor one the thread never made.
WakeupHasRequest ==
    Alive => \A t \in Thread : wakeup[t] # "idle" => sleep_sts[t]

\* A turn of the main loop dispatches a ready thread of the highest level; it
\* passes over one thread at most, the only one of its level, whose slice had
\* run out and which has got a new one.  The two-word search of ready_mask is
\* right only because no level exceeds 31.
DispatchStep ==
    LET passed == {t \in Thread : Linked(readyQ, t) /\
                        (crr_thread' = Nil \/ real_priority[t] > real_priority[crr_thread'])}
    IN  \A t \in passed : /\ passed = {t}
                          /\ time[t] = 0 \/ t = crr_thread
                          /\ time'[t] = TimeSlice

DispatchesHighest == [][(\E left \in 0..TimeSlice : MainLoop(left)) => DispatchStep]_vars

(***************************************************************************)
(* The abstract specifications the kernel implements.                      *)
(***************************************************************************)
Semaphores == INSTANCE CountingSemaphore WITH
    permits <- [s \in Sema |-> IF avail_count[s] > 0 THEN avail_count[s] ELSE 0],
    blocked <- [s \in Sema |-> waits[s].elems],
    pri     <- real_priority

\* Every semaphore, a thread's request semaphore included, is a counting
\* semaphore that wakes a waiter of the highest current priority.
ImplementsSemaphore == Semaphores!Spec

Fifo == INSTANCE ReadyFifo WITH queue <- [p \in Level |-> Ring(readyQ, real_priority, p)]

\* The rings behave as one first-in-first-out queue per level: no kernel call
\* reorders, drops or duplicates the other ready threads.
ImplementsFifo == Fifo!Spec

(***************************************************************************)
(* Liveness.  cpu->run returns after at most `time' instructions, so the   *)
(* main loop keeps turning with the current thread's slice shrinking, and  *)
(* a kernel call in progress finishes.                                     *)
(***************************************************************************)
TickingLoop ==
    \E left \in 0..TimeSlice :
        /\ crr_thread # Nil => left < time[crr_thread] \/ time[crr_thread] = 0
        /\ MainLoop(left)

FairSpec == Spec /\ WF_vars(ContinueCall) /\ SF_vars(TickingLoop)

HigherReady(t) == \E u \in Thread : Linked(readyQ, u) /\ real_priority[u] > real_priority[t]

\* A ready thread with nothing of a higher level ready gets the CPU: its peers
\* run out of their slices and go behind it, whoever blocks or is woken.
RoundRobin ==
    \A t \in Thread :
        (Linked(readyQ, t) /\ ~HigherReady(t))
            ~> (crr_thread = t \/ ~Linked(readyQ, t) \/ HigherReady(t) \/ ~Alive)
=============================================================================
