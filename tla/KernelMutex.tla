---------------------------- MODULE KernelMutex -----------------------------
(***************************************************************************)
(* A mutex of the emulated kernel (kernel/src/mutex.cpp) and the           *)
(* supervisor calls that reach it, on top of the scheduler.                *)
(*                                                                         *)
(* Threads that find the mutex held go to waits.  When it is handed over,  *)
(* the front of waits is moved to pendings: it is the next to get it.      *)
(*                                                                         *)
(* thread::suspend refuses a thread in wait_mutex and sets the state of    *)
(* any other one to wait before it asks the mutex, so that                 *)
(* mutex::suspend_thread always returns at once and suspended stays empty; *)
(* a thread issuing an SVC is in state run, so wait never finds its caller *)
(* in hold_mutex_pending.  Neither is modelled.                            *)
(***************************************************************************)
EXTENDS Scheduler, ThreadPriority, Sequences

CONSTANTS Main,           \* the thread that is running at the start
          SetClass,       \* the thread_priority values the guest sets
          GuestCalls,     \* the supervisor calls the guest issues
          Impatient,      \* the threads that wait with a timeout
          Restless,       \* the threads whose priority the guest changes
          Mortal,         \* the threads the guest kills
          Resumed,        \* the threads the guest resumes after their start
          MaxClaims,      \* bound: how often a thread has asked for the mutex
                          \* without giving it back
          MaxDrift        \* bound: how far lock_count goes below zero

LevelOf(c) == CalculateThreadPriority("foreground", c)

ASSUME MainAssumption == Main \in Thread /\ Restless \cup Mortal \subseteq Thread
ASSUME ClassAssumption == SetClass \cup {"normal"} \subseteq ThreadPriorities
                          /\ \A c \in SetClass \cup {"normal"} : LevelOf(c) \in Level

VARIABLES holding, lock_count,
          waits,      \* mutex::waits
          pendings,   \* mutex::pendings, in order
          wait_obj,   \* thread::wait_obj is the mutex
          timeouts,   \* of each thread: a MutexWaking event is scheduled
          expired,    \* the thread whose MutexWaking event was taken, or Nil
          claims,     \* history: waits of each thread less its signals
          simple      \* history: so far threads only waited without a timeout, one
                      \* wait at a time, signalled and were started

queueVars == <<waits, pendings, wait_obj>>
timeoutVars == <<timeouts, expired>>
vars == <<schedVars, holding, lock_count, queueVars, timeoutVars, claims, simple>>

Svc(name) == GuestRuns /\ name \in GuestCalls
InPendings(t) == \E i \in DOMAIN pendings : pendings[i] = t

\* The link of t, which is in the queue, is taken out.
Without(q, t) ==
    LET i == CHOOSE i \in DOMAIN q : q[i] = t
    IN  SubSeq(q, 1, i - 1) \o SubSeq(q, i + 1, Len(q))

\* pending_link.alone() compares the neighbours: an unlinked element is alone,
\* and so is the only one of the queue.
Alone(t) == ~InPendings(t) \/ Len(pendings) = 1

\* update_priority: a linked thread moves to the end of the ring of level p.
Requeued(t, p) ==
    IF Linked(readyQ, t)
    THEN QueueThreadReady(DequeueThreadFromReady(readyQ, t, real_priority[t]), t, p) ELSE readyQ

-----------------------------------------------------------------------------
\* The mutex is free or the caller's own: it takes it.
Take(t) ==
    /\ holding' = t
    /\ lock_count' = lock_count + 1
    /\ UNCHANGED <<schedVars, queueVars>>

\* It is another thread's: the caller waits.
Block(t) ==
    /\ waits' = HeapPush(waits, t, real_priority)
    /\ wait_obj' = [wait_obj EXCEPT ![t] = TRUE]
    /\ state' = [state EXCEPT ![t] = "wait_mutex"]
    /\ readyQ' = DequeueThreadFromReady(readyQ, t, real_priority[t])
    /\ fault' = IF wait_obj[holding] THEN "holder_assert" ELSE fault
    /\ halted' = TRUE
    /\ UNCHANGED <<real_priority, time, crr_thread, holding, lock_count, pendings>>

\* Faulty variant: the holder is not looked at.
WaitBarges(t) ==
    /\ claims[t] < MaxClaims /\ t \notin waits.elems
    /\ claims' = [claims EXCEPT ![t] = @ + 1]
    /\ Take(t)

\* mutex::wait.  A thread that is in waits already is not queued twice: such
\* states are not explored further.
Wait(t) ==
    /\ claims[t] < MaxClaims /\ t \notin waits.elems
    /\ claims' = [claims EXCEPT ![t] = @ + 1]
    /\ \/ holding \in {Nil, t} /\ Take(t)
       \/ holding \notin {Nil, t} /\ Block(t)

\* mutex_wait, and mutex_wait_ver2 without a timeout
MutexWait ==
    /\ Svc("mutex_wait") /\ Wait(crr_thread)
    /\ simple' = (simple /\ claims[crr_thread] = 0)
    /\ UNCHANGED timeoutVars

\* mutex_wait_ver2 with a timeout: the event is scheduled in any case.
MutexWaitFor ==
    /\ Svc("mutex_wait_for")
    /\ crr_thread \in Impatient /\ ~timeouts[crr_thread]
    /\ Wait(crr_thread)
    /\ timeouts' = [timeouts EXCEPT ![crr_thread] = TRUE]
    /\ simple' = FALSE
    /\ UNCHANGED expired

\* mutex_wait_ver2 with -1: reports success whether or not it got the mutex.
MutexTryWait ==
    /\ Svc("mutex_try_wait")
    /\ claims[crr_thread] < MaxClaims
    /\ claims' = [claims EXCEPT ![crr_thread] = @ + 1]
    /\ \/ holding \in {Nil, crr_thread} /\ Take(crr_thread)
       \/ holding \notin {Nil, crr_thread} /\ UNCHANGED <<schedVars, holding, lock_count, queueVars>>
    /\ simple' = FALSE
    /\ UNCHANGED timeoutVars

-----------------------------------------------------------------------------
(***************************************************************************)
(* mutex::signal.                                                          *)
(***************************************************************************)

\* Faulty variant: the thread is queued as ready whatever its state.
GiveToAnyState(t) ==
    /\ holding' = t
    /\ readyQ' = QueueThreadReady(readyQ, t, real_priority[t])
    /\ halted' = TRUE

\* Thread t, taken off its queue, gets the mutex: the scheduler resumes it if
\* it can, and its state is set in any case.
GiveTo(t) ==
    /\ holding' = t
    /\ readyQ' = IF Resumable(t) THEN QueueThreadReady(readyQ, t, real_priority[t]) ELSE readyQ
    /\ halted' = (halted \/ Resumable(t))

\* Faulty variant: the front is popped but not put in pendings.
PutTopNowhere(h, t) ==
    /\ IF h.elems = {} THEN waits' = h ELSE waits' \in HeapPops(h, real_priority, Nil)
    /\ pendings' = <<>>
    /\ state' = [state EXCEPT ![t] = "ready"]
    /\ wait_obj' = [wait_obj EXCEPT ![t] = FALSE]
    /\ UNCHANGED <<fault, timeouts>>

\* After t got the mutex and nobody is pending: the front u of the queue h
\* moves to pendings, and its timeout is unscheduled.  An empty queue has no
\* front, and u is asserted to wait on the mutex.
PutTopWaitToPending(h, t) ==
    LET u == h.top
    IN  /\ wait_obj' = [wait_obj EXCEPT ![t] = FALSE]
        /\ \/ /\ h.elems = {}
              /\ fault' = "empty_top"
              /\ waits' = h /\ pendings' = <<>>
              /\ state' = [state EXCEPT ![t] = "ready"]
              /\ UNCHANGED timeouts
           \/ /\ h.elems # {}
              /\ fault' = IF ~wait_obj'[u] THEN "top_assert" ELSE fault
              /\ waits' \in HeapPops(h, real_priority, Nil)
              /\ pendings' = <<u>>
              /\ state' = [state EXCEPT ![t] = "ready", ![u] = "hold_mutex_pending"]
              /\ timeouts' = [timeouts EXCEPT ![u] = FALSE]

\* After t got the mutex nobody else moves.
JustGive(h, rest, t) ==
    /\ waits' = h /\ pendings' = rest
    /\ state' = [state EXCEPT ![t] = "ready"]
    /\ wait_obj' = [wait_obj EXCEPT ![t] = FALSE]
    /\ UNCHANGED <<fault, timeouts>>

\* The first pending thread gets the mutex; when it was the last one, the next
\* waiter becomes pending.
GivePending ==
    LET t == Head(pendings)
    IN  /\ pendings # <<>>
        /\ GiveTo(t)
        /\ \/ Tail(pendings) = <<>> /\ PutTopWaitToPending(waits, t)
           \/ Tail(pendings) # <<>> /\ JustGive(waits, Tail(pendings), t)

\* Nobody is pending: the front of waits gets it, the next one becomes pending.
GiveWaiting ==
    LET t == waits.top
    IN  /\ pendings = <<>> /\ waits.elems # {}
        /\ GiveTo(t)
        /\ \E h \in HeapPops(waits, real_priority, Nil) :
              \/ h.elems # {} /\ PutTopWaitToPending(h, t)
              \/ h.elems = {} /\ JustGive(h, <<>>, t)

SetFree ==
    /\ pendings = <<>> /\ waits.elems = {}
    /\ holding' = Nil
    /\ UNCHANGED <<readyQ, state, halted, fault, queueVars, timeouts>>

Keep == UNCHANGED <<readyQ, state, halted, fault, holding, queueVars, timeouts>>

\* Faulty variant: the waiters are forgotten.
ReleaseForgets ==
    /\ holding' = Nil
    /\ UNCHANGED <<readyQ, state, halted, fault, queueVars, timeouts>>

Release == GivePending \/ GiveWaiting \/ SetFree

\* mutex_signal: refused unless the caller holds the mutex.
MutexSignal ==
    /\ Svc("mutex_signal")
    /\ claims[crr_thread] > 0
    /\ claims' = [claims EXCEPT ![crr_thread] = @ - 1]
    /\ \/ /\ holding = crr_thread
          /\ lock_count > -MaxDrift
          /\ lock_count' = lock_count - 1
          /\ IF lock_count - 1 <= 0 THEN Release ELSE Keep
       \/ holding # crr_thread /\ Keep /\ UNCHANGED lock_count
    /\ UNCHANGED <<real_priority, time, crr_thread, expired, simple>>

-----------------------------------------------------------------------------
(***************************************************************************)
(* mutex::priority_change, called by thread::update_priority for a thread  *)
(* that waits on the mutex; after is real_priority with the new level.     *)
(***************************************************************************)

\* A pending thread that is no longer foremost is to wait again.
DemotePending(t, after) ==
    LET q == Requeued(t, after[t])
    IN  /\ state[t] = "hold_mutex_pending"
        /\ \/ /\ ~Alone(t) /\ waits.elems = {}
              /\ fault' = "empty_top"
              /\ UNCHANGED <<readyQ, state, waits, pendings>>
           \/ /\ ~Alone(t) /\ waits.elems # {} /\ after[t] < after[waits.top]
              /\ pendings' = Without(pendings, t)
              /\ waits' \in HeapResorts(HeapPush(waits, t, after), after, Nil)
              /\ fault' = IF DequeueFaults(q, t, after[t]) THEN "null_link" ELSE fault
              /\ readyQ' = DequeueThreadFromReady(q, t, after[t])
              /\ state' = [state EXCEPT ![t] = "wait_mutex"]
           \/ /\ Alone(t) \/ (waits.elems # {} /\ after[t] >= after[waits.top])
              /\ readyQ' = q
              /\ UNCHANGED <<state, fault, waits, pendings>>

\* A waiting thread whose priority rose becomes pending and ready to run.
PromoteWaiting(t, after) ==
    LET rises == real_priority[t] < after[t] /\ t \in waits.elems
    IN  /\ state[t] = "wait_mutex"
        /\ \/ /\ rises
              /\ waits' \in HeapRemoves(waits, t, after, Nil)
              /\ pendings' = Append(pendings, t)
              /\ fault' = IF InPendings(t) THEN "double_link" ELSE fault
              /\ readyQ' = IF Resumable(t) THEN QueueThreadReady(readyQ, t, after[t]) ELSE readyQ
              /\ state' = [state EXCEPT ![t] = "hold_mutex_pending"]
           \/ /\ ~rises
              /\ waits' \in HeapResorts(waits, after, Nil)
              /\ UNCHANGED <<readyQ, state, fault, pendings>>

\* thread_set_priority: thread::update_priority moves a linked thread to its
\* new level's ring first.
ThreadSetPriority ==
    /\ Svc("thread_set_priority")
    /\ \E t \in Restless, c \in SetClass :
          LET after == [real_priority EXCEPT ![t] = LevelOf(c)]
          IN  /\ real_priority' = after
              /\ \/ wait_obj[t] /\ (DemotePending(t, after) \/ PromoteWaiting(t, after))
                 \/ /\ ~wait_obj[t] \/ state[t] \notin {"hold_mutex_pending", "wait_mutex"}
                    /\ readyQ' = Requeued(t, after[t])
                    /\ UNCHANGED <<state, fault, waits, pendings>>
    /\ halted' = TRUE /\ simple' = FALSE
    /\ UNCHANGED <<time, crr_thread, holding, lock_count, wait_obj, timeoutVars, claims>>

-----------------------------------------------------------------------------
\* The timer thread takes the MutexWaking event of a thread off its queue ...
TimeoutDue ==
    /\ fault = "none" /\ expired = Nil
    /\ \E t \in Thread : /\ timeouts[t] /\ expired' = t
                         /\ timeouts' = [timeouts EXCEPT ![t] = FALSE]
    /\ UNCHANGED <<schedVars, holding, lock_count, queueVars, claims, simple>>

\* ... and runs waking_up_from_suspension, which does not take the kernel lock:
\* here it runs as if it did.  The thread resumes with wait_obj still set.
WakingUpFromSuspension ==
    LET t == expired
        inPending == state[t] = "hold_mutex_pending" /\ ~Alone(t)
        inWaits == state[t] = "wait_mutex" /\ t \in waits.elems
    IN  /\ fault = "none" /\ t # Nil
        /\ expired' = Nil
        /\ \/ /\ inPending
              /\ pendings' = Without(pendings, t) /\ UNCHANGED waits
           \/ /\ inWaits
              /\ waits' \in HeapRemoves(waits, t, real_priority, Nil) /\ UNCHANGED pendings
           \/ /\ ~inPending /\ ~inWaits
              /\ UNCHANGED <<waits, pendings>>
        /\ IF (inPending \/ inWaits) /\ Resumable(t) THEN MakeReady(t) ELSE UNCHANGED <<readyQ, state>>
        /\ UNCHANGED <<real_priority, time, crr_thread, halted, fault, holding, lock_count, wait_obj, timeouts, claims,
                       simple>>

-----------------------------------------------------------------------------
\* thread_resume starts a created thread; the scheduler resumes any other one,
\* a waiter too, which runs on with wait_obj set and stays queued: its state is
\* no longer wait_mutex_suspend, so mutex::unsuspend_thread refuses it.
ThreadResume ==
    /\ Svc("thread_resume")
    /\ \E t \in Thread :
          /\ Resumable(t) /\ MakeReady(t)
          /\ \/ state[t] = "create" /\ UNCHANGED <<halted, simple>>
             \/ state[t] # "create" /\ t \in Resumed /\ halted' = TRUE /\ simple' = FALSE
    /\ UNCHANGED <<real_priority, time, crr_thread, fault,
                   holding, lock_count, queueVars, timeoutVars, claims>>

\* thread_kill: the mutex is not told, whether the thread holds it or waits.
ThreadKill ==
    /\ Svc("thread_kill")
    /\ \E t \in Mortal :
          /\ state[t] # "stop" /\ Stoppable(t)
          /\ readyQ' = StopQueue(t)
          /\ fault' = IF StopFaults(t) THEN "null_link" ELSE fault
          /\ state' = [state EXCEPT ![t] = "stop"]
    /\ halted' = TRUE /\ simple' = FALSE
    /\ UNCHANGED <<real_priority, time, crr_thread, holding, lock_count, queueVars, timeoutVars, claims>>

MainLoop(left) ==
    Reschedule(left) /\ UNCHANGED <<holding, lock_count, queueVars, timeoutVars, claims, simple>>

Init ==
    /\ real_priority = [t \in Thread |-> LevelOf("normal")]
    /\ state = [t \in Thread |-> IF t = Main THEN "ready" ELSE "create"]
    /\ readyQ = QueueThreadReady(EmptyQueue, Main, LevelOf("normal"))
    /\ time = [t \in Thread |-> TimeSlice]
    /\ crr_thread = Nil /\ halted = FALSE /\ fault = "none"
    /\ holding = Nil /\ lock_count = 0
    /\ waits = EmptyHeap(Nil) /\ pendings = <<>> /\ wait_obj = [t \in Thread |-> FALSE]
    /\ timeouts = [t \in Thread |-> FALSE] /\ expired = Nil
    /\ claims = [t \in Thread |-> 0] /\ simple = TRUE

Next ==
    \/ MutexWait \/ MutexWaitFor \/ MutexTryWait \/ MutexSignal
    \/ ThreadSetPriority \/ TimeoutDue \/ WakingUpFromSuspension
    \/ ThreadResume \/ ThreadKill
    \/ \E left \in 0..TimeSlice : MainLoop(left)

Spec == Init /\ [][Next]_vars
=============================================================================
