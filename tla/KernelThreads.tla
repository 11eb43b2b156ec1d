--------------------------- MODULE KernelThreads ----------------------------
(***************************************************************************)
(* Threads, processes and semaphores of the emulated kernel on top of the  *)
(* scheduler: kernel/src/{thread,process,sema}.cpp and the supervisor      *)
(* calls of svc.cpp that reach them.  One action per supervisor call, one  *)
(* per step of the timer thread, one per turn of the main loop.            *)
(*                                                                         *)
(* A kernel call that loops (semaphore::signal(n), process::set_priority,  *)
(* finish_logons, rendezvous) queues its iterations in work; they run one  *)
(* per step, and nothing else may run in between because the caller holds  *)
(* the kernel lock.                                                        *)
(*                                                                         *)
(* Every thread owns a request semaphore; it is named by the thread.       *)
(***************************************************************************)
EXTENDS Scheduler, ThreadPriority, Sequences

CONSTANTS UserSema,         \* semaphores made by semaphore_create
          InitCount,        \* their initial count
          Process,
          Owner,            \* Owner[t]: the process thread t belongs to
          Primary,          \* Primary[p]: p's primary thread
          Boot,             \* the process the emulator starts with
          SetClass,         \* the thread_priority values the guest sets
          ProcessClass,     \* the process_priority values the guest sets
          GuestCalls,       \* the supervisor calls the guest issues
          SignalCounts,     \* arguments of semaphore_signal_n, request_signal
          MaxCount,         \* bound: a semaphore at it is not signalled, and
                            \* its thread makes no request, by an SVC
          MaxLogons,        \* bound: requests pending on a process
          MaxExtraKills,    \* bound: thread_count decrements below zero
          CountWidth        \* thread_count is modulo this (2^32 in the code)

Sema == UserSema \cup Thread

ASSUME ThreadAssumption == IsFiniteSet(Thread)
ASSUME SemaAssumption == UserSema \cap Thread = {} /\ Nil \notin UserSema
ASSUME OwnerAssumption == Owner \in [Thread -> Process]
ASSUME PrimaryAssumption == Primary \in [Process -> Thread] /\ \A p \in Process : Owner[Primary[p]] = p
ASSUME BootAssumption == Boot \in Process
\* A primary thread is made with abs_foreground_normal, another with normal.
ThreadClass == SetClass \cup {"normal", "abs_foreground_normal"}

ASSUME ClassAssumption == ThreadClass \subseteq ThreadPriorities /\ ProcessClass \subseteq ProcessPriorities
                          /\ "foreground" \in ProcessClass
ASSUME LevelsAssumption == \A pp \in ProcessClass, tp \in ThreadClass : CalculateThreadPriority(pp, tp) \in Level
ASSUME BoundsAssumption == InitCount \in Nat /\ MaxCount \in Nat /\ MaxLogons \in Nat /\ MaxExtraKills \in Nat
                           /\ SignalCounts \subseteq Nat /\ CountWidth \in Nat
                           /\ CountWidth > Cardinality(Thread) + 2 + MaxExtraKills

VARIABLES priority,      \* thread::priority
          proc_priority, \* process::priority
          wait_obj,      \* thread::wait_obj: the semaphore it waits on, or Nil
          avail_count,   \* semaphore::avail_count
          waits,         \* semaphore::waits
          sleep_sts,     \* thread::sleep_nof_sts is set
          wakeup,        \* the thread's SchedulerWakeUpThread event
          thread_list,   \* process::thread_list
          thread_count,  \* process::thread_count
          logon_requests, rendezvous_requests, \* of each process: the requesting threads
          work           \* what is left of the kernel call in progress

semaVars == <<wait_obj, avail_count, waits>>
sleepVars == <<sleep_sts, wakeup>>
procVars == <<thread_list, thread_count, logon_requests, rendezvous_requests>>
classVars == <<priority, proc_priority>>
vars == <<schedVars, semaVars, sleepVars, procVars, classVars, work>>

\* thread t has been constructed
Exists(t) == \E i \in DOMAIN thread_list[Owner[t]] : thread_list[Owner[t]][i] = t

SignalOf(s, svc) == [op |-> "signal", on |-> s, svc |-> svc]
UpdateOf(t) == [op |-> "update", on |-> t, svc |-> TRUE]

\* One signal for the request semaphore of each thread of a request list.
CompleteAll(requests, svc) == [i \in DOMAIN requests |-> SignalOf(requests[i], svc)]

\* The process of crr_thread may issue supervisor call `name' now.
Svc(name) == GuestRuns /\ work = <<>> /\ name \in GuestCalls

-----------------------------------------------------------------------------
(***************************************************************************)
(* Semaphores.                                                             *)
(***************************************************************************)

\* semaphore::wait on behalf of the current thread, which waits unless the
\* semaphore has a count left.  It must not be waiting already.
SemaphoreWait(s) ==
    LET t == crr_thread
    IN  /\ avail_count' = [avail_count EXCEPT ![s] = @ - 1]
        /\ \/ /\ avail_count[s] > 0
              /\ UNCHANGED <<schedVars, wait_obj, waits>>
           \/ /\ avail_count[s] <= 0
              /\ fault' = IF wait_obj[t] # Nil THEN "wait_assert" ELSE fault
              /\ waits' = [waits EXCEPT ![s] = HeapPush(@, t, real_priority)]
              /\ wait_obj' = [wait_obj EXCEPT ![t] = s]
              /\ state' = [state EXCEPT ![t] = "wait_fast_sema"]
              /\ readyQ' = IF Waitable(t) THEN DequeueThreadFromReady(readyQ, t, real_priority[t]) ELSE readyQ
              /\ halted' = (halted \/ Waitable(t))
              /\ UNCHANGED <<real_priority, time, crr_thread>>
        /\ UNCHANGED <<sleepVars, procVars, classVars, work>>

\* semaphore_wait
SemaphoreWaitSvc ==
    /\ Svc("semaphore_wait")
    /\ \E s \in UserSema : SemaphoreWait(s)

\* wait_for_any_request
WaitForAnyRequest ==
    /\ Svc("wait_for_any_request")
    /\ SemaphoreWait(crr_thread)

\* semaphore::signal(n): n iterations of SignalOnce.
SemaphoreSignal(s, n) ==
    /\ avail_count[s] + n <= MaxCount
    /\ work' = [i \in 1..n |-> SignalOf(s, TRUE)]
    /\ UNCHANGED <<schedVars, semaVars, sleepVars, procVars, classVars>>

\* semaphore_signal and semaphore_signal_n
SemaphoreSignalSvc ==
    /\ Svc("semaphore_signal")
    /\ \E s \in UserSema, n \in SignalCounts : SemaphoreSignal(s, n)

\* request_signal on the calling thread, thread_request_signal on any thread
RequestSignalSvc ==
    /\ Svc("request_signal")
    /\ \/ \E n \in SignalCounts : SemaphoreSignal(crr_thread, n)
       \/ \E t \in Thread : Exists(t) /\ SemaphoreSignal(t, 1)

\* One iteration of the loop of semaphore::signal.  Waking a thread ends in
\* thread_scheduler::resume, which halts the guest when an SVC is the caller.
SignalOnce(s, svc) ==
    LET t == waits[s].top
    IN  /\ avail_count' = [avail_count EXCEPT ![s] = @ + 1]
        /\ \/ /\ avail_count[s] >= 0 \/ waits[s].elems = {}
              /\ UNCHANGED <<schedVars, wait_obj, waits>>
           \/ /\ avail_count[s] < 0 /\ waits[s].elems # {}
              /\ fault' = IF wait_obj[t] # s THEN "signal_assert" ELSE fault
              /\ \E h \in HeapPops(waits[s], real_priority, Nil) : waits' = [waits EXCEPT ![s] = h]
              /\ wait_obj' = [wait_obj EXCEPT ![t] = Nil]
              /\ IF Resumable(t)
                 THEN MakeReady(t) /\ halted' = (halted \/ svc)
                 ELSE UNCHANGED <<readyQ, state, halted>>
              /\ UNCHANGED <<real_priority, time, crr_thread>>

-----------------------------------------------------------------------------
(***************************************************************************)
(* Priorities.                                                             *)
(***************************************************************************)

\* thread::update_priority with the priority classes classes and pclasses:
\* a linked thread moves to the end of its new level's ring, and the queue
\* of the semaphore it waits on is resorted (semaphore::priority_change).
UpdatePriority(t, classes, pclasses) ==
    LET level == CalculateThreadPriority(pclasses[Owner[t]], classes[t])
        after == [real_priority EXCEPT ![t] = level]
        s     == wait_obj[t]
    IN  /\ real_priority' = after
        /\ readyQ' = IF Linked(readyQ, t)
                     THEN QueueThreadReady(DequeueThreadFromReady(readyQ, t, real_priority[t]), t, level)
                     ELSE readyQ
        /\ IF s # Nil
           THEN \E h \in HeapResorts(waits[s], after, Nil) : waits' = [waits EXCEPT ![s] = h]
           ELSE UNCHANGED waits
        /\ UNCHANGED <<wait_obj, avail_count, state, time, crr_thread, fault>>

\* thread_set_priority
ThreadSetPriority ==
    /\ Svc("thread_set_priority")
    /\ \E t \in Thread, c \in SetClass :
          /\ Exists(t)
          /\ priority' = [priority EXCEPT ![t] = c]
          /\ UpdatePriority(t, priority', proc_priority)
    /\ halted' = TRUE
    /\ UNCHANGED <<proc_priority, sleepVars, procVars, work>>

\* process_set_priority: every thread of the process is updated in turn.
ProcessSetPriority ==
    /\ Svc("process_set_priority")
    /\ \E p \in Process, c \in ProcessClass :
          /\ proc_priority' = [proc_priority EXCEPT ![p] = c]
          /\ work' = [i \in DOMAIN thread_list[p] |-> UpdateOf(thread_list[p][i])]
    /\ UNCHANGED <<schedVars, semaVars, sleepVars, procVars, priority>>

\* The next iteration of the kernel call in progress.
ContinueCall ==
    /\ fault = "none"
    /\ work # <<>>
    /\ work' = Tail(work)
    /\ LET w == Head(work)
       IN  \/ w.op = "signal" /\ SignalOnce(w.on, w.svc)
           \/ w.op = "update" /\ UpdatePriority(w.on, priority, proc_priority) /\ UNCHANGED halted
    /\ UNCHANGED <<sleepVars, procVars, classVars>>

-----------------------------------------------------------------------------
(***************************************************************************)
(* Thread life.                                                            *)
(***************************************************************************)

\* thread_create: a thread of the calling process, suspended until resumed.
ThreadCreate ==
    /\ Svc("thread_create")
    /\ \E t \in Thread :
          LET p == Owner[t]
          IN  /\ p = Owner[crr_thread] /\ ~Exists(t)
              /\ thread_list' = [thread_list EXCEPT ![p] = Append(@, t)]
              /\ thread_count' = [thread_count EXCEPT ![p] = (@ + 1) % CountWidth]
              /\ real_priority' = [real_priority EXCEPT ![t] =
                                      CalculateThreadPriority(proc_priority[p], "normal")]
    /\ UNCHANGED <<readyQ, state, time, crr_thread, halted, fault, semaVars, sleepVars, classVars,
                   logon_requests, rendezvous_requests, work>>

\* thread_resume, and process_resume on the primary thread (process::run)
ThreadResume ==
    /\ Svc("thread_resume")
    /\ \E t \in Thread :
          /\ Exists(t)
          /\ \/ state[t] = "create" /\ MakeReady(t) /\ UNCHANGED halted
             \/ state[t] # "create" /\ Resumable(t) /\ MakeReady(t) /\ halted' = TRUE
    /\ UNCHANGED <<real_priority, time, crr_thread, fault, semaVars, sleepVars, procVars, classVars, work>>

ProcessResume ==
    /\ Svc("process_resume")
    /\ \E p \in Process : Schedulable(Primary[p]) /\ MakeReady(Primary[p])
    /\ UNCHANGED <<real_priority, time, crr_thread, halted, fault, semaVars, sleepVars, procVars, classVars, work>>

\* thread_suspend.  thread::suspend has already changed the state to wait when
\* it asks the semaphore to move the waiter aside, so that request is refused.
ThreadSuspend ==
    /\ Svc("thread_suspend")
    /\ \E t \in Thread :
          /\ Exists(t) /\ state[t] # "create" /\ Waitable(t)
          /\ fault' = IF DequeueFaults(readyQ, t, real_priority[t]) THEN "null_link" ELSE fault
          /\ readyQ' = DequeueThreadFromReady(readyQ, t, real_priority[t])
          /\ state' = [state EXCEPT ![t] = "wait"]
    /\ halted' = TRUE
    /\ UNCHANGED <<real_priority, time, crr_thread, semaVars, sleepVars, procVars, classVars, work>>

\* Faulty variant: the counter goes below zero.
DecrementNoWrap(n, by) == n - by

\* decrease_thread_count wraps at zero; the bound keeps the wrapped part finite.
Decrement(n, by) == (n - by + CountWidth) % CountWidth
KillBound(p) == thread_count[p] <= Cardinality(Thread) + 1
                \/ thread_count[p] >= CountWidth - MaxExtraKills

\* thread_scheduler::stop on t, with `extra' more decrements by the caller
\* (thread::kill).  The process's last decrement inside stop finishes its
\* logons: every requester is signalled.
Stop(t, extra) ==
    LET p     == Owner[t]
        after == Decrement(thread_count[p], 1)
    IN  /\ wakeup' = [wakeup EXCEPT ![t] = IF @ = "scheduled" THEN "idle" ELSE @]
        /\ IF Stoppable(t)
           THEN /\ readyQ' = StopQueue(t)
                /\ state' = [state EXCEPT ![t] = "stop"]
                /\ thread_count' = [thread_count EXCEPT ![p] = Decrement(after, extra)]
                /\ IF after = 0
                   THEN /\ work' = CompleteAll(logon_requests[p] \o rendezvous_requests[p], TRUE)
                        /\ logon_requests' = [logon_requests EXCEPT ![p] = <<>>]
                        /\ rendezvous_requests' = [rendezvous_requests EXCEPT ![p] = <<>>]
                   ELSE UNCHANGED <<work, logon_requests, rendezvous_requests>>
           ELSE /\ thread_count' = [thread_count EXCEPT ![p] = Decrement(@, extra)]
                /\ UNCHANGED <<readyQ, state, work, logon_requests, rendezvous_requests>>
        /\ fault' = IF StopFaults(t) THEN "null_link" ELSE fault
        /\ halted' = TRUE
        /\ UNCHANGED <<real_priority, time, crr_thread, semaVars, sleep_sts, thread_list, classVars>>

\* thread_kill, and message_kill on a client thread
ThreadKill ==
    /\ Svc("thread_kill")
    /\ \E t \in Thread : Exists(t) /\ state[t] # "stop" /\ KillBound(Owner[t]) /\ Stop(t, 1)

\* kernel_system::cpu_exception_thread_handle: the current thread is stopped.
CpuException ==
    /\ Svc("cpu_exception")
    /\ KillBound(Owner[crr_thread])
    /\ Stop(crr_thread, 0)

-----------------------------------------------------------------------------
(***************************************************************************)
(* Process logon and rendezvous.                                           *)
(***************************************************************************)

\* process_logon: on a process without threads only the status is written.
ProcessLogon ==
    /\ Svc("process_logon")
    /\ avail_count[crr_thread] < MaxCount
    /\ \E p \in Process :
          /\ thread_count[p] # 0
          /\ Len(logon_requests[p]) + Len(rendezvous_requests[p]) < MaxLogons
          /\ \/ /\ logon_requests' = [logon_requests EXCEPT ![p] = Append(@, crr_thread)]
                /\ UNCHANGED rendezvous_requests
             \/ /\ rendezvous_requests' = [rendezvous_requests EXCEPT ![p] = Append(@, crr_thread)]
                /\ UNCHANGED logon_requests
    /\ UNCHANGED <<schedVars, semaVars, sleepVars, thread_list, thread_count, classVars, work>>

\* The first request of thread t is erased from a request list.
Erase(requests, t) ==
    LET i == CHOOSE j \in DOMAIN requests :
                requests[j] = t /\ \A k \in 1..(j - 1) : requests[k] # t
    IN  [j \in 1..(Len(requests) - 1) |-> IF j < i THEN requests[j] ELSE requests[j + 1]]

\* process_logon_cancel: completes the caller's own request.
ProcessLogonCancel ==
    /\ Svc("process_logon_cancel")
    /\ \E p \in Process :
          \/ /\ \E i \in DOMAIN logon_requests[p] : logon_requests[p][i] = crr_thread
             /\ logon_requests' = [logon_requests EXCEPT ![p] = Erase(@, crr_thread)]
             /\ UNCHANGED rendezvous_requests
          \/ /\ \E i \in DOMAIN rendezvous_requests[p] : rendezvous_requests[p][i] = crr_thread
             /\ rendezvous_requests' = [rendezvous_requests EXCEPT ![p] = Erase(@, crr_thread)]
             /\ UNCHANGED logon_requests
    /\ work' = <<SignalOf(crr_thread, TRUE)>>
    /\ UNCHANGED <<schedVars, semaVars, sleepVars, thread_list, thread_count, classVars>>

\* process_rendezvous: the calling process completes the rendezvous requests.
ProcessRendezvous ==
    /\ Svc("process_rendezvous")
    /\ LET p == Owner[crr_thread]
       IN  /\ rendezvous_requests[p] # <<>>
           /\ work' = CompleteAll(rendezvous_requests[p], TRUE)
           /\ rendezvous_requests' = [rendezvous_requests EXCEPT ![p] = <<>>]
    /\ UNCHANGED <<schedVars, semaVars, sleepVars, thread_list, thread_count, logon_requests, classVars>>

-----------------------------------------------------------------------------
(***************************************************************************)
(* Sleeping with a request (`after') and the timer thread's wake-up.       *)
(***************************************************************************)

\* after: the thread keeps running; its request completes on the wake-up.
After ==
    /\ Svc("after")
    /\ avail_count[crr_thread] < MaxCount
    /\ fault' = IF sleep_sts[crr_thread] THEN "sleep_assert" ELSE fault
    /\ sleep_sts' = [sleep_sts EXCEPT ![crr_thread] = TRUE]
    /\ wakeup' = [wakeup EXCEPT ![crr_thread] = "scheduled"]
    /\ UNCHANGED <<readyQ, state, real_priority, time, crr_thread, halted, semaVars, procVars, classVars, work>>

\* ntimer::advance takes the due event off its queue; from here on it can no
\* longer be unscheduled.  There is one timer thread.
WakeupDue ==
    /\ fault = "none"
    /\ \A t \in Thread : wakeup[t] # "firing"
    /\ \E t \in Thread : wakeup[t] = "scheduled" /\ wakeup' = [wakeup EXCEPT ![t] = "firing"]
    /\ UNCHANGED <<schedVars, semaVars, sleep_sts, procVars, classVars, work>>

\* Faulty variant: the event stays queued and fires again.
NotifySleepTwice ==
    /\ fault = "none" /\ work = <<>>
    /\ \E t \in Thread :
          /\ wakeup[t] = "firing"
          /\ wakeup' = [wakeup EXCEPT ![t] = "scheduled"]
          /\ sleep_sts' = [sleep_sts EXCEPT ![t] = FALSE]
          /\ work' = IF sleep_sts[t] THEN <<SignalOf(t, FALSE)>> ELSE <<>>
    /\ UNCHANGED <<schedVars, semaVars, procVars, classVars>>

\* The event's callback, thread::notify_sleep, under the kernel lock.
NotifySleep ==
    /\ fault = "none" /\ work = <<>>
    /\ \E t \in Thread :
          /\ wakeup[t] = "firing"
          /\ wakeup' = [wakeup EXCEPT ![t] = "idle"]
          /\ sleep_sts' = [sleep_sts EXCEPT ![t] = FALSE]
          /\ work' = IF sleep_sts[t] THEN <<SignalOf(t, FALSE)>> ELSE <<>>
    /\ UNCHANGED <<schedVars, semaVars, procVars, classVars>>

-----------------------------------------------------------------------------
\* A turn of the emulator's main loop, outside any kernel call.
MainLoop(left) ==
    /\ work = <<>>
    /\ Reschedule(left)
    /\ UNCHANGED <<semaVars, sleepVars, procVars, classVars, work>>

\* The boot process has been built and run, its thread is ready; the other
\* processes have been built, their primary thread waits to be resumed.
Init ==
    /\ priority = [t \in Thread |-> IF t = Primary[Owner[t]] THEN "abs_foreground_normal" ELSE "normal"]
    /\ proc_priority = [p \in Process |-> "foreground"]
    /\ real_priority = [t \in Thread |-> CalculateThreadPriority("foreground", priority[t])]
    /\ state = [t \in Thread |-> IF t = Primary[Boot] THEN "ready" ELSE "create"]
    /\ readyQ = QueueThreadReady(EmptyQueue, Primary[Boot], real_priority[Primary[Boot]])
    /\ time = [t \in Thread |-> TimeSlice]
    /\ crr_thread = Nil
    /\ halted = FALSE
    /\ fault = "none"
    /\ wait_obj = [t \in Thread |-> Nil]
    /\ avail_count = [s \in Sema |-> IF s \in UserSema THEN InitCount ELSE 0]
    /\ waits = [s \in Sema |-> EmptyHeap(Nil)]
    /\ sleep_sts = [t \in Thread |-> FALSE]
    /\ wakeup = [t \in Thread |-> "idle"]
    /\ thread_list = [p \in Process |-> <<Primary[p]>>]
    /\ thread_count = [p \in Process |-> 2]
    /\ logon_requests = [p \in Process |-> <<>>]
    /\ rendezvous_requests = [p \in Process |-> <<>>]
    /\ work = <<>>

Next ==
    \/ SemaphoreWaitSvc \/ WaitForAnyRequest
    \/ SemaphoreSignalSvc \/ RequestSignalSvc \/ ContinueCall
    \/ ThreadSetPriority \/ ProcessSetPriority
    \/ ThreadCreate \/ ThreadResume \/ ProcessResume \/ ThreadSuspend
    \/ ThreadKill \/ CpuException
    \/ ProcessLogon \/ ProcessLogonCancel \/ ProcessRendezvous
    \/ After \/ WakeupDue \/ NotifySleep
    \/ \E left \in 0..TimeSlice : MainLoop(left)

Spec == Init /\ [][Next]_vars
=============================================================================
