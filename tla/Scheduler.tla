----------------------------- MODULE Scheduler ------------------------------
(***************************************************************************)
(* thread_scheduler (kernel/src/scheduler.cpp) and the part of             *)
(* system_impl::loop that drives it.  The state here is what every kernel  *)
(* object that blocks or wakes threads works on; KernelThreads and         *)
(* KernelMutex extend this module with those objects.                      *)
(*                                                                         *)
(* Every supervisor call (SVC) runs on the emulator thread under the       *)
(* kernel lock, on behalf of crr_thread; a timer callback runs on the      *)
(* timer thread under the same lock.  kernel_system::prepare_reschedule    *)
(* stops the guest CPU: when an SVC calls it, the guest executes nothing   *)
(* more until the main loop has rescheduled (halted); when the timer       *)
(* thread calls it, the guest may still get one more SVC in.               *)
(***************************************************************************)
EXTENDS ReadyQueue

CONSTANT TimeSlice       \* thread::timeslice, in units of guest execution

ASSUME TimeSliceAssumption == TimeSlice \in Nat \ {0}

VARIABLES readyQ,        \* readys, ready_mask and every scheduler_link
          state,         \* thread::state
          real_priority, \* thread::real_priority, the thread's level
          time,          \* thread::time, what is left of its slice
          crr_thread,    \* the current thread, or Nil
          halted,        \* the guest CPU was told to stop by an SVC
          fault          \* "none", or how the emulator died: a failed
                         \* assertion or a null link followed; what an action
                         \* leaves behind in the other variables then is void

schedVars == <<readyQ, state, real_priority, time, crr_thread, halted, fault>>

\* The guest executes crr_thread's code, so that thread may issue an SVC.
GuestRuns == fault = "none" /\ crr_thread # Nil /\ ~halted

\* thread_scheduler::schedule and ::resume make an unlinked thread ready.
MakeReady(t) ==
    /\ state' = [state EXCEPT ![t] = "ready"]
    /\ readyQ' = QueueThreadReady(readyQ, t, real_priority[t])

Schedulable(t) == state[t] \notin {"run", "ready", "hold_mutex_pending"}

Resumable(t) == ~Linked(readyQ, t) /\ state[t] \notin {"ready", "run", "stop"}

\* thread_scheduler::wait goes on only in a state that is not already waiting.
Waitable(t) == state[t] \notin {"wait", "ready", "wait_fast_sema", "wait_mutex"}

(***************************************************************************)
(* thread_scheduler::stop.  It refuses a waiting thread (which is never    *)
(* linked): such a thread keeps its state.                                 *)
(***************************************************************************)
Stoppable(t) ==
    state[t] \in {"wait", "wait_fast_sema"} => Linked(readyQ, t)

StopQueue(t) ==
    CASE state[t] = "ready" ->
            IF Linked(readyQ, t) THEN DequeueThreadFromReady(readyQ, t, real_priority[t]) ELSE readyQ
      [] state[t] \in {"run", "wait", "wait_fast_sema"} ->
            DequeueThreadFromReady(readyQ, t, real_priority[t])
      [] OTHER -> readyQ

StopFaults(t) ==
    /\ Stoppable(t) /\ state[t] \in {"run", "wait", "wait_fast_sema"}
    /\ DequeueFaults(readyQ, t, real_priority[t])

\* Faulty variant: the old thread keeps its run state.
SwitchKeepsOld(newt) ==
    state' = [t \in Thread |-> IF t = newt THEN "run" ELSE state[t]] /\ crr_thread' = newt

(***************************************************************************)
(* switch_context: the old thread is ready again if it was still running.  *)
(* Registers, address spaces and the process switch are not modelled.      *)
(***************************************************************************)
SwitchContext(newt) ==
    LET put == [t \in Thread |-> IF t = crr_thread /\ state[t] = "run" THEN "ready" ELSE state[t]]
    IN  /\ state' = [t \in Thread |-> IF t = newt THEN "run" ELSE put[t]]
        /\ crr_thread' = newt

\* What add_ticks can leave of the current thread's slice after cpu->run.
Ticked(left) == [t \in Thread |-> IF t = crr_thread THEN left ELSE time[t]]

TicksLeft == IF crr_thread = Nil THEN {0} ELSE 0..time[crr_thread]

\* The first thread still has time: it runs.
RunFirst(ticked, first) ==
    /\ first # Nil => ticked[first] # 0
    /\ time' = ticked
    /\ readyQ' = readyQ
    /\ SwitchContext(first)

\* The first thread used up its slice: it goes to the end of its ring.
RotateFirst(ticked, first) ==
    /\ first # Nil
    /\ ticked[first] = 0
    /\ readyQ.next[first] # first \/ readyQ.previous[first] # first
    /\ time' = [ticked EXCEPT ![first] = TimeSlice]
    /\ readyQ' = RotateReady(readyQ, first, real_priority[first])
    /\ SwitchContext(readyQ.next[first])

\* It used up its slice but is alone: the best thread of a lower level runs.
RunBelow(ticked, first) ==
    /\ first # Nil
    /\ ticked[first] = 0
    /\ readyQ.next[first] = first /\ readyQ.previous[first] = first
    /\ time' = [ticked EXCEPT ![first] = TimeSlice]
    /\ LET without == DequeueThreadFromReady(readyQ, first, real_priority[first])
       IN  /\ readyQ' = QueueThreadReady(without, first, real_priority[first])
           /\ SwitchContext(NextReadyThread(without))

\* One turn of system_impl::loop after the guest stopped executing.
Reschedule(left) ==
    LET ticked == Ticked(left)
        first  == NextReadyThread(readyQ)
    IN  /\ fault = "none"
        /\ left \in TicksLeft
        /\ \/ RunFirst(ticked, first)
           \/ RotateFirst(ticked, first)
           \/ RunBelow(ticked, first)
        /\ halted' = FALSE
        /\ UNCHANGED <<real_priority, fault>>
=============================================================================
