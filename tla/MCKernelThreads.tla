-------------------------- MODULE MCKernelThreads ---------------------------
(* Small instances of KernelThreads for TLC. *)
EXTENDS KernelThreadsProperties, TLC

CONSTANTS t1, t2, t3, p1, s1

OneProcess == {p1}

OwnerOne == [t \in Thread |-> p1]
PrimaryOne == [p \in OneProcess |-> t1]

\* The levels the chosen priority classes lead to.
LevelsInUse == {CalculateThreadPriority(pp, tp) : pp \in ProcessClass, tp \in ThreadClass}

\* t2 and t3 are created alike by the first thread.
CreatedAlike == Permutations({t2, t3})

\* Semaphores shared by threads that are suspended, resumed and re-prioritised.
SyncCalls == {"semaphore_wait", "semaphore_signal", "thread_create", "thread_resume",
              "thread_suspend", "thread_set_priority"}

\* Requests of every kind, completed by a wake-up, a cancel, a rendezvous, a
\* signal or the end of the process; and process-wide priority changes.
RequestCalls == {"wait_for_any_request", "request_signal", "after", "process_set_priority",
                 "thread_create", "thread_resume", "process_resume", "thread_kill", "cpu_exception",
                 "process_logon", "process_logon_cancel", "process_rendezvous"}

\* Threads that take turns on the CPU and wake each other.
TurnCalls == {"wait_for_any_request", "request_signal", "thread_create", "thread_resume"}
=============================================================================
