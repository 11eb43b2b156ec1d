------------------------ MODULE KernelMutexProperties -----------------------
(***************************************************************************)
(* What the mutex must do.  The state of an emulator that has died says    *)
(* nothing, hence Alive.                                                   *)
(***************************************************************************)
EXTENDS KernelMutex

Alive == fault = "none"

\* The ready rings survive everything the mutex does to its waiters: hand-over,
\* promotion and demotion on a priority change, timeouts, deaths.
MutexRingsSound == Alive => RingsOK(readyQ, real_priority)

\* A thread blocked on the mutex, off the ready rings, is in one of its queues,
\* so that a signal reaches it, after whatever priority changes, timeouts and
\* hand-overs.
NoWaiterForgotten ==
    Alive => \A t \in Thread : ~Linked(readyQ, t) =>
        /\ state[t] = "wait_mutex" => t \in waits.elems
        /\ state[t] = "hold_mutex_pending" => InPendings(t)

\* Nobody waits for a free mutex.
HeldWhileWanted == Alive /\ holding = Nil => waits.elems = {} /\ pendings = <<>>

\* Thread t has come back from a wait and not given the mutex back.
Inside(t) == claims[t] > 0 /\ Linked(readyQ, t)

\* Two threads are never both past a wait on the mutex, and the one that is
\* holds it, as long as they only wait and signal: a timeout, a failed try or a
\* death leaves a thread past a wait without the mutex.
MutualExclusion == Alive /\ simple => \A t \in Thread : Inside(t) => holding = t

lockVars == <<holding, wait_obj>>

Lock == INSTANCE LockService WITH owner <- holding, waiting <- {t \in Thread : wait_obj[t]}

\* With the two queues and the hand-over hidden the mutex, used in this way, is a
\* lock: a signal gives it to a waiting thread and frees it only if there is none.
ImplementsLock ==
    Lock!Init /\ [][Alive' /\ simple' => Lock!Next]_lockVars
=============================================================================
