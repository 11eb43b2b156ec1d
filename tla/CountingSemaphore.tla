-------------------------- MODULE CountingSemaphore -------------------------
(***************************************************************************)
(* What the kernel's semaphores promise their users: permits that are      *)
(* taken or waited for, and a signal that goes to a waiter of the highest  *)
(* current priority if there is one, and is kept as a permit otherwise.    *)
(***************************************************************************)
EXTENDS Naturals

CONSTANTS Thread, Sema

VARIABLES permits,   \* permits[s]: signals of s nobody has used yet
          blocked,   \* blocked[s]: the threads waiting for one
          pri        \* the threads' current priorities, set by others

Init == permits \in [Sema -> Nat] /\ blocked = [s \in Sema |-> {}]

\* A wait that finds a permit uses it up.
Acquire(s) ==
    /\ permits[s] > 0
    /\ permits' = [permits EXCEPT ![s] = @ - 1]
    /\ UNCHANGED blocked

\* A wait that finds none blocks the caller.
Block(s, t) ==
    /\ permits[s] = 0 /\ t \notin blocked[s]
    /\ blocked' = [blocked EXCEPT ![s] = @ \cup {t}]
    /\ UNCHANGED permits

\* A signal unblocks one of the foremost waiters, or leaves a permit.
Grant(s, t) ==
    /\ t \in blocked[s] /\ \A u \in blocked[s] : pri[u] <= pri[t]
    /\ blocked' = [blocked EXCEPT ![s] = @ \ {t}]
    /\ UNCHANGED permits

Release(s) ==
    /\ blocked[s] = {}
    /\ permits' = [permits EXCEPT ![s] = @ + 1]
    /\ UNCHANGED blocked

Next == \E s \in Sema : Acquire(s) \/ Release(s) \/ \E t \in Thread : Block(s, t) \/ Grant(s, t)

semaphoreVars == <<permits, blocked>>

Spec == Init /\ [][Next]_semaphoreVars
=============================================================================
