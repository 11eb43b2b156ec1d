----------------------------- MODULE ReadyQueue -----------------------------
(***************************************************************************)
(* The ready queue of thread_scheduler (kernel/src/scheduler.cpp): one     *)
(* circular doubly linked ring of threads per priority level, threaded     *)
(* through thread::scheduler_link, with readys[level] pointing at the      *)
(* ring's first thread and ready_mask holding one bit per non-empty level. *)
(*                                                                         *)
(* The queue is a record so that a kernel call can apply several queue     *)
(* operations in one step:                                                 *)
(*   readys[p]            the first thread of level p, or Nil              *)
(*   mask                 the set of levels whose ready_mask bit is set    *)
(*   next[t], previous[t] thread t's scheduler_link                        *)
(***************************************************************************)
EXTENDS Integers, FiniteSets

CONSTANTS Thread,   \* the kernel::thread objects
          Level,    \* the priority levels in use, indices of readys[64]
          Nil       \* nullptr

ASSUME NilAssumption == Nil \notin Thread
ASSUME LevelAssumption == Level \subseteq 0..63

ThreadPtr == Thread \cup {Nil}

ReadyQueues == [readys : [Level -> ThreadPtr], mask : SUBSET Level,
                next : [Thread -> ThreadPtr], previous : [Thread -> ThreadPtr]]

EmptyQueue == [readys |-> [p \in Level |-> Nil], mask |-> {},
               next |-> [t \in Thread |-> Nil], previous |-> [t \in Thread |-> Nil]]

Highest(S) == CHOOSE p \in S : \A r \in S : r <= p

\* A thread is on a ring iff its link is set (thread::update_priority,
\* thread_scheduler::resume and ::unschedule test it this way).
Linked(q, t) == q.next[t] # Nil \/ q.previous[t] # Nil

\* Faulty variant: the search finds the lowest non-empty level.
NextReadyLowest(q) ==
    IF q.mask = {} THEN Nil ELSE q.readys[CHOOSE p \in q.mask : \A r \in q.mask : p <= r]

\* ready_mask is two 32-bit words, and the word of levels 0..31 is looked at
\* first: the highest level of that word wins over every level of the other.
NextReadyThread(q) ==
    LET low == {p \in q.mask : p < 32}
    IN  IF low # {} THEN q.readys[Highest(low)]
        ELSE IF q.mask # {} THEN q.readys[Highest(q.mask)] ELSE Nil

\* Faulty variant: the level is always treated as empty.
QueueAlwaysAlone(q, t, p) ==
    [readys   |-> [q.readys EXCEPT ![p] = t],
     mask     |-> q.mask \cup {p},
     next     |-> [q.next EXCEPT ![t] = t],
     previous |-> [q.previous EXCEPT ![t] = t]]

\* Append t to the ring of level p: the link writes are in the code's order.
QueueThreadReady(q, t, p) ==
    LET first == q.readys[p]
        last  == q.previous[first]
    IN  IF first = Nil
        THEN [readys   |-> [q.readys EXCEPT ![p] = t],
              mask     |-> q.mask \cup {p},
              next     |-> [q.next EXCEPT ![t] = t],
              previous |-> [q.previous EXCEPT ![t] = t]]
        ELSE [readys   |-> q.readys,
              mask     |-> q.mask,
              next     |-> [q.next EXCEPT ![t] = first, ![last] = t],
              previous |-> [q.previous EXCEPT ![t] = last, ![first] = t]]

\* Unlinking a thread that is on no ring follows a null scheduler_link, unless
\* its level is empty and the call returns at once.  The emulator dies then and
\* the queue it leaves is void.
DequeueFaults(q, t, p) == p \in q.mask /\ (q.next[t] = Nil \/ q.previous[t] = Nil)

\* Faulty variant: the ring's head is not moved when it is the one unlinked.
DequeueKeepsHead(q, t, p) ==
    LET n == q.next[t]
        v == q.previous[t]
    IN  IF p \notin q.mask \/ DequeueFaults(q, t, p) THEN q
        ELSE IF n = t /\ v = t
        THEN [readys   |-> [q.readys EXCEPT ![p] = Nil],
              mask     |-> q.mask \ {p},
              next     |-> [q.next EXCEPT ![t] = Nil],
              previous |-> [q.previous EXCEPT ![t] = Nil]]
        ELSE [q EXCEPT !.next = [@ EXCEPT ![v] = n, ![t] = Nil],
                       !.previous = [@ EXCEPT ![n] = v, ![t] = Nil]]

DequeueThreadFromReady(q, t, p) ==
    LET n == q.next[t]
        v == q.previous[t]
    IN  IF p \notin q.mask \/ DequeueFaults(q, t, p) THEN q
        ELSE IF n = t /\ v = t
        THEN [readys   |-> [q.readys EXCEPT ![p] = Nil],
              mask     |-> q.mask \ {p},
              next     |-> [q.next EXCEPT ![t] = Nil],
              previous |-> [q.previous EXCEPT ![t] = Nil]]
        ELSE [readys   |-> IF q.readys[p] = t THEN [q.readys EXCEPT ![p] = n] ELSE q.readys,
              mask     |-> q.mask,
              next     |-> [q.next EXCEPT ![v] = n, ![t] = Nil],
              previous |-> [q.previous EXCEPT ![n] = v, ![t] = Nil]]

\* Faulty variants: the head moves the wrong way, or not at all.
RotateBackward(q, t, p) == [q EXCEPT !.readys[p] = q.previous[t]]
RotateForgotten(q, t, p) == q

\* The head of a ring moves to its end: only readys[p] advances.
RotateReady(q, t, p) == [q EXCEPT !.readys[p] = q.next[t]]

(***************************************************************************)
(* What a sound ready queue looks like.  LinksOK is about neighbours only; *)
(* OneRing says that the threads linked at a level form a single ring: a   *)
(* non-empty set of them that contains every member's successor is all of  *)
(* them, so that a walk from readys[p] meets each one.                     *)
(***************************************************************************)
LinksOK(q, pri) ==
    /\ \A t \in Thread : q.next[t] = Nil <=> q.previous[t] = Nil
    /\ \A t \in Thread : q.next[t] # Nil =>
          /\ q.previous[q.next[t]] = t
          /\ q.next[q.previous[t]] = t
          /\ pri[q.next[t]] = pri[t]
          /\ pri[q.previous[t]] = pri[t]
          /\ q.readys[pri[t]] # Nil
    /\ \A p \in Level : q.readys[p] # Nil =>
          q.next[q.readys[p]] # Nil /\ pri[q.readys[p]] = p
    /\ q.mask = {p \in Level : q.readys[p] # Nil}

OnLevel(q, pri, p) == {t \in Thread : Linked(q, t) /\ pri[t] = p}

OneRing(q, pri) ==
    \A p \in Level : \A S \in SUBSET OnLevel(q, pri, p) :
        S # {} /\ (\A t \in S : q.next[t] \in S) => S = OnLevel(q, pri, p)

RingsOK(q, pri) == LinksOK(q, pri) /\ OneRing(q, pri)

\* The ring of level p as a sequence, in scheduling order.
Ring(q, pri, p) ==
    LET n == Cardinality(OnLevel(q, pri, p))
        at[i \in 1..n] == IF i = 1 THEN q.readys[p] ELSE q.next[at[i - 1]]
    IN  [i \in 1..n |-> at[i]]
=============================================================================
