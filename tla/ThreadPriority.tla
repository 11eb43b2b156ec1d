--------------------------- MODULE ThreadPriority ---------------------------
(***************************************************************************)
(* How a thread's scheduling level is computed from its thread_priority    *)
(* and its process's process_priority, and the priority queue of threads   *)
(* (cp_queue, common/queue.h) that semaphores and mutexes keep their       *)
(* waiters in.                                                             *)
(***************************************************************************)
EXTENDS Integers

\* thread_priority values are relative to the process, or absolute levels.
RelativePriority == {"much_less", "less", "normal", "more", "much_more", "real_time"}
AbsolutePriority == {"null", "abs_very_low", "abs_low", "abs_background_normal",
                     "abs_background", "abs_foreground_normal", "abs_foreground", "abs_high"}
ThreadPriorities == RelativePriority \cup AbsolutePriority

ProcessPriorities == {"low", "background", "foreground", "high", "window_svr",
                      "file_svr", "supervisor", "real_time_svr"}

\* The level of an absolute priority, independent of the process.
AbsoluteLevel ==
    [null |-> 0, abs_very_low |-> 1, abs_low |-> 5, abs_background_normal |-> 7,
     abs_background |-> 10, abs_foreground_normal |-> 12, abs_foreground |-> 15, abs_high |-> 23]

\* The rows of the table pris[] that thread priorities can index (columns 1..6).
RelativeLevel ==
    LET server == [much_less |-> 15, less |-> 16, normal |-> 21, more |-> 24, much_more |-> 25, real_time |-> 28]
    IN  [low           |-> [much_less |->  1, less |->  2, normal |->  3, more |->  4, much_more |->  5, real_time |-> 22],
         background    |-> [much_less |->  5, less |->  6, normal |->  7, more |->  8, much_more |->  9, real_time |-> 22],
         foreground    |-> [much_less |-> 10, less |-> 11, normal |-> 12, more |-> 13, much_more |-> 14, real_time |-> 22],
         high          |-> [much_less |-> 17, less |-> 18, normal |-> 19, more |-> 20, much_more |-> 22, real_time |-> 23],
         window_svr    |-> server,
         file_svr      |-> server,
         supervisor    |-> server,
         real_time_svr |-> [much_less |-> 26, less |-> 27, normal |-> 28, more |-> 29, much_more |-> 30, real_time |-> 31]]

CalculateThreadPriority(pp, tp) ==
    IF tp \in AbsolutePriority THEN AbsoluteLevel[tp] ELSE RelativeLevel[pp][tp]

(***************************************************************************)
(* A queue of waiting threads: its elements and the one at the front.  The *)
(* order inside the std heap is unspecified for equal priorities, so an    *)
(* operation that rebuilds the heap may leave any thread of maximal        *)
(* priority in front.  The heap compares the priorities the threads had    *)
(* when it was last rebuilt: an operation that changes a waiter's priority *)
(* without resorting leaves a stale front.                                 *)
(***************************************************************************)
EmptyHeap(nil) == [elems |-> {}, top |-> nil]

Foremost(S, pri, nil) ==
    IF S = {} THEN {nil} ELSE {t \in S : \A u \in S : pri[u] <= pri[t]}

\* Faulty variant: the newcomer always goes in front.
HeapPushInFront(h, t, pri) == [elems |-> h.elems \cup {t}, top |-> t]

HeapPush(h, t, pri) ==
    [elems |-> h.elems \cup {t},
     top   |-> IF h.elems = {} THEN t ELSE IF pri[h.top] < pri[t] THEN t ELSE h.top]

\* Faulty variant: the front is used but not popped.
HeapPopForgotten(h, pri, nil) == {h}

HeapPops(h, pri, nil) ==
    LET rest == h.elems \ {h.top}
    IN  {[elems |-> rest, top |-> u] : u \in Foremost(rest, pri, nil)}

HeapRemoves(h, t, pri, nil) ==
    LET rest == h.elems \ {t}
    IN  {[elems |-> rest, top |-> u] : u \in Foremost(rest, pri, nil)}

\* Faulty variant: the queue keeps its order.
HeapResortForgotten(h, pri, nil) == {h}

HeapResorts(h, pri, nil) ==
    {[elems |-> h.elems, top |-> u] : u \in Foremost(h.elems, pri, nil)}
=============================================================================
