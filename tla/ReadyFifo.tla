----------------------------- MODULE ReadyFifo ------------------------------
(***************************************************************************)
(* What the ready queue promises: one first-in-first-out queue of threads  *)
(* per priority level, whose front thread may be moved to the back.        *)
(***************************************************************************)
EXTENDS Naturals, Sequences

CONSTANTS Thread, Level

VARIABLE queue    \* queue[p]: the ready threads of level p, in order

In(t, p) == \E i \in DOMAIN queue[p] : queue[p][i] = t

Without(s, t) ==
    LET i == CHOOSE i \in DOMAIN s : s[i] = t IN SubSeq(s, 1, i - 1) \o SubSeq(s, i + 1, Len(s))

\* No thread is queued twice.
Init ==
    /\ queue \in [Level -> Seq(Thread)]
    /\ \A p, r \in Level : \A i \in DOMAIN queue[p], j \in DOMAIN queue[r] :
          queue[p][i] = queue[r][j] => p = r /\ i = j

\* A thread becomes ready: it goes to the back of its level.
Enter(t, p) ==
    /\ \A r \in Level : ~In(t, r)
    /\ queue' = [queue EXCEPT ![p] = Append(@, t)]

\* A thread blocks, is suspended or dies: the others keep their order.
Leave(t, p) == In(t, p) /\ queue' = [queue EXCEPT ![p] = Without(@, t)]

\* A ready thread's priority changes: it goes to the back of its new level.
Move(t, p, r) ==
    /\ In(t, p)
    /\ queue' = [[queue EXCEPT ![p] = Without(@, t)] EXCEPT ![r] = Append(@, t)]

\* The front thread's slice is over.
Rotate(p) == queue[p] # <<>> /\ queue' = [queue EXCEPT ![p] = Append(Tail(@), Head(@))]

Next ==
    \/ \E t \in Thread, p \in Level : Enter(t, p) \/ Leave(t, p) \/ \E r \in Level : Move(t, p, r)
    \/ \E p \in Level : Rotate(p)

Spec == Init /\ [][Next]_queue
=============================================================================
