----------------------------- MODULE LockService ----------------------------
(***************************************************************************)
(* What a mutex promises: one owner at a time; a thread that asks for it   *)
(* while it is owned waits; the owner hands it to a waiter if there is one *)
(* and frees it only if there is none.                                     *)
(***************************************************************************)
CONSTANTS Thread, Nil

VARIABLES owner, waiting

Init == owner = Nil /\ waiting = {}

Acquire(t) == owner = Nil /\ waiting = {} /\ owner' = t /\ UNCHANGED waiting

Ask(t) == owner \notin {Nil, t} /\ t \notin waiting /\ waiting' = waiting \cup {t} /\ UNCHANGED owner

HandOver(t) == t \in waiting /\ owner' = t /\ waiting' = waiting \ {t}

Free == owner # Nil /\ waiting = {} /\ owner' = Nil /\ UNCHANGED waiting

Next == Free \/ \E t \in Thread : Acquire(t) \/ Ask(t) \/ HandOver(t)

Spec == Init /\ [][Next]_<<owner, waiting>>
=============================================================================
