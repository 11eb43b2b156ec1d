----------------------------- MODULE EventSource ----------------------------
(***************************************************************************)
(* What a timer promises to the kernel objects that schedule events: each  *)
(* pending event is taken at most once, not before its time, and never     *)
(* after a pending one that is due later; one callback runs at a time; an  *)
(* event can be unscheduled until it is taken.                             *)
(***************************************************************************)
EXTENDS Naturals, Bags

CONSTANTS Key, None

VARIABLES pending,   \* the bag of events scheduled and not taken
          running,   \* the event whose callback runs, or None
          clock      \* the time, kept by others

sourceVars == <<pending, running>>

Event == [key : Key, time : Nat]

Init == pending = EmptyBag /\ running = None

Schedule(e) ==
    /\ e.time >= clock
    /\ pending' = pending (+) SetToBag({e})
    /\ UNCHANGED running

Unschedule(e) ==
    /\ BagIn(e, pending)
    /\ pending' = pending (-) SetToBag({e})
    /\ UNCHANGED running

Take(e) ==
    /\ running = None
    /\ BagIn(e, pending) /\ e.time <= clock
    /\ \A f \in BagToSet(pending) : e.time <= f.time
    /\ pending' = pending (-) SetToBag({e})
    /\ running' = e

Finish == running # None /\ running' = None /\ UNCHANGED pending

Next ==
    \/ \E e \in BagToSet(pending) : Unschedule(e) \/ Take(e)
    \/ \E e \in BagToSet(pending') : Schedule(e)
    \/ Finish

Spec == Init /\ [][Next]_sourceVars
=============================================================================
