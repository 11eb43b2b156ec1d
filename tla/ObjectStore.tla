----------------------------- MODULE ObjectStore ----------------------------
(***************************************************************************)
(* What handles promise about the objects behind them: an object lives     *)
(* from its creation to the closing of its last handle, a thread or a      *)
(* process for ever, and none comes back to life.                          *)
(***************************************************************************)
EXTENDS Naturals

CONSTANT Object

VARIABLES born,      \* the objects created so far
          live,      \* those that have not been destroyed
          lasting,   \* the threads and processes among them
          refs       \* how many handles each has

storeVars == <<born, live, lasting, refs>>

Init == born = {} /\ live = {} /\ lasting = {} /\ refs = [o \in Object |-> 0]

Create(o) ==
    /\ o \notin born
    /\ born' = born \cup {o} /\ live' = live \cup {o}
    /\ lasting' \in {lasting, lasting \cup {o}}
    /\ refs' \in {refs, [refs EXCEPT ![o] = 1]}

Open(o) == o \in live /\ refs' = [refs EXCEPT ![o] = @ + 1] /\ UNCHANGED <<born, live, lasting>>

Close(o) ==
    /\ refs[o] > 0 /\ refs' = [refs EXCEPT ![o] = @ - 1]
    /\ live' = IF refs[o] = 1 /\ o \notin lasting THEN live \ {o} ELSE live
    /\ UNCHANGED <<born, lasting>>

Next == \E o \in Object : Create(o) \/ Open(o) \/ Close(o)

Spec == Init /\ [][Next]_storeVars
=============================================================================
