----------------------------- MODULE RequestReply ---------------------------
(***************************************************************************)
(* What client/server messaging promises each request: it is sent or       *)
(* refused; a request that was sent is taken by the server once and        *)
(* completed once, and until then it is not forgotten.                     *)
(***************************************************************************)
CONSTANT Request

VARIABLE phase

replyVars == <<phase>>

Phase == {"unsent", "refused", "waiting", "taken", "done", "dropped"}

Init == phase = [r \in Request |-> "unsent"]

\* One step may send a request and have it taken, or even completed.
Step == {<<"unsent", "refused">>, <<"unsent", "waiting">>, <<"unsent", "taken">>,
         <<"unsent", "done">>, <<"unsent", "dropped">>, <<"waiting", "taken">>,
         <<"taken", "done">>}

Next == \E r \in Request, q \in Phase :
            /\ <<phase[r], q>> \in Step
            /\ phase' = [phase EXCEPT ![r] = q]

Spec == Init /\ [][Next]_replyVars
=============================================================================
