--------------------------- MODULE MCHandleTable ----------------------------
(* A small instance of HandleTable for TLC: two threads of one process. *)
EXTENDS HandleTableProperties, TLC

CONSTANTS t1, t2, p1

OneOwner == [t \in {t1, t2} |-> p1]
\* The process is about to make its 8192nd handle.
NearTheLimit == [tab \in {t1, t2, p1, Kernel} |-> IF tab = p1 THEN 8190 ELSE 0]
FewOpens == [tab \in {t1, t2, p1, Kernel} |-> IF tab = p1 THEN 3 ELSE 1]
=============================================================================
