---------------------------- MODULE IpcProperties ---------------------------
(***************************************************************************)
(* What the messages of Ipc must guarantee.                                *)
(***************************************************************************)
EXTENDS Ipc

\* Type correctness of the state of sessions, servers and messages.
IpcTypeOK ==
    /\ hle \in BOOLEAN /\ used \subseteq Slot /\ open \subseteq Session
    /\ carries \in [Slot -> 0..MaxRequests]
    /\ pooled \in [Session -> SUBSET Slot] /\ poolFree \in [Session -> SUBSET Slot]
    /\ delivered \in Seq(Slot) /\ receiving \subseteq Slot /\ held \subseteq Slot
    /\ origin \in Seq(Client \X Session \X Kind) /\ Len(origin) <= MaxRequests
    /\ deferred \subseteq Request /\ refused \subseteq Request /\ dropped \subseteq Request
    /\ answers \in [Request -> Nat] /\ done \subseteq Request /\ closes \in Nat

Queued == {delivered[i] : i \in DOMAIN delivered}
Pool == UNION {pooled[s] : s \in open}

\* create_msg never hands out a message that is still in use, although accepting,
\* completing and refusing all free messages on their own: a message the server
\* program holds, or the one its receive waits with, is marked used, is not queued, and
\* belongs to no pool and no thread.
ServerMessagesApart ==
    /\ held \cap receiving = {}
    /\ (held \cup receiving) \subseteq used \ (Queued \cup Pool \cup Locked)

\* A message waiting in the queue stays its sender's until server.cpp's accept: it is
\* there once, marked used, offered by no pool, and a thread's, in the pool of the
\* session it names, or made for it.
QueueIntact ==
    /\ \A i, j \in DOMAIN delivered : delivered[i] = delivered[j] => i = j
    /\ \A m \in Queued :
        /\ m \in used
        /\ \A s \in open : m \notin poolFree[s]
        /\ m \in Locked \/ m \in pooled[SessionOf(carries[m])]
             \/ AsyncSlots[SessionOf(carries[m])] = 0

Carriers(set, r) == {m \in set : carries[m] = r}

InPhase(r, p) ==
    CASE p = "unsent" -> r > Len(origin)
      [] p = "refused" -> r \in refused
      [] p = "waiting" -> Carriers(Queued, r) # {}
      [] p = "taken" -> r \in deferred \/ Carriers(held, r) # {}
      [] p = "done" -> r \in done
      [] p = "dropped" -> r \in dropped

\* Where each request is, read off the messages that carry it: in one place only.
PhaseOf(r) ==
    LET ps == {p \in {"unsent", "refused", "waiting", "taken", "done", "dropped"} : InPhase(r, p)}
    IN  IF Cardinality(ps) = 1 /\ Cardinality(Carriers(held \cup Queued, r)) <= 1
        THEN CHOOSE p \in ps : TRUE ELSE "lost or doubled"

Replies == INSTANCE RequestReply WITH phase <- [r \in Request |-> PhaseOf(r)]

\* Reusing messages loses no request, gives none to the server twice and completes
\* none twice, whatever the sizes of the pools and the order of the calls.
ImplementsRequestReply == Replies!Spec

\* The status of a request is written at most once, and for a completed request that
\* has a status exactly once: a client's wait for its own answer ends with it.
AnsweredOnce ==
    \A r \in Request :
        answers[r] = IF r \in done /\ origin[r][3] # "blind" THEN 1 ELSE 0

\* With a server program that keeps receiving and completing, and finitely many
\* requests, every request sent to it is completed: no wake-up between deliver and
\* receive is lost.  (When every message of the kernel is used, server_receive
\* cannot proceed.)
EveryRequestServed ==
    \A r \in Request : (Carriers(Queued, r) # {}) ~> (r \in done \/ used = Slot)
=============================================================================
