--------------------------------- MODULE Ipc --------------------------------
(***************************************************************************)
(* Client/server messages: the kernel's table of messages (kernel.cpp),    *)
(* session.cpp, server.cpp and the supervisor calls around them, and for a *)
(* server the emulator implements itself (hle) the dispatch in context.cpp *)
(* and framework.cpp.  The server is either kind, as it was constructed.   *)
(*                                                                         *)
(* A request is the number of the call that sent it; it stands for the     *)
(* function, the arguments, the client's thread and its request_sts, which *)
(* travel together.  A message is a slot of the kernel's table.            *)
(*                                                                         *)
(* External: the clients and the server program.  A client waits for its   *)
(* synchronous call before it makes another, gives each synchronous call a *)
(* status (without one the code only logs and sends it all the same), and  *)
(* closes a session no queued message names; the server program has at most*)
(* one receive outstanding and completes each message it was given once.   *)
(***************************************************************************)
EXTENDS Integers, Sequences, FiniteSets

CONSTANTS Client, Session,
          Uses,              \* the sessions each client has a handle to
          SyncSlot,          \* the message of each client's thread: sync_msg
          ProcessSlot,       \* the server's process_msg
          AsyncSlots,        \* async_slot_count of each session
          SlotLimit,         \* size of msgs_, 0x1000 in the code
          MaxRequests,       \* bound: requests sent
          MaxCloses          \* bound: receives cancelled and sessions closed

Slot == 0..(SlotLimit - 1)
Request == 1..MaxRequests
Locked == {SyncSlot[c] : c \in Client} \cup {ProcessSlot}      \* lock_free was called
Kind == {"sync", "async", "blind"}

ASSUME IpcAssumption ==
    /\ SyncSlot \in [Client -> Slot] /\ ProcessSlot \in Slot
    /\ \A c, d \in Client : SyncSlot[c] = SyncSlot[d] => c = d
    /\ \A c \in Client : SyncSlot[c] # ProcessSlot
    /\ Uses \in [Client -> SUBSET Session]
    /\ AsyncSlots \in [Session -> Nat] /\ SlotLimit \in Nat /\ MaxRequests \in Nat
    /\ MaxCloses \in Nat

VARIABLES hle,           \* the server is implemented by the emulator
          used,          \* slots that are not free
          carries,       \* the request in each slot, 0 at first
          open,          \* sessions that exist
          pooled,        \* the messages of each session's pool
          poolFree,      \* those whose flag in the pool is set
          delivered,     \* delivered_msgs
          receiving,     \* request_msg while a receive is outstanding, as a set
          held,          \* messages the server program has and has not completed
          deferred,      \* requests an emulated server answers later
          origin,        \* client, session and kind of each request: the client
                         \* waits for it (sync), or wants no answer (blind)
          refused,       \* requests send_receive had no message for
          dropped,       \* requests for which an emulated server has no handler
          answers,       \* how often each request's status was written
          done,          \* requests a server has completed
          closes

ipcVars == <<hle, used, carries, open, pooled, poolFree, delivered, receiving, held,
             deferred, origin, refused, dropped, answers, done, closes>>

\* The messages of the threads and of the server are made with them.
IpcInit ==
    /\ hle \in BOOLEAN
    /\ used = Locked /\ carries = [m \in Slot |-> 0]
    /\ open = {} /\ pooled = [s \in Session |-> {}] /\ poolFree = pooled
    /\ delivered = <<>> /\ receiving = {} /\ held = {} /\ deferred = {}
    /\ origin = <<>> /\ refused = {} /\ dropped = {} /\ done = {}
    /\ answers = [r \in Request |-> 0]
    /\ closes = 0

ClientOf(r) == origin[r][1]
SessionOf(r) == origin[r][2]
------------------------------------------------------------------------------
\* What n calls of create_msg return: the first n free slots, or all of them when
\* fewer are left and the other calls return null.
FirstFree(n) ==
    {S \in SUBSET (Slot \ used) :
        /\ Cardinality(S) = n \/ (S = Slot \ used /\ Cardinality(S) < n)
        /\ \A m \in S, k \in (Slot \ used) \ S : m < k}

\* session_create: the session's constructor takes its pool at once.
OpenSession(s) ==
    /\ s \notin open
    /\ open' = open \cup {s}
    /\ \E S \in FirstFree(AsyncSlots[s]) :
        /\ used' = used \cup S
        /\ pooled' = [pooled EXCEPT ![s] = S] /\ poolFree' = [poolFree EXCEPT ![s] = S]
    /\ UNCHANGED <<hle, carries, delivered, receiving, held, deferred, origin, refused, dropped,
                   answers, done, closes>>

\* The last handle of the session is closed.  Its pool is not given back:
\* prepare_destroy has no caller.  That no delivered message names the session is
\* an assumption on the clients: the code does not look.
CloseSession(s) ==
    /\ s \in open /\ closes < MaxCloses
    /\ \A i \in DOMAIN delivered : SessionOf(carries[delivered[i]]) # s
    /\ open' = open \ {s} /\ closes' = closes + 1
    /\ UNCHANGED <<hle, used, carries, pooled, poolFree, delivered, receiving, held, deferred,
                   origin, refused, dropped, answers, done>>
------------------------------------------------------------------------------
\* Faulty: free_msg frees locked messages too.
SetSlotFreeLocked(s, m, u, p) ==
    IF AsyncSlots[s] = 0
    THEN used' = u \ {m} /\ poolFree' = p
    ELSE used' = u /\ poolFree' = [p EXCEPT ![s] = @ \cup ({m} \cap pooled[s])]

\* session::set_slot_free of message m of session s, when u are the used slots and p
\* the free ones of the pools: free_msg, which spares locked messages, or the flag.
SetSlotFree(s, m, u, p) ==
    IF AsyncSlots[s] = 0
    THEN used' = u \ ({m} \ Locked) /\ poolFree' = p
    ELSE used' = u /\ poolFree' = [p EXCEPT ![s] = @ \cup ({m} \cap pooled[s])]

\* The status of request r is written and its thread signalled, unless the client
\* gave none.
Answer(r, kind) ==
    /\ answers' = [answers EXCEPT ![r] = IF kind = "blind" THEN @ ELSE @ + 1]
    /\ done' = done \cup {r}

\* Faulty: the handler keeps a request it has also completed.
ProcessKeeps(s, m, r, kind, u, p) ==
    /\ carries' = [carries EXCEPT ![m] = r, ![ProcessSlot] = r]
    /\ SetSlotFree(s, m, u, p)
    /\ Answer(r, kind) /\ deferred' = deferred \cup {r}
    /\ UNCHANGED <<dropped, delivered, receiving, held>>

\* An emulated server processes the message before the send returns: the handler
\* completes the request, keeps it for later, or there is none for its function.
Process(s, m, r, kind, u, p) ==
    /\ carries' = [carries EXCEPT ![m] = r, ![ProcessSlot] = r]
    /\ SetSlotFree(s, m, u, p)
    /\ \/ Answer(r, kind) /\ UNCHANGED <<deferred, dropped>>
       \/ deferred' = deferred \cup {r} /\ UNCHANGED <<dropped, answers, done>>
       \/ dropped' = dropped \cup {r} /\ UNCHANGED <<deferred, answers, done>>
    /\ UNCHANGED <<delivered, receiving, held>>

\* Faulty: a queued message is given back to its session when it is delivered.
DeliverFrees(s, m, r, u, p) ==
    /\ \/ /\ receiving = {}
          /\ carries' = [carries EXCEPT ![m] = r]
          /\ delivered' = Append(delivered, m)
          /\ SetSlotFree(s, m, u, p)
          /\ UNCHANGED <<held, receiving>>
       \/ \E dest \in receiving :
          /\ carries' = [carries EXCEPT ![m] = r, ![dest] = r]
          /\ SetSlotFree(s, m, u, p)
          /\ held' = held \cup {dest} /\ receiving' = {}
          /\ UNCHANGED delivered
    /\ UNCHANGED <<deferred, dropped, answers, done>>

\* Faulty: a message given to the outstanding receive is queued as well.
DeliverTwice(s, m, r, u, p) ==
    /\ carries' = [k \in Slot |-> IF k \in {m} \cup receiving THEN r ELSE carries[k]]
    /\ delivered' = Append(delivered, m)
    /\ held' = held \cup receiving /\ receiving' = {}
    /\ used' = u /\ poolFree' = p
    /\ UNCHANGED <<deferred, dropped, answers, done>>

\* server::deliver: message m goes to the outstanding receive, or on the queue.
\* Accepting copies the request to dest and gives m back to its session.
Deliver(s, m, r, u, p) ==
    /\ \/ /\ receiving = {}
          /\ carries' = [carries EXCEPT ![m] = r]
          /\ delivered' = Append(delivered, m)
          /\ used' = u /\ poolFree' = p
          /\ UNCHANGED <<held, receiving>>
       \/ \E dest \in receiving :
          /\ carries' = [carries EXCEPT ![m] = r, ![dest] = r]
          /\ SetSlotFree(s, m, u, p)
          /\ held' = held \cup {dest} /\ receiving' = {}
          /\ UNCHANGED delivered
    /\ UNCHANGED <<deferred, dropped, answers, done>>

\* session::send of a new request, and what session_send_general does after it.
SendMessage(c, s, kind, m, u, p) ==
    LET r == Len(origin) + 1
    IN  /\ origin' = Append(origin, <<c, s, kind>>)
        /\ IF hle THEN Process(s, m, r, kind, u, p) ELSE Deliver(s, m, r, u, p)
        /\ UNCHANGED <<hle, open, pooled, refused, closes>>

Waiting(c) ==
    \E r \in 1..Len(origin) : r \notin done /\ ClientOf(r) = c /\ origin[r][3] = "sync"

\* session_send_sync: the message is the one of the calling thread.
SendSync(c, s) ==
    /\ s \in open \cap Uses[c] /\ Len(origin) < MaxRequests /\ ~Waiting(c)
    /\ SendMessage(c, s, "sync", SyncSlot[c], used, poolFree)

\* session_send: the message is the first free one of the session's pool, or a new
\* one when the session has no pool.
Send(c, s, kind) ==
    /\ s \in open \cap Uses[c] /\ Len(origin) < MaxRequests /\ ~Waiting(c)
    /\ IF AsyncSlots[s] = 0
       THEN \E S \in FirstFree(1) : \E m \in S :
                SendMessage(c, s, kind, m, used \cup {m}, poolFree)
       ELSE \E m \in poolFree[s] :
                /\ \A k \in poolFree[s] : m <= k
                /\ SendMessage(c, s, kind, m, used, [poolFree EXCEPT ![s] = @ \ {m}])

\* session_send when there is none: it returns -1 and sends nothing.
SendRefused(c, s, kind) ==
    /\ s \in open \cap Uses[c] /\ Len(origin) < MaxRequests /\ ~Waiting(c)
    /\ IF AsyncSlots[s] = 0 THEN used = Slot ELSE poolFree[s] = {}
    /\ origin' = Append(origin, <<c, s, kind>>)
    /\ refused' = refused \cup {Len(origin) + 1}
    /\ UNCHANGED <<hle, used, carries, open, pooled, poolFree, delivered, receiving, held,
                   deferred, dropped, answers, done, closes>>
------------------------------------------------------------------------------
\* Faulty: the receive waits for a delivery without looking at the queue.
ServerReceiveBlind ==
    /\ ~hle /\ receiving = {}
    /\ \E S \in FirstFree(1) : receiving' = S /\ used' = used \cup S
    /\ UNCHANGED <<hle, carries, open, pooled, poolFree, delivered, held, deferred, origin,
                   refused, dropped, answers, done, closes>>

\* server_receive: a new message for what is received.  The newest queued message
\* is accepted into it, or it waits for the next delivery.  With every slot used the
\* code dereferences the null message: no step.
ServerReceive ==
    /\ ~hle /\ receiving = {}
    /\ \E S \in FirstFree(1) : \E m \in S :
        \/ /\ delivered = <<>>
           /\ receiving' = {m} /\ used' = used \cup {m}
           /\ UNCHANGED <<carries, poolFree, delivered, held>>
        \/ /\ delivered # <<>>
           /\ LET real == delivered[Len(delivered)]
              IN  /\ carries' = [carries EXCEPT ![m] = carries[real]]
                  /\ SetSlotFree(SessionOf(carries[real]), real, used \cup {m}, poolFree)
           /\ delivered' = SubSeq(delivered, 1, Len(delivered) - 1)
           /\ held' = held \cup {m} /\ UNCHANGED receiving
    /\ UNCHANGED <<hle, open, pooled, deferred, origin, refused, dropped, answers, done, closes>>

\* server_cancel of the outstanding receive.  Its message is forgotten, not freed.
ServerCancel ==
    /\ receiving # {} /\ closes < MaxCloses
    /\ receiving' = {} /\ closes' = closes + 1
    /\ UNCHANGED <<hle, used, carries, open, pooled, poolFree, delivered, held, deferred, origin,
                   refused, dropped, answers, done>>

\* message_complete and message_complete_handle.
MessageComplete(m) ==
    /\ m \in held
    /\ Answer(carries[m], origin[carries[m]][3])
    /\ used' = used \ {m} /\ held' = held \ {m}
    /\ UNCHANGED <<hle, carries, open, pooled, poolFree, delivered, receiving, deferred, origin,
                   refused, dropped, closes>>

\* An emulated server completes a request it kept, through the notify_info that
\* holds the thread and the status.
CompleteDeferred(r) ==
    /\ r \in deferred
    /\ Answer(r, origin[r][3])
    /\ deferred' = deferred \ {r}
    /\ UNCHANGED <<hle, used, carries, open, pooled, poolFree, delivered, receiving, held, origin,
                   refused, dropped, closes>>
------------------------------------------------------------------------------
IpcNext ==
    \/ \E s \in Session : OpenSession(s) \/ CloseSession(s)
    \/ \E c \in Client, s \in Session : SendSync(c, s)
    \/ \E c \in Client, s \in Session, kind \in {"async", "blind"} :
            Send(c, s, kind) \/ SendRefused(c, s, kind)
    \/ ServerReceive \/ ServerCancel
    \/ \E m \in Slot : MessageComplete(m)
    \/ \E r \in Request : CompleteDeferred(r)

IpcSpec == IpcInit /\ [][IpcNext]_ipcVars

\* The server program keeps receiving and completes what it receives.
IpcFairSpec ==
    /\ IpcSpec
    /\ WF_ipcVars(ServerReceive)
    /\ \A m \in Slot : WF_ipcVars(MessageComplete(m))
=============================================================================
