------------------------------- MODULE MsgQueue -----------------------------
(***************************************************************************)
(* A message queue of the emulated kernel (msgqueue.cpp) and its supervisor*)
(* calls.  Messages are numbered in the order they are sent.  The callback *)
(* for emulated services and notify_full have no caller and are left out.  *)
(*                                                                         *)
(* External: a thread has at most one notification outstanding.            *)
(***************************************************************************)
EXTENDS Integers, Sequences

CONSTANTS QueueThread,
          MaxLength,        \* max_length_, 1..256 in message_queue_create
          MaxMessages,      \* bound: messages sent
          MaxNotifies       \* bound: notifications asked for

ASSUME MsgQueueAssumption == MaxLength \in Nat \ {0} /\ MaxMessages \in Nat /\ MaxNotifies \in Nat

VARIABLES msgs,             \* msgs_
          messages,         \* messages sent so far
          received,         \* the messages receive returned
          avail_notifies,   \* entries: the thread and the notification whose status is
                            \* still to be written, 0 when it was
          notifies,         \* notifications asked for so far
          told              \* how often each was completed; refused ones have none

msgQueueVars == <<msgs, messages, received, avail_notifies, notifies, told>>

MsgQueueInit ==
    /\ msgs = <<>> /\ messages = 0 /\ received = <<>>
    /\ avail_notifies = <<>> /\ notifies = 0 /\ told = [n \in 1..MaxNotifies |-> 0]

Registered(t) == {i \in DOMAIN avail_notifies : avail_notifies[i].thread = t}
Entries == {avail_notifies[i] : i \in DOMAIN avail_notifies}

------------------------------------------------------------------------------
\* notify_info::complete of every entry: they stay, with their status cleared.
CompleteAll ==
    /\ told' = [n \in 1..MaxNotifies |->
            IF \E e \in Entries : e.pending = n THEN told[n] + 1 ELSE told[n]]
    /\ avail_notifies' = [i \in DOMAIN avail_notifies |->
            [avail_notifies[i] EXCEPT !.pending = 0]]

\* Faulty: the test for an empty queue comes after the push.
SendTellsLate ==
    /\ messages < MaxMessages /\ Len(msgs) < MaxLength
    /\ messages' = messages + 1
    /\ msgs' = Append(msgs, messages + 1)
    /\ UNCHANGED <<avail_notifies, told, received, notifies>>

\* message_queue_send, refused when the queue is full: the first message tells
\* those who wait for data.
MessageQueueSend ==
    /\ messages < MaxMessages /\ Len(msgs) < MaxLength
    /\ messages' = messages + 1
    /\ msgs' = Append(msgs, messages + 1)
    /\ IF msgs = <<>> THEN CompleteAll ELSE UNCHANGED <<avail_notifies, told>>
    /\ UNCHANGED <<received, notifies>>

\* message_queue_receive, refused when the queue is empty
MessageQueueReceive ==
    /\ msgs # <<>>
    /\ received' = Append(received, Head(msgs)) /\ msgs' = Tail(msgs)
    /\ UNCHANGED <<messages, avail_notifies, notifies, told>>

\* message_queue_notify_data_available: completed at once when there is data, else
\* registered, and refused when the thread has an entry already, even a completed one.
MessageQueueNotifyDataAvailable(t) ==
    /\ notifies < MaxNotifies /\ notifies' = notifies + 1
    /\ \A e \in Entries : e.thread = t => e.pending = 0
    /\ \/ /\ msgs # <<>>
          /\ told' = [told EXCEPT ![notifies + 1] = 1] /\ UNCHANGED avail_notifies
       \/ /\ msgs = <<>> /\ Registered(t) = {}
          /\ avail_notifies' = Append(avail_notifies, [thread |-> t, pending |-> notifies + 1])
          /\ UNCHANGED told
       \/ /\ msgs = <<>> /\ Registered(t) # {}
          /\ UNCHANGED <<avail_notifies, told>>
    /\ UNCHANGED <<msgs, messages, received>>

\* message_queue_cancel_notify_available completes and forgets the first entry of the
\* thread.
MessageQueueCancelNotifyAvailable(t) ==
    /\ \E i \in Registered(t) :
        /\ \A j \in Registered(t) : i <= j
        /\ told' = [n \in 1..MaxNotifies |->
                IF avail_notifies[i].pending = n THEN told[n] + 1 ELSE told[n]]
        /\ avail_notifies' = [j \in 1..(Len(avail_notifies) - 1) |->
                avail_notifies[IF j < i THEN j ELSE j + 1]]
    /\ UNCHANGED <<msgs, messages, received, notifies>>

MsgQueueNext ==
    \/ MessageQueueSend \/ MessageQueueReceive
    \/ \E t \in QueueThread : \/ MessageQueueNotifyDataAvailable(t)
                              \/ MessageQueueCancelNotifyAvailable(t)

MsgQueueSpec == MsgQueueInit /\ [][MsgQueueNext]_msgQueueVars
------------------------------------------------------------------------------
\* Nobody waits for data that is there: between registering, sending, receiving and
\* cancelling there is no order in which a thread is left waiting beside a
\* message, and none is told twice of the same request.
NobodyWaitsBesideData ==
    /\ msgs # <<>> => \A e \in Entries : e.pending = 0
    /\ \A n \in 1..notifies : told[n] + (IF \E e \in Entries : e.pending = n THEN 1 ELSE 0) <= 1
=============================================================================
