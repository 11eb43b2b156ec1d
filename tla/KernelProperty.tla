---------------------------- MODULE KernelProperty --------------------------
(***************************************************************************)
(* A property of the emulated kernel (property.cpp), the references through*)
(* which programs reach it, and the supervisor calls on them.              *)
(*                                                                         *)
(* The property queues pointers to the notify_info of each reference, so   *)
(* that an entry of the queue is a reference.  Values stand for integers;  *)
(* the bytes of one are the value itself.                                  *)
(*                                                                         *)
(* External: a program subscribes again only when its last subscription    *)
(* was completed, and neither closes a reference with a subscription that  *)
(* is pending nor deletes a property it has references to.                 *)
(***************************************************************************)
EXTENDS Integers, Sequences

CONSTANTS Ref,              \* property references
          Value,
          MaxSubscriptions  \* bound: subscriptions made

Subscription == 1..MaxSubscriptions
NoStatus == 0                           \* notify_info::empty

ASSUME PropertyAssumption == MaxSubscriptions \in Nat /\ Value # {}

VARIABLES data_type,            \* "unk" until the property is defined
          ndata, bindata,       \* the integer, uninitialized at first; the bytes
          subscription_queue,
          attached,             \* the references that exist
          nof,                  \* the subscription in each reference's notify_info
          subscribed,           \* subscriptions 1..subscribed were made
          outcomes,             \* the codes each was completed with, in order
          freed_used            \* an entry of a reference that was closed was used

propertyVars == <<data_type, ndata, bindata, subscription_queue, attached, nof, subscribed,
                  outcomes, freed_used>>

PropertyInit ==
    /\ data_type = "unk" /\ ndata \in Value /\ bindata = ndata
    /\ subscription_queue = <<>> /\ attached = {} /\ nof = [r \in Ref |-> NoStatus]
    /\ subscribed = 0 /\ outcomes = [n \in Subscription |-> <<>>]
    /\ freed_used = FALSE

dataVars == <<data_type, ndata, bindata>>
subscriptionVars == <<subscription_queue, nof, outcomes, freed_used>>

------------------------------------------------------------------------------
\* Faulty: the status is not cleared.
CompleteInfoKeeps(rs, code) ==
    /\ outcomes' = [n \in Subscription |->
            IF \E r \in rs : nof[r] = n THEN Append(outcomes[n], code) ELSE outcomes[n]]
    /\ UNCHANGED nof

\* notify_info::complete of the references rs: a status that is set is written and
\* cleared, and its thread signalled; an empty one is left alone.
CompleteInfo(rs, code) ==
    /\ outcomes' = [n \in Subscription |->
            IF \E r \in rs : nof[r] = n THEN Append(outcomes[n], code) ELSE outcomes[n]]
    /\ nof' = [r \in Ref |-> IF r \in rs THEN NoStatus ELSE nof[r]]

Subscribers == {subscription_queue[i] : i \in DOMAIN subscription_queue}

\* Faulty: only the oldest subscription is notified.
NotifyFirst ==
    /\ freed_used' = ~(Subscribers \subseteq attached)
    /\ subscription_queue' = IF subscription_queue = <<>> THEN <<>> ELSE Tail(subscription_queue)
    /\ CompleteInfo({subscription_queue[i] : i \in DOMAIN subscription_queue \cap {1}}, "none")

\* property::notify_request pops and completes every entry of the queue, also those
\* of references that are closed by now.
NotifyRequest ==
    /\ freed_used' = ~(Subscribers \subseteq attached)
    /\ subscription_queue' = <<>> /\ CompleteInfo(Subscribers, "none")

------------------------------------------------------------------------------
\* property_attach creates the property when there is none.
PropertyAttach(r) ==
    /\ r \notin attached \cup Subscribers /\ attached' = attached \cup {r}
    /\ UNCHANGED <<dataVars, subscriptionVars, subscribed>>

\* handle_close of a reference; an entry a cancel left in the queue stays there.
PropertyClose(r) ==
    /\ r \in attached /\ nof[r] = NoStatus /\ attached' = attached \ {r}
    /\ UNCHANGED <<dataVars, subscriptionVars, subscribed>>

\* property_define: the data is kept, the type may change.
PropertyDefine(type) ==
    /\ data_type' = type
    /\ UNCHANGED <<ndata, bindata, subscriptionVars, attached, subscribed>>

\* property_delete: the next attach or define makes a new, undefined property.
PropertyDelete ==
    /\ attached = {}
    /\ data_type' = "unk" /\ subscription_queue' = <<>>
    /\ \E v \in Value : ndata' = v /\ bindata' = v
    /\ UNCHANGED <<nof, outcomes, freed_used, attached, subscribed>>

\* property_subscribe
PropertySubscribe(r) ==
    /\ r \in attached /\ nof[r] = NoStatus /\ subscribed < MaxSubscriptions
    /\ subscribed' = subscribed + 1
    /\ nof' = [nof EXCEPT ![r] = subscribed + 1]
    /\ subscription_queue' = Append(subscription_queue, r)
    /\ UNCHANGED <<dataVars, attached, outcomes, freed_used>>

\* property_cancel completes the subscription and leaves its entry in the queue.
PropertyCancel(r) ==
    /\ r \in attached \cap Subscribers
    /\ CompleteInfo({r}, "cancel")
    /\ UNCHANGED <<dataVars, subscription_queue, freed_used, attached, subscribed>>

\* property_set_int, refused unless the property is defined as an integer
PropertySetInt(v) ==
    /\ attached # {} /\ data_type = "int"
    /\ ndata' = v
    /\ NotifyRequest
    /\ UNCHANGED <<data_type, bindata, attached, subscribed>>

\* property_set_bin, property_find_set_bin, and property_find_set_int, which calls the
\* template property::set and so sets the bytes of a property of either type.
PropertySet(v) ==
    /\ data_type # "unk"
    /\ bindata' = v
    /\ NotifyRequest
    /\ UNCHANGED <<data_type, ndata, attached, subscribed>>

PropertyNext ==
    /\ ~freed_used
    /\ \/ \E r \in Ref : \/ PropertyAttach(r) \/ PropertyClose(r)
                         \/ PropertySubscribe(r) \/ PropertyCancel(r)
       \/ \E type \in {"int", "bin"} : PropertyDefine(type)
       \/ PropertyDelete
       \/ \E v \in Value : PropertySetInt(v) \/ PropertySet(v)

PropertySpec == PropertyInit /\ [][PropertyNext]_propertyVars
------------------------------------------------------------------------------
\* A subscription is completed once: by the next change, whichever call makes it
\* and whatever cancels and renewals left in the queue, or by its cancel.
SubscribedOnce ==
    \A n \in 1..subscribed :
        Len(outcomes[n]) = IF \E r \in attached : nof[r] = n THEN 0 ELSE 1

\* A change completes every subscription that is waiting: an entry that a cancel left
\* behind never stands in for a later one, and none is overlooked.
ChangeTellsAll ==
    [][ndata' # ndata \/ bindata' # bindata => \A r \in attached : nof'[r] = NoStatus]_propertyVars
=============================================================================
