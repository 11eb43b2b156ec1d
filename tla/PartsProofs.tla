----------------------------- MODULE PartsProofs ----------------------------
(***************************************************************************)
(* Properties, message queues, chunks of memory, the driver's command      *)
(* queue, the order and the focus of window groups and the redraws of a    *)
(* client's windows, each by itself, for any number of references,         *)
(* threads, messages, pages, senders, groups, clients and windows.         *)
(***************************************************************************)
EXTENDS KernelProperty, MsgQueue, MemChunk, DriverQueue, WindowGroups, WindowRedraw, SequenceFacts, FiniteSetTheorems, TLAPS

(***************************************************************************)
(* Properties.  SubscribedOnce is inductive only with the knowledge of     *)
(* where a pending subscription is: in one reference, which is open and in *)
(* the queue, so that the next change or its cancel reaches it.            *)
(***************************************************************************)
Code == {"none", "cancel"}

PropertyType ==
    /\ subscribed \in 0..MaxSubscriptions /\ nof \in [Ref -> 0..subscribed]
    /\ attached \in SUBSET Ref /\ subscription_queue \in Seq(Ref)
    /\ outcomes \in [Subscription -> Seq(Code)]
    /\ \A n \in Subscription : n > subscribed => outcomes[n] = <<>>

PendingQueued ==
    /\ \A r \in Ref : nof[r] # NoStatus => r \in attached /\ r \in Subscribers
    /\ \A r, s \in Ref : nof[r] = nof[s] /\ nof[r] # NoStatus => r = s

PropertyInv == PropertyType /\ PendingQueued /\ SubscribedOnce

\* notify_info::complete of a set of references writes each status that is set once.
LEMMA CompletedInfo ==
    ASSUME PropertyInv, NEW rs \in SUBSET Ref, NEW code \in Code, CompleteInfo(rs, code),
           UNCHANGED <<attached, subscribed>>, subscription_queue' \in Seq(Ref),
           \A r \in Ref : r \in Subscribers /\ r \notin rs => r \in Subscribers'
    PROVE  PropertyInv'
<1>1. /\ nof' \in [Ref -> 0..subscribed] /\ \A r \in Ref : nof'[r] = IF r \in rs THEN NoStatus ELSE nof[r]
  BY DEF CompleteInfo, PropertyInv, PropertyType, NoStatus
<1>2. /\ outcomes' \in [Subscription -> Seq(Code)]
      /\ \A n \in Subscription : outcomes'[n] = IF \E r \in rs : nof[r] = n THEN Append(outcomes[n], code) ELSE outcomes[n]
  BY DEF CompleteInfo, PropertyInv, PropertyType
<1>3. \A n \in 1..subscribed : n \in Subscription /\ n # NoStatus
  BY PropertyAssumption DEF PropertyInv, PropertyType, Subscription, NoStatus
<1>4. PropertyType'
  <2>1. \A n \in Subscription : n > subscribed => \A r \in rs : nof[r] # n
    BY DEF PropertyInv, PropertyType, Subscription
  <2>. QED BY <1>1, <1>2, <2>1 DEF PropertyInv, PropertyType
<1>5. PendingQueued'
  BY <1>1 DEF PropertyInv, PendingQueued
<1>6. ASSUME NEW n \in 1..subscribed
      PROVE  Len(outcomes'[n]) = IF \E r \in attached : nof'[r] = n THEN 0 ELSE 1
  <2>1. Len(outcomes[n]) = IF \E r \in attached : nof[r] = n THEN 0 ELSE 1
    BY DEF PropertyInv, SubscribedOnce
  <2>2. attached \subseteq Ref /\ outcomes[n] \in Seq(Code)
    BY <1>3 DEF PropertyInv, PropertyType
  <2>3. CASE \E r \in rs : nof[r] = n
    <3>1. PICK r \in rs : nof[r] = n
      BY <2>3
    <3>2. r \in attached /\ \A s \in Ref : nof[s] = n => s = r
      BY <1>3, <3>1 DEF PropertyInv, PendingQueued
    <3>3. Len(outcomes'[n]) = 1
      <4>1. outcomes'[n] = Append(outcomes[n], code)
        BY <1>2, <1>3, <2>3
      <4>2. Len(outcomes[n]) = 0
        BY <2>1, <3>1, <3>2
      <4>. QED BY <2>2, <4>1, <4>2
    <3>4. \A s \in attached : nof'[s] # n
      BY <1>1, <1>3, <2>2, <3>1, <3>2
    <3>. QED BY <3>3, <3>4
  <2>4. CASE ~\E r \in rs : nof[r] = n
    <3>1. outcomes'[n] = outcomes[n]
      BY <1>2, <1>3, <2>4
    <3>2. \A r \in attached : nof'[r] = n <=> nof[r] = n
      BY <1>1, <1>3, <2>2, <2>4
    <3>. QED BY <2>1, <3>1, <3>2
  <2>. QED BY <2>3, <2>4
<1>7. SubscribedOnce'
  BY <1>6 DEF SubscribedOnce
<1>. QED BY <1>4, <1>5, <1>7 DEF PropertyInv

\* After a change no reference has a subscription that is pending.
LEMMA ChangeInv ==
    ASSUME PropertyInv, NotifyRequest, UNCHANGED <<attached, subscribed>>
    PROVE  PropertyInv' /\ \A r \in Ref : nof'[r] = NoStatus
<1>1. Subscribers \in SUBSET Ref
  BY DEF PropertyInv, PropertyType, Subscribers
<1>2. subscription_queue' \in Seq(Ref) /\ CompleteInfo(Subscribers, "none") /\ "none" \in Code
  BY DEF NotifyRequest, Code
<1>3. PropertyInv'
  BY <1>1, <1>2, CompletedInfo
<1>4. \A r \in Ref : nof'[r] = NoStatus
  BY <1>2 DEF CompleteInfo, PropertyInv, PendingQueued
<1>. QED BY <1>3, <1>4

LEMMA SubscribeInv == ASSUME PropertyInv, NEW r \in Ref, PropertySubscribe(r) PROVE PropertyInv'
<1>1. PICK k : k = subscribed + 1
  OBVIOUS
<1>2. /\ r \in attached /\ nof[r] = NoStatus /\ subscribed < MaxSubscriptions /\ subscribed' = k
      /\ nof' = [nof EXCEPT ![r] = k] /\ subscription_queue' = Append(subscription_queue, r)
      /\ UNCHANGED <<attached, outcomes>>
  BY <1>1 DEF PropertySubscribe
<1>3. /\ subscribed \in Nat /\ k \in Subscription /\ subscribed' \in 0..MaxSubscriptions /\ k # NoStatus
      /\ \A n \in 1..subscribed' : n = k \/ n \in 1..subscribed
  BY <1>1, <1>2, PropertyAssumption DEF PropertyInv, PropertyType, Subscription, NoStatus
<1>4. /\ nof' \in [Ref -> 0..subscribed'] /\ \A s \in Ref : nof[s] # k
      /\ \A s \in Ref : nof'[s] = IF s = r THEN k ELSE nof[s]
  <2>1. /\ k \in 0..subscribed' /\ k \notin 0..subscribed /\ \A n \in 0..subscribed : n \in 0..subscribed'
    BY <1>1, <1>2, <1>3
  <2>. QED BY <1>2, <2>1 DEF PropertyInv, PropertyType
<1>5. subscription_queue' \in Seq(Ref) /\ r \in Subscribers' /\ \A s \in Subscribers : s \in Subscribers'
  <2>1. subscription_queue \in Seq(Ref)
    BY DEF PropertyInv, PropertyType
  <2>2. PICK L \in Nat : L = Len(subscription_queue) /\ DOMAIN subscription_queue = 1..L
    BY <2>1
  <2>3. /\ subscription_queue' \in Seq(Ref) /\ DOMAIN subscription_queue' = 1..(L + 1)
        /\ subscription_queue'[L + 1] = r /\ \A i \in 1..L : subscription_queue'[i] = subscription_queue[i]
    BY <1>2, <2>1, <2>2
  <2>4. L + 1 \in 1..(L + 1) /\ \A i \in 1..L : i \in 1..(L + 1)
    OBVIOUS
  <2>. QED BY <2>2, <2>3, <2>4 DEF Subscribers
<1>6. PropertyType'
  <2>1. \A n \in Subscription : n > k => n > subscribed
    BY <1>1, <1>3 DEF Subscription
  <2>2. \A n \in Subscription : n > subscribed' => outcomes'[n] = <<>>
    BY <1>2, <2>1 DEF PropertyInv, PropertyType
  <2>3. outcomes' \in [Subscription -> Seq(Code)] /\ attached' \in SUBSET Ref
    BY <1>2 DEF PropertyInv, PropertyType
  <2>. QED BY <1>3, <1>4, <1>5, <2>2, <2>3 DEF PropertyType
<1>7. PendingQueued'
  BY <1>2, <1>4, <1>5 DEF PropertyInv, PendingQueued
<1>8. SubscribedOnce'
  <2>1. attached \subseteq Ref /\ outcomes[k] = <<>>
    BY <1>1, <1>3 DEF PropertyInv, PropertyType
  <2>2. ASSUME NEW n \in 1..subscribed'
        PROVE  Len(outcomes[n]) = IF \E s \in attached : nof'[s] = n THEN 0 ELSE 1
    <3>1. CASE n = k
      BY <1>2, <1>4, <2>1, <3>1
    <3>2. CASE n \in 1..subscribed
      <4>1. Len(outcomes[n]) = IF \E s \in attached : nof[s] = n THEN 0 ELSE 1
        BY <3>2 DEF PropertyInv, SubscribedOnce
      <4>2. n # k /\ n # NoStatus
        BY <1>1, <1>3, <3>2 DEF NoStatus
      <4>3. \A s \in attached : nof'[s] = n <=> nof[s] = n
        BY <1>2, <1>4, <2>1, <4>2
      <4>. QED BY <4>1, <4>3
    <3>. QED BY <1>3, <3>1, <3>2
  <2>. QED BY <1>2, <2>2 DEF SubscribedOnce
<1>. QED BY <1>6, <1>7, <1>8 DEF PropertyInv

\* References come and go, and the property is redefined, between subscriptions.
LEMMA AttachInv ==
    ASSUME PropertyInv, UNCHANGED <<nof, outcomes, subscribed>>, attached' \in SUBSET Ref,
           subscription_queue' \in Seq(Ref),
           \A r \in Ref : nof[r] # NoStatus => r \in attached' /\ (r \in Subscribers => r \in Subscribers')
    PROVE  PropertyInv'
<1>1. PropertyType' /\ PendingQueued'
  BY DEF PropertyInv, PropertyType, PendingQueued
<1>2. \A n \in 1..subscribed : n # NoStatus
  BY DEF NoStatus
<1>3. \A n \in 1..subscribed : (\E r \in attached' : nof[r] = n) <=> \E r \in attached : nof[r] = n
  BY <1>2 DEF PropertyInv, PropertyType, PendingQueued
<1>4. SubscribedOnce'
  BY <1>3 DEF PropertyInv, SubscribedOnce
<1>. QED BY <1>1, <1>4 DEF PropertyInv

LEMMA PropertyStep == PropertyInv /\ [PropertyNext]_propertyVars => PropertyInv'
<1> SUFFICES ASSUME PropertyInv, [PropertyNext]_propertyVars PROVE PropertyInv'
  OBVIOUS
<1>0. attached \in SUBSET Ref /\ subscription_queue \in Seq(Ref) /\ Subscribers \in SUBSET Ref
      /\ (UNCHANGED subscription_queue => Subscribers' = Subscribers)
  BY DEF PropertyInv, PropertyType, Subscribers
<1>1. ASSUME NEW r \in Ref, PropertyAttach(r) PROVE PropertyInv'
  BY <1>0, <1>1, AttachInv DEF PropertyAttach, subscriptionVars, PropertyInv, PendingQueued
<1>2. ASSUME NEW r \in Ref, PropertyClose(r) PROVE PropertyInv'
  BY <1>0, <1>2, AttachInv DEF PropertyClose, subscriptionVars, PropertyInv, PendingQueued
<1>3. ASSUME NEW r \in Ref, PropertySubscribe(r) PROVE PropertyInv'
  BY <1>3, SubscribeInv
<1>4. ASSUME NEW r \in Ref, PropertyCancel(r) PROVE PropertyInv'
  <2>1. {r} \in SUBSET Ref /\ "cancel" \in Code
    BY DEF Code
  <2>. QED BY <1>0, <1>4, <2>1, CompletedInfo DEF PropertyCancel
<1>5. ASSUME NEW type, PropertyDefine(type) PROVE PropertyInv'
  BY <1>0, <1>5, AttachInv DEF PropertyDefine, subscriptionVars, PropertyInv, PendingQueued
<1>6. CASE PropertyDelete
  BY <1>0, <1>6, AttachInv DEF PropertyDelete, PropertyInv, PendingQueued
<1>7. ASSUME NEW v, PropertySetInt(v) \/ PropertySet(v) PROVE PropertyInv'
  BY <1>7, ChangeInv DEF PropertySetInt, PropertySet
<1>8. CASE UNCHANGED propertyVars
  BY <1>0, <1>8, AttachInv DEF propertyVars, PropertyInv, PendingQueued
<1>. QED BY <1>1, <1>2, <1>3, <1>4, <1>5, <1>6, <1>7, <1>8 DEF PropertyNext

LEMMA PropertyStart == PropertyInit => PropertyInv
  BY PropertyAssumption
     DEF PropertyInit, PropertyInv, PropertyType, PendingQueued, SubscribedOnce, Subscription, NoStatus, Code

\* Every pending subscription is in an open reference that is in the queue.
THEOREM PropertyInvariant == PropertySpec => []PropertyInv
  BY PropertyStart, PropertyStep, PTL DEF PropertySpec

\* A subscription is completed once, by the next change or by its cancel.
THEOREM SubscriptionsOnce == PropertySpec => []SubscribedOnce
<1>1. PropertyInv => SubscribedOnce
  BY DEF PropertyInv
<1>. QED BY <1>1, PropertyInvariant, PTL

\* property::set and set_int leave no subscription pending.
THEOREM ChangesTold == PropertySpec => ChangeTellsAll
<1>1. ASSUME PropertyInv, [PropertyNext]_propertyVars, ndata' # ndata \/ bindata' # bindata, NEW r \in attached
      PROVE  nof'[r] = NoStatus
  <2>1. PropertyNext
    BY <1>1 DEF propertyVars
  <2>2. r \in Ref
    BY <1>1 DEF PropertyInv, PropertyType
  <2>3. \E v \in Value : PropertySetInt(v) \/ PropertySet(v)
    BY <1>1, <2>1 DEF PropertyNext, PropertyAttach, PropertyClose, PropertySubscribe, PropertyCancel, PropertyDefine,
                      PropertyDelete, dataVars
  <2>4. NotifyRequest /\ UNCHANGED <<attached, subscribed>>
    BY <2>3 DEF PropertySetInt, PropertySet
  <2>. QED BY <1>1, <2>2, <2>4, ChangeInv
<1>2. PropertyInv /\ [PropertyNext]_propertyVars =>
         [ndata' # ndata \/ bindata' # bindata => \A r \in attached : nof'[r] = NoStatus]_propertyVars
  BY <1>1
<1>. QED BY <1>2, PropertyInvariant, PTL DEF PropertySpec, ChangeTellsAll
------------------------------------------------------------------------------
(***************************************************************************)
(* Message queues.  An entry keeps its place in avail_notifies after it    *)
(* was completed, so that nobody is told twice only if no two entries have *)
(* the same notification pending, and a notification that is still to be   *)
(* asked for is neither pending nor told.                                  *)
(***************************************************************************)
NotifyEntry == [thread : QueueThread, pending : 0..notifies]

NotifyType ==
    /\ messages \in Nat /\ msgs \in Seq(Nat)
    /\ notifies \in 0..MaxNotifies /\ avail_notifies \in Seq(NotifyEntry)
    /\ told \in [1..MaxNotifies -> Nat] /\ \A n \in 1..MaxNotifies : n > notifies => told[n] = 0

PendingApart ==
    \A i, j \in DOMAIN avail_notifies :
        avail_notifies[i].pending = avail_notifies[j].pending /\ avail_notifies[i].pending # 0 => i = j

MsgQueueInv == NotifyType /\ PendingApart /\ NobodyWaitsBesideData

\* What the invariant says of the entries, by their places.
LEMMA NotifyFacts ==
    ASSUME MsgQueueInv
    PROVE  /\ DOMAIN avail_notifies = 1..Len(avail_notifies) /\ Len(avail_notifies) \in Nat
           /\ \A i \in DOMAIN avail_notifies :
                 /\ avail_notifies[i] \in NotifyEntry
                 /\ avail_notifies[i].pending \in 0..notifies /\ avail_notifies[i].thread \in QueueThread
                 /\ msgs # <<>> => avail_notifies[i].pending = 0
           /\ \A n \in 1..notifies :
                 /\ n \in 1..MaxNotifies /\ told[n] \in Nat /\ told[n] <= 1
                 /\ (\E i \in DOMAIN avail_notifies : avail_notifies[i].pending = n) => told[n] = 0
<1>1. DOMAIN avail_notifies = 1..Len(avail_notifies) /\ Len(avail_notifies) \in Nat
      /\ \A i \in DOMAIN avail_notifies : avail_notifies[i] \in NotifyEntry
  BY DEF MsgQueueInv, NotifyType
<1>2. \A i \in DOMAIN avail_notifies : avail_notifies[i].pending \in 0..notifies /\ avail_notifies[i].thread \in QueueThread
  BY <1>1 DEF NotifyEntry
<1>3. \A i \in DOMAIN avail_notifies : msgs # <<>> => avail_notifies[i].pending = 0
  BY DEF MsgQueueInv, NobodyWaitsBesideData, Entries
<1>4. ASSUME NEW n \in 1..notifies
      PROVE  /\ n \in 1..MaxNotifies /\ told[n] \in Nat /\ told[n] <= 1
             /\ (\E i \in DOMAIN avail_notifies : avail_notifies[i].pending = n) => told[n] = 0
  <2>1. n \in 1..MaxNotifies
    BY MsgQueueAssumption DEF MsgQueueInv, NotifyType
  <2>2. told[n] \in Nat
    BY <2>1 DEF MsgQueueInv, NotifyType
  <2>3. told[n] + (IF \E e \in Entries : e.pending = n THEN 1 ELSE 0) <= 1
    BY DEF MsgQueueInv, NobodyWaitsBesideData
  <2>4. (\E i \in DOMAIN avail_notifies : avail_notifies[i].pending = n) => \E e \in Entries : e.pending = n
    BY DEF Entries
  <2>. QED BY <2>1, <2>2, <2>3, <2>4
<1>. QED BY <1>1, <1>2, <1>3, <1>4

\* And the other way round, of the state a step leaves behind.
LEMMA NotifiesKept ==
    ASSUME NotifyType', PendingApart',
           \A i \in DOMAIN avail_notifies' : msgs' # <<>> => avail_notifies'[i].pending = 0,
           \A n \in 1..notifies' : /\ told'[n] \in Nat /\ told'[n] <= 1
                                   /\ (\E i \in DOMAIN avail_notifies' : avail_notifies'[i].pending = n) => told'[n] = 0
    PROVE  MsgQueueInv'
<1>1. msgs' # <<>> => \A e \in Entries' : e.pending = 0
  BY DEF Entries
<1>2. ASSUME NEW n \in 1..notifies'
      PROVE  told'[n] + (IF \E e \in Entries' : e.pending = n THEN 1 ELSE 0) <= 1
  <2>1. (\E e \in Entries' : e.pending = n) => \E i \in DOMAIN avail_notifies' : avail_notifies'[i].pending = n
    BY DEF Entries
  <2>. QED BY <2>1
<1>. QED BY <1>1, <1>2 DEF MsgQueueInv, NobodyWaitsBesideData

LEMMA SendInv == ASSUME MsgQueueInv, MessageQueueSend PROVE MsgQueueInv'
<1>0. /\ messages' \in Nat /\ msgs' \in Seq(Nat) /\ notifies' = notifies /\ notifies \in 0..MaxNotifies
      /\ told \in [1..MaxNotifies -> Nat] /\ avail_notifies \in Seq(NotifyEntry) /\ NotifyEntry' = NotifyEntry
  BY DEF MessageQueueSend, MsgQueueInv, NotifyType, NotifyEntry
<1>1. CASE msgs = <<>>
  <2>1. CompleteAll
    BY <1>1 DEF MessageQueueSend
  <2>2. /\ told' \in [1..MaxNotifies -> Nat]
        /\ \A n \in 1..MaxNotifies : told'[n] = IF \E e \in Entries : e.pending = n THEN told[n] + 1 ELSE told[n]
    BY <1>0, <2>1 DEF CompleteAll
  <2>3. /\ DOMAIN avail_notifies' = DOMAIN avail_notifies
        /\ \A i \in DOMAIN avail_notifies : avail_notifies'[i] = [avail_notifies[i] EXCEPT !.pending = 0]
    BY <2>1 DEF CompleteAll
  <2>4. \A i \in DOMAIN avail_notifies : avail_notifies'[i] \in NotifyEntry /\ avail_notifies'[i].pending = 0
    <3>1. ASSUME NEW i \in DOMAIN avail_notifies
          PROVE  avail_notifies'[i] \in NotifyEntry /\ avail_notifies'[i].pending = 0
      <4>1. avail_notifies[i] \in [thread : QueueThread, pending : 0..notifies] /\ 0 \in 0..notifies
        BY <1>0, NotifyFacts DEF NotifyEntry
      <4>. QED BY <2>3, <4>1 DEF NotifyEntry
    <3>. QED BY <3>1
  <2>5. avail_notifies' \in Seq(NotifyEntry)
    <3>1. avail_notifies' = [i \in 1..Len(avail_notifies) |-> [avail_notifies[i] EXCEPT !.pending = 0]]
      BY <2>1, NotifyFacts DEF CompleteAll
    <3>2. \A i \in 1..Len(avail_notifies) : [avail_notifies[i] EXCEPT !.pending = 0] \in NotifyEntry
      BY <2>3, <2>4, NotifyFacts
    <3>3. Len(avail_notifies) \in Nat
      BY NotifyFacts
    <3>. QED BY <3>1, <3>2, <3>3
  <2>6. ASSUME NEW n \in 1..notifies
        PROVE  told'[n] \in Nat /\ told'[n] <= 1
    <3>1. (\E e \in Entries : e.pending = n) => \E i \in DOMAIN avail_notifies : avail_notifies[i].pending = n
      BY DEF Entries
    <3>. QED BY <2>2, <3>1, NotifyFacts
  <2>7. ASSUME NEW n \in 1..MaxNotifies, n > notifies PROVE told'[n] = 0
    <3>1. told[n] = 0
      BY <2>7 DEF MsgQueueInv, NotifyType
    <3>2. \A e \in Entries : e.pending \in 0..notifies
      BY NotifyFacts DEF Entries
    <3>3. ~\E e \in Entries : e.pending = n
      BY <1>0, <2>7, <3>2
    <3>. QED BY <2>2, <3>1, <3>3
  <2>8. NotifyType' /\ PendingApart'
    BY <1>0, <2>2, <2>3, <2>4, <2>5, <2>7 DEF NotifyType, PendingApart
  <2>9. \A n \in 1..notifies : ~\E i \in DOMAIN avail_notifies' : avail_notifies'[i].pending = n
    BY <2>3, <2>4
  <2>. QED BY <1>0, <2>3, <2>4, <2>6, <2>8, <2>9, NotifiesKept
<1>2. CASE msgs # <<>>
  <2>1. UNCHANGED <<avail_notifies, told>>
    BY <1>2 DEF MessageQueueSend
  <2>2. NotifyType' /\ PendingApart'
    BY <1>0, <2>1 DEF MsgQueueInv, NotifyType, PendingApart
  <2>. QED BY <1>0, <1>2, <2>1, <2>2, NotifyFacts, NotifiesKept
<1>. QED BY <1>1, <1>2

LEMMA ReceiveInv == ASSUME MsgQueueInv, MessageQueueReceive PROVE MsgQueueInv'
<1>1. /\ msgs # <<>> /\ msgs' \in Seq(Nat) /\ messages' \in Nat /\ NotifyEntry' = NotifyEntry
      /\ UNCHANGED <<avail_notifies, notifies, told>>
  BY DEF MessageQueueReceive, MsgQueueInv, NotifyType, NotifyEntry
<1>2. NotifyType' /\ PendingApart'
  BY <1>1 DEF MsgQueueInv, NotifyType, PendingApart
<1>. QED BY <1>1, <1>2, NotifyFacts, NotifiesKept

LEMMA NotifyInv == ASSUME MsgQueueInv, NEW t \in QueueThread, MessageQueueNotifyDataAvailable(t) PROVE MsgQueueInv'
<1>k. PICK k : k = notifies + 1
  OBVIOUS
<1>0. /\ notifies \in Nat /\ notifies' = k /\ k \in 1..MaxNotifies /\ UNCHANGED <<msgs, messages>>
      /\ \A n \in 1..k : n = k \/ n \in 1..notifies
      /\ k \notin 0..notifies /\ k \in 0..k /\ \A n \in 0..notifies : n \in 0..k
  BY <1>k, MsgQueueAssumption DEF MessageQueueNotifyDataAvailable, MsgQueueInv, NotifyType
<1>1. NotifyEntry \subseteq NotifyEntry' /\ [thread |-> t, pending |-> k] \in NotifyEntry'
  BY <1>0 DEF NotifyEntry
<1>2. /\ avail_notifies \in Seq(NotifyEntry') /\ told \in [1..MaxNotifies -> Nat] /\ told[k] = 0
      /\ messages \in Nat /\ msgs \in Seq(Nat)
  <2>1. avail_notifies \in Seq(NotifyEntry) /\ told \in [1..MaxNotifies -> Nat] /\ messages \in Nat /\ msgs \in Seq(Nat)
    BY DEF MsgQueueInv, NotifyType
  <2>2. avail_notifies \in Seq(NotifyEntry')
    BY <1>1, <2>1
  <2>3. told[k] = 0
    BY <1>k, <1>0 DEF MsgQueueInv, NotifyType
  <2>. QED BY <2>1, <2>2, <2>3
<1>3. \A n \in 1..MaxNotifies : n > k => n > notifies /\ n # k
  BY <1>k, <1>0
<1>4. \A i \in DOMAIN avail_notifies : avail_notifies[i].pending # k
  BY <1>0, NotifyFacts
<1>5. CASE msgs # <<>> /\ told' = [told EXCEPT ![k] = 1] /\ UNCHANGED avail_notifies
  <2>1. told' \in [1..MaxNotifies -> Nat] /\ \A n \in 1..MaxNotifies : told'[n] = IF n = k THEN 1 ELSE told[n]
    BY <1>0, <1>2, <1>5
  <2>2. NotifyType' /\ PendingApart'
    BY <1>0, <1>2, <1>3, <1>5, <2>1 DEF MsgQueueInv, NotifyType, PendingApart
  <2>3. \A n \in 1..k : /\ told'[n] \in Nat /\ told'[n] <= 1
                        /\ (\E i \in DOMAIN avail_notifies : avail_notifies[i].pending = n) => told'[n] = 0
    <3>1. \A n \in 1..k : n \in 1..MaxNotifies /\ (n # k => n \in 1..notifies)
      BY <1>0, MsgQueueAssumption
    <3>. QED BY <1>4, <2>1, <3>1, NotifyFacts
  <2>. QED BY <1>0, <1>5, <2>2, <2>3, NotifyFacts, NotifiesKept
<1>6. CASE msgs = <<>> /\ avail_notifies' = Append(avail_notifies, [thread |-> t, pending |-> k]) /\ UNCHANGED told
  <2>1. PICK L \in Nat : L = Len(avail_notifies) /\ DOMAIN avail_notifies = 1..L
    BY NotifyFacts
  <2>2. /\ avail_notifies' \in Seq(NotifyEntry') /\ DOMAIN avail_notifies' = 1..(L + 1)
        /\ avail_notifies'[L + 1] = [thread |-> t, pending |-> k]
        /\ \A i \in 1..L : avail_notifies'[i] = avail_notifies[i]
    <3>1. PICK e : e = [thread |-> t, pending |-> k] /\ e \in NotifyEntry'
      BY <1>1
    <3>2. avail_notifies' = Append(avail_notifies, e)
      BY <1>6, <3>1
    <3>. QED BY <1>2, <2>1, <3>1, <3>2
  <2>3. \A i \in 1..(L + 1) : i = L + 1 \/ i \in 1..L
    OBVIOUS
  <2>4. \A i \in 1..(L + 1) : avail_notifies'[i].pending = IF i = L + 1 THEN k ELSE avail_notifies[i].pending
    BY <2>2, <2>3
  <2>5. NotifyType'
    BY <1>0, <1>2, <1>3, <1>6, <2>2 DEF MsgQueueInv, NotifyType
  <2>6. PendingApart'
    BY <1>4, <2>1, <2>2, <2>3, <2>4 DEF MsgQueueInv, PendingApart
  <2>7. ASSUME NEW n \in 1..k
        PROVE  /\ told'[n] \in Nat /\ told'[n] <= 1
               /\ (\E i \in DOMAIN avail_notifies' : avail_notifies'[i].pending = n) => told'[n] = 0
    <3>1. CASE n = k
      BY <1>2, <1>6, <3>1
    <3>2. CASE n \in 1..notifies
      <4>1. (\E i \in DOMAIN avail_notifies' : avail_notifies'[i].pending = n) =>
               \E i \in DOMAIN avail_notifies : avail_notifies[i].pending = n
        BY <1>0, <2>1, <2>2, <2>3, <2>4, <3>2
      <4>. QED BY <1>6, <3>2, <4>1, NotifyFacts
    <3>. QED BY <1>0, <3>1, <3>2
  <2>. QED BY <1>0, <1>6, <2>5, <2>6, <2>7, NotifiesKept
<1>7. CASE msgs = <<>> /\ UNCHANGED <<avail_notifies, told>>
  <2>1. NotifyType' /\ PendingApart'
    BY <1>0, <1>2, <1>3, <1>7 DEF MsgQueueInv, NotifyType, PendingApart
  <2>2. ASSUME NEW n \in 1..k
        PROVE  /\ told[n] \in Nat /\ told[n] <= 1
               /\ (\E i \in DOMAIN avail_notifies : avail_notifies[i].pending = n) => told[n] = 0
    BY <1>0, <1>2, NotifyFacts
  <2>. QED BY <1>0, <1>7, <2>1, <2>2, NotifiesKept
<1>. QED BY <1>k, <1>5, <1>6, <1>7 DEF MessageQueueNotifyDataAvailable

LEMMA CancelInv == ASSUME MsgQueueInv, NEW t \in QueueThread, MessageQueueCancelNotifyAvailable(t) PROVE MsgQueueInv'
<1>0. /\ UNCHANGED <<msgs, messages, notifies>> /\ NotifyEntry' = NotifyEntry /\ notifies \in 0..MaxNotifies
      /\ messages \in Nat /\ msgs \in Seq(Nat) /\ told \in [1..MaxNotifies -> Nat]
  BY DEF MessageQueueCancelNotifyAvailable, MsgQueueInv, NotifyType, NotifyEntry
<1>1. PICK i \in DOMAIN avail_notifies :
        /\ told' = [n \in 1..MaxNotifies |-> IF avail_notifies[i].pending = n THEN told[n] + 1 ELSE told[n]]
        /\ avail_notifies' = [j \in 1..(Len(avail_notifies) - 1) |-> avail_notifies[IF j < i THEN j ELSE j + 1]]
  BY DEF MessageQueueCancelNotifyAvailable, Registered
<1>2. PICK L \in Nat : L = Len(avail_notifies) /\ DOMAIN avail_notifies = 1..L /\ L - 1 \in Nat
  <2>1. PICK L : L = Len(avail_notifies) /\ L \in Nat /\ DOMAIN avail_notifies = 1..L
    BY NotifyFacts
  <2>2. i \in 1..L
    BY <2>1
  <2>3. L - 1 \in Nat
    BY <2>1, <2>2
  <2>. QED BY <2>1, <2>3
<1>3. PICK from : from = [j \in 1..(L - 1) |-> IF j < i THEN j ELSE j + 1]
  OBVIOUS
<1>4. \A j \in 1..(L - 1) : from[j] \in 1..L /\ from[j] # i /\ \A h \in 1..(L - 1) : from[h] = from[j] => h = j
  BY <1>2, <1>3
<1>5. /\ DOMAIN avail_notifies' = 1..(L - 1) /\ \A j \in 1..(L - 1) : avail_notifies'[j] = avail_notifies[from[j]]
      /\ avail_notifies' = [j \in 1..(L - 1) |-> avail_notifies[from[j]]]
  BY <1>1, <1>2, <1>3
<1>6. avail_notifies' \in Seq(NotifyEntry)
  BY <1>2, <1>4, <1>5, NotifyFacts
<1>7. /\ told' \in [1..MaxNotifies -> Nat]
      /\ \A n \in 1..MaxNotifies : told'[n] = IF avail_notifies[i].pending = n THEN told[n] + 1 ELSE told[n]
  BY <1>0, <1>1
<1>8. ASSUME NEW n \in 1..MaxNotifies, n > notifies PROVE told'[n] = 0
  <2>1. told[n] = 0
    BY <1>8 DEF MsgQueueInv, NotifyType
  <2>2. avail_notifies[i].pending \in 0..notifies
    BY NotifyFacts
  <2>3. avail_notifies[i].pending # n
    BY <1>0, <1>8, <2>2
  <2>. QED BY <1>7, <2>1, <2>3
<1>9. NotifyType'
  BY <1>0, <1>6, <1>7, <1>8 DEF NotifyType
<1>10. PendingApart'
  BY <1>2, <1>4, <1>5 DEF MsgQueueInv, PendingApart
<1>11. ASSUME NEW n \in 1..notifies
       PROVE  /\ told'[n] \in Nat /\ told'[n] <= 1
              /\ (\E j \in DOMAIN avail_notifies' : avail_notifies'[j].pending = n) => told'[n] = 0
  <2>1. (\E j \in DOMAIN avail_notifies' : avail_notifies'[j].pending = n) =>
           \E j \in DOMAIN avail_notifies : avail_notifies[j].pending = n /\ j # i
    BY <1>2, <1>4, <1>5
  <2>2. n # 0
    OBVIOUS
  <2>3. avail_notifies[i].pending = n => \A j \in DOMAIN avail_notifies : avail_notifies[j].pending = n => j = i
    BY <2>2 DEF MsgQueueInv, PendingApart
  <2>4. n \in 1..MaxNotifies /\ told[n] \in Nat /\ told[n] <= 1
        /\ ((\E j \in DOMAIN avail_notifies : avail_notifies[j].pending = n) => told[n] = 0)
    BY NotifyFacts
  <2>5. CASE avail_notifies[i].pending = n
    BY <1>7, <2>1, <2>3, <2>4, <2>5
  <2>6. CASE avail_notifies[i].pending # n
    BY <1>7, <2>1, <2>4, <2>6
  <2>. QED BY <2>5, <2>6
<1>12. \A j \in DOMAIN avail_notifies' : msgs' # <<>> => avail_notifies'[j].pending = 0
  BY <1>0, <1>2, <1>4, <1>5, NotifyFacts
<1>. QED BY <1>0, <1>9, <1>10, <1>11, <1>12, NotifiesKept

LEMMA MsgQueueStep == MsgQueueInv /\ [MsgQueueNext]_msgQueueVars => MsgQueueInv'
<1> SUFFICES ASSUME MsgQueueInv, [MsgQueueNext]_msgQueueVars PROVE MsgQueueInv'
  OBVIOUS
<1>1. CASE UNCHANGED msgQueueVars
  <2>1. UNCHANGED <<messages, msgs, avail_notifies, notifies, told>>
    BY <1>1 DEF msgQueueVars
  <2>2. NotifyType' = NotifyType
    BY <2>1 DEF NotifyType, NotifyEntry
  <2>3. PendingApart' = PendingApart
    BY <2>1 DEF PendingApart
  <2>4. NobodyWaitsBesideData' = NobodyWaitsBesideData
    BY <2>1 DEF NobodyWaitsBesideData, Entries
  <2>. QED BY <2>2, <2>3, <2>4 DEF MsgQueueInv
<1>. QED BY <1>1, SendInv, ReceiveInv, NotifyInv, CancelInv DEF MsgQueueNext

LEMMA MsgQueueStart == MsgQueueInit => MsgQueueInv
<1>1. MsgQueueInit => NotifyType
  BY MsgQueueAssumption DEF MsgQueueInit, NotifyType
<1>. QED BY <1>1 DEF MsgQueueInit, MsgQueueInv, PendingApart, NobodyWaitsBesideData, Entries

\* The entries that are registered have a notification each of their own.
THEOREM MsgQueueInvariant == MsgQueueSpec => []MsgQueueInv
  BY MsgQueueStart, MsgQueueStep, PTL DEF MsgQueueSpec

\* Whatever the order of sends, receives, registrations and cancels, no thread is left
\* waiting beside a message and no notification is completed twice.
THEOREM DataIsTold == MsgQueueSpec => []NobodyWaitsBesideData
<1>1. MsgQueueInv => NobodyWaitsBesideData
  BY DEF MsgQueueInv
<1>. QED BY <1>1, MsgQueueInvariant, PTL
------------------------------------------------------------------------------
(***************************************************************************)
(* Chunks.  ChunkSound needs to know that bottom and top are in order, so  *)
(* that moving the top and then the bottom leaves what is between them,    *)
(* and that the pages are finitely many, which they are because no call    *)
(* commits one outside of the chunk.                                       *)
(***************************************************************************)
Memory == [pages : SUBSET Page, free : SUBSET Page, committed : Int, tables : SUBSET Int,
           cpu : SUBSET Int, refused : BOOLEAN]

\* The first two parts of ChunkSound, of any state m of the memory.
MemorySound(m) ==
    /\ HasBitmap => m.pages \cap m.free = {}
    /\ model = "multiple" => m.committed = Cardinality(m.pages)

ChunkType ==
    /\ mem \in Memory
    /\ bottom_ \in 0..NumPages /\ top_ \in 0..NumPages /\ bottom_ <= top_

ChunkInv == ChunkType /\ ChunkSound

LEMMA PageFacts ==
    /\ NumPages \in Nat /\ IsFiniteSet(Page) /\ Page \subseteq Int
    /\ \A p \in Int : Table(p) \in Int
    /\ \A off, n \in Nat : off + n <= NumPages => Pages(off, n) \subseteq Page
    /\ \A off, n : Pages(off, n) \subseteq Int
<1>1. NumPages \in Nat
  BY MemAssumption DEF NumPages
<1>2. IsFiniteSet(Page) /\ Page \subseteq Int
  <2>1. 0 \in Int /\ NumPages - 1 \in Int
    BY <1>1
  <2>. QED BY <2>1, FS_Interval DEF Page
<1>3. \A p \in Int : Table(p) \in Int
  BY MemAssumption DEF Table
<1>4. \A off, n \in Nat : off + n <= NumPages => Pages(off, n) \subseteq Page
  BY <1>1 DEF Pages, Page
<1>5. \A off, n : Pages(off, n) \subseteq Int
  BY DEF Pages
<1>. QED BY <1>1, <1>2, <1>3, <1>4, <1>5

\* committed_ stays a number, also where the flexible model wraps it.
LEMMA CountsInt ==
    ASSUME NEW m \in Memory
    PROVE  /\ \A off, k \in Nat : off + k <= NumPages => CountedIn(m, off, k) \in Int
           /\ \A gone \in SUBSET Page : CountedOut(m, gone) \in Int
<1>1. m.committed \in Int /\ CommittedWidth \in Nat \ {0}
  BY MemAssumption DEF Memory
<1>2. \A a, b, c \in Int : (a + b - c) % CommittedWidth \in Int /\ (a - b) % CommittedWidth \in Int
  BY <1>1
<1>3. \A S \in SUBSET Page : Cardinality(S) \in Nat
  BY PageFacts, FS_Subset, FS_CardinalityType
<1>4. ASSUME NEW off \in Nat, NEW k \in Nat, off + k <= NumPages PROVE CountedIn(m, off, k) \in Int
  <2>1. PICK c : c = Cardinality(Pages(off, k) \ m.pages)
    OBVIOUS
  <2>2. c \in Nat
    BY <1>3, <1>4, <2>1, PageFacts
  <2>3. PICK a : a = AllocatedCount(m.free, off, off + k - 1)
    OBVIOUS
  <2>4. a \in Nat
    BY <1>3, <2>3 DEF AllocatedCount
  <2>5. PICK d \in Nat : d = IF HasBitmap THEN a ELSE 0
    BY <2>4
  <2>6. \/ CountedIn(m, off, k) = m.committed + c
        \/ CountedIn(m, off, k) = (m.committed + k - d) % CommittedWidth
    BY <2>1, <2>3, <2>5, Zenon DEF CountedIn
  <2>7. (m.committed + k - d) % CommittedWidth \in Int /\ m.committed + c \in Int
    BY <1>1, <1>2, <2>2
  <2>. QED BY <2>6, <2>7
<1>5. ASSUME NEW gone \in SUBSET Page PROVE CountedOut(m, gone) \in Int
  <2>1. PICK c \in Nat, d \in Nat : c = Cardinality(gone \cap m.pages) /\ d = Cardinality(gone)
    BY <1>3
  <2>2. CountedOut(m, gone) = m.committed - c \/ CountedOut(m, gone) = (m.committed - d) % CommittedWidth
    BY <2>1, Zenon DEF CountedOut
  <2>. QED BY <1>1, <1>2, <2>1, <2>2
<1>. QED BY <1>4, <1>5

\* commit keeps the memory sound and takes no page away; it says so when it did not
\* commit all of the range.
LEMMA CommitSound ==
    ASSUME NEW m \in Memory, MemorySound(m), NEW off \in Nat, NEW n \in Nat, off + n <= NumPages,
           NEW r \in CommitIn(m, off, n)
    PROVE  /\ r \in Memory /\ MemorySound(r) /\ m.pages \subseteq r.pages
           /\ r.pages \subseteq m.pages \cup Pages(off, n)
           /\ ~r.refused => ~m.refused /\ Pages(off, n) \subseteq r.pages
<1>1. PICK k, got, new :
          /\ k \in Granted(off, n) /\ got = Pages(off, k) /\ new = got \ m.pages
          /\ r = [pages |-> m.pages \cup got,
                  free |-> IF HasBitmap THEN m.free \ got ELSE m.free,
                  committed |-> CountedIn(m, off, k),
                  tables |-> m.tables \cup {Table(p) : p \in {x \in got : model = "multiple"}},
                  cpu |-> IF current_space THEN m.cpu \cup (IF model = "multiple" THEN new ELSE got) ELSE m.cpu,
                  refused |-> m.refused \/ k < n]
  BY DEF CommitIn
<1>2. k \in Nat /\ k <= n
  BY <1>1 DEF Granted
<1>3. got \subseteq Page /\ got \subseteq Int /\ IsFiniteSet(m.pages) /\ IsFiniteSet(new)
  <2>1. off + k \in Nat /\ off + k <= NumPages
    BY <1>2, PageFacts
  <2>2. got \subseteq Page /\ got \subseteq Int
    BY <1>1, <1>2, <2>1, PageFacts
  <2>3. m.pages \in SUBSET Page /\ new \in SUBSET Page
    BY <1>1, <2>2 DEF Memory
  <2>. QED BY <2>2, <2>3, PageFacts, FS_Subset
<1>4. r.pages \in SUBSET Page /\ r.free \in SUBSET Page
  BY <1>1, <1>3 DEF Memory
<1>5. r.committed \in Int /\ Cardinality(new) \in Nat
  <2>1. Cardinality(new) \in Nat
    BY <1>3, FS_CardinalityType
  <2>2. off + k <= NumPages
    BY <1>2, PageFacts
  <2>. QED BY <1>1, <1>2, <2>1, <2>2, CountsInt
<1>6. r.tables \in SUBSET Int /\ r.cpu \in SUBSET Int
  BY <1>1, <1>3, PageFacts DEF Memory
<1>7. r.refused \in BOOLEAN
  BY <1>1
<1>8. r \in Memory
  BY <1>1, <1>4, <1>5, <1>6, <1>7 DEF Memory
<1>9. HasBitmap => r.pages \cap r.free = {}
  BY <1>1 DEF MemorySound
<1>10. model = "multiple" => r.committed = Cardinality(r.pages)
  <2>1. r.pages = m.pages \cup new /\ m.pages \cap new = {}
    BY <1>1
  <2>2. Cardinality(m.pages \cup new) = Cardinality(m.pages) + Cardinality(new) - Cardinality(m.pages \cap new)
    BY <1>3, FS_Union
  <2>3. Cardinality(m.pages \cap new) = 0 /\ Cardinality(m.pages) \in Nat
    BY <1>3, <2>1, FS_EmptySet, FS_CardinalityType
  <2>4. PICK a, b, c : a = Cardinality(m.pages) /\ b = Cardinality(new) /\ c = Cardinality(r.pages)
    OBVIOUS
  <2>5. c = a + b
    BY <1>5, <2>1, <2>2, <2>3, <2>4
  <2>6. model = "multiple" => m.committed = a
    BY <2>4 DEF MemorySound
  <2>7. model = "multiple" => r.committed = m.committed + b
    BY <1>1, <2>4 DEF CountedIn
  <2>. QED BY <2>4, <2>5, <2>6, <2>7
<1>11. ~r.refused => ~m.refused /\ Pages(off, n) \subseteq r.pages
  <2>1. ~r.refused => ~m.refused /\ ~(k < n)
    BY <1>1
  <2>2. ~(k < n) => k = n
    BY <1>2
  <2>. QED BY <1>1, <2>1, <2>2
<1>12. Pages(off, k) \subseteq Pages(off, n)
  BY <1>2 DEF Pages
<1>. QED BY <1>1, <1>8, <1>9, <1>10, <1>11, <1>12 DEF MemorySound

\* decommit keeps the memory sound and takes no page outside of the range.
LEMMA DecommitSound ==
    ASSUME NEW m \in Memory, MemorySound(m), NEW off \in Nat, NEW n \in Nat, off + n <= NumPages,
           NEW r \in DecommitIn(m, off, n)
    PROVE  /\ r \in Memory /\ MemorySound(r) /\ m.pages \ Pages(off, n) \subseteq r.pages
           /\ ~r.refused => ~m.refused
<1>1. PICK gone, count, unmapped :
          /\ gone = {p \in Pages(off, n) : model = "multiple" => Table(p) \in m.tables}
          /\ count = CountedOut(m, gone)
          /\ unmapped = IF model = "multiple" THEN gone \cap m.pages ELSE gone
  OBVIOUS
<1>2. \/ r = [m EXCEPT !.pages = @ \ gone, !.free = IF HasBitmap THEN @ \cup gone ELSE @,
                       !.committed = count, !.cpu = IF current_space THEN @ \ unmapped ELSE @]
      \/ r = [m EXCEPT !.refused = TRUE]
  BY <1>1 DEF DecommitIn
<1>3. gone \subseteq Page /\ gone \subseteq Pages(off, n) /\ IsFiniteSet(m.pages)
  <2>1. m.pages \in SUBSET Page
    BY DEF Memory
  <2>. QED BY <1>1, <2>1, PageFacts, FS_Subset
<1>4. /\ Cardinality(m.pages \ gone) = Cardinality(m.pages) - Cardinality(m.pages \cap gone)
      /\ Cardinality(m.pages) \in Nat /\ Cardinality(m.pages \cap gone) \in Nat
      /\ gone \cap m.pages = m.pages \cap gone
  <2>1. IsFiniteSet(m.pages \cap gone)
    BY <1>3, FS_Intersection
  <2>. QED BY <1>3, <2>1, FS_Difference, FS_CardinalityType
<1>5. count \in Int
  BY <1>1, <1>3, CountsInt
<1>6. CASE r = [m EXCEPT !.pages = @ \ gone, !.free = IF HasBitmap THEN @ \cup gone ELSE @,
                         !.committed = count, !.cpu = IF current_space THEN @ \ unmapped ELSE @]
  <2>1. /\ r.pages = m.pages \ gone /\ r.free = (IF HasBitmap THEN m.free \cup gone ELSE m.free)
        /\ r.committed = count /\ r.refused = m.refused
        /\ r.cpu = (IF current_space THEN m.cpu \ unmapped ELSE m.cpu) /\ r.tables = m.tables
    BY <1>6 DEF Memory
  <2>2. r \in Memory
    <3>1. /\ m.pages \in SUBSET Page /\ m.free \in SUBSET Page /\ m.committed \in Int /\ m.tables \in SUBSET Int
          /\ m.cpu \in SUBSET Int
      BY DEF Memory
    <3>2. m.refused \in BOOLEAN
      BY DEF Memory
    <3>3. r.pages \in SUBSET Page /\ r.free \in SUBSET Page /\ r.tables \in SUBSET Int /\ r.cpu \in SUBSET Int
      BY <1>3, <2>1, <3>1
    <3>4. r.committed \in Int
      BY <1>5, <2>1, <3>1
    <3>5. r = [pages |-> r.pages, free |-> r.free, committed |-> r.committed, tables |-> r.tables,
               cpu |-> r.cpu, refused |-> r.refused]
      BY <1>6 DEF Memory
    <3>6. r.refused \in BOOLEAN
      BY <2>1, <3>2
    <3>. QED BY <3>3, <3>4, <3>5, <3>6 DEF Memory
  <2>3. HasBitmap => r.pages \cap r.free = {}
    BY <2>1 DEF MemorySound
  <2>4. model = "multiple" => r.committed = Cardinality(r.pages)
    BY <1>1, <1>4, <2>1 DEF MemorySound, CountedOut
  <2>. QED BY <1>3, <2>1, <2>2, <2>3, <2>4 DEF MemorySound
<1>7. CASE r = [m EXCEPT !.refused = TRUE]
  <2>1. /\ r.pages = m.pages /\ r.free = m.free /\ r.committed = m.committed /\ r.refused = TRUE
    BY <1>7 DEF Memory
  <2>2. r \in Memory
    BY <1>7 DEF Memory
  <2>. QED BY <2>1, <2>2 DEF MemorySound
<1>. QED BY <1>2, <1>6, <1>7

\* bitmap_allocator::allocate_from only finds room where all of the bits are set.
LEMMA FitsFree ==
    ASSUME NEW f \in SUBSET Page, NEW n \in 1..NumPages, NEW best, NEW off \in Fits(f, n, best)
    PROVE  off \in Nat /\ Pages(off, n) \subseteq f /\ off + n <= NumPages
<1>1. off \in f /\ RunLength(f, off) >= n
  BY DEF Fits
<1>2. off \in Nat /\ off <= NumPages - 1 /\ NumPages \in Nat
  BY <1>1, PageFacts DEF Page
<1>3. PICK S : S = {k \in 1..NumPages : off + k \notin f}
  OBVIOUS
<1>4. NumPages \in S /\ S \in SUBSET Nat
  <2>1. off + NumPages \notin Page
    BY <1>2 DEF Page
  <2>2. NumPages \in 1..NumPages
    BY <1>2
  <2>. QED BY <1>3, <2>1, <2>2
<1>5. \E k \in S : \A j \in S : k <= j
  BY <1>4, LeastNat
<1>6. RunLength(f, off) \in S /\ \A j \in S : RunLength(f, off) <= j
  <2>1. RunLength(f, off) = CHOOSE k \in S : \A j \in S : k <= j
    BY <1>3 DEF RunLength, Min
  <2>. QED BY <1>5, <2>1
<1>7. PICK l \in Nat : l = RunLength(f, off) /\ l >= n /\ \A j \in S : l <= j
  BY <1>1, <1>4, <1>6
<1>8. ASSUME NEW p \in Pages(off, n) PROVE p \in f
  <2>1. p \in Int /\ off <= p /\ p <= off + n - 1
    BY <1>2 DEF Pages
  <2>2. CASE p = off
    BY <1>1, <2>2
  <2>3. CASE p # off
    <3>1. PICK k \in 1..NumPages : p = off + k /\ k < l
      <4>1. p - off \in 1..NumPages /\ p = off + (p - off) /\ p - off < l
        BY <1>2, <1>7, <2>1, <2>3
      <4>. QED BY <4>1
    <3>2. k \notin S
      BY <1>7, <3>1
    <3>. QED BY <1>3, <3>1, <3>2
  <2>. QED BY <2>2, <2>3
<1>9. off + n <= NumPages
  <2>1. off + n - 1 \in Pages(off, n)
    BY <1>2 DEF Pages
  <2>2. off + n - 1 \in Page
    BY <1>8, <2>1
  <2>. QED BY <1>2, <2>2 DEF Page
<1>. QED BY <1>2, <1>8, <1>9

\* ChunkInv, from the memory and from what is between bottom and top.
LEMMA ChunkKept ==
    ASSUME ChunkInv, UNCHANGED <<model, kind>>, mem' \in Memory, MemorySound(mem'),
           bottom_' \in 0..NumPages, top_' \in 0..NumPages, bottom_' <= top_',
           kind # "disconnected" /\ ~mem'.refused => Pages(bottom_', top_' - bottom_') \subseteq mem'.pages
    PROVE  ChunkInv'
<1>1. HasBitmap' = HasBitmap
  BY DEF HasBitmap
<1>2. ChunkSound'
  BY <1>1 DEF ChunkSound, MemorySound
<1>. QED BY <1>2 DEF ChunkInv, ChunkType

LEMMA ChunkFacts ==
    ASSUME ChunkInv
    PROVE  /\ mem \in Memory /\ MemorySound(mem) /\ NumPages \in Nat
           /\ bottom_ \in 0..NumPages /\ top_ \in 0..NumPages /\ bottom_ <= top_
           /\ kind # "disconnected" /\ ~mem.refused => Pages(bottom_, top_ - bottom_) \subseteq mem.pages
  BY PageFacts DEF ChunkInv, ChunkType, ChunkSound, MemorySound

LEMMA CommitInv == ASSUME ChunkInv, NEW off \in Page, NEW n \in 1..NumPages, ChunkCommit(off, n) PROVE ChunkInv'
<1>1. /\ kind = "disconnected" /\ off + n <= NumPages /\ mem' \in CommitIn(mem, off, n)
      /\ UNCHANGED <<model, kind, top_, bottom_>>
  BY DEF ChunkCommit, rangeVars
<1>2. off \in Nat /\ n \in Nat
  BY PageFacts DEF Page
<1>3. mem' \in Memory /\ MemorySound(mem')
  BY <1>1, <1>2, ChunkFacts, CommitSound
<1>. QED BY <1>1, <1>3, ChunkFacts, ChunkKept

LEMMA DecommitInv == ASSUME ChunkInv, NEW off \in Page, NEW n \in 1..NumPages, ChunkDecommit(off, n) PROVE ChunkInv'
<1>1. /\ kind = "disconnected" /\ off + n <= NumPages /\ mem' \in DecommitIn(mem, off, n)
      /\ UNCHANGED <<model, kind, top_, bottom_>>
  BY DEF ChunkDecommit, rangeVars
<1>2. off \in Nat /\ n \in Nat
  BY PageFacts DEF Page
<1>3. mem' \in Memory /\ MemorySound(mem')
  BY <1>1, <1>2, ChunkFacts, DecommitSound
<1>. QED BY <1>1, <1>3, ChunkFacts, ChunkKept

\* What allocate hands out was free, so that nobody has memory there.
LEMMA AllocateInv ==
    ASSUME ChunkInv, NEW n \in 1..NumPages, ChunkAllocate(n)
    PROVE  ChunkInv' /\ mem'.pages \ mem.pages \subseteq mem.free
<1>1. kind = "disconnected" /\ UNCHANGED <<model, kind, top_, bottom_>>
  BY DEF ChunkAllocate, rangeVars
<1>2. CASE UNCHANGED mem
  BY <1>1, <1>2, ChunkFacts, ChunkKept
<1>3. CASE \E off \in Fits(mem.free, n, model = "multiple") :
              mem' \in CommitIn([mem EXCEPT !.free = @ \ Pages(off, n)], off, n)
  <2>1. PICK off \in Fits(mem.free, n, model = "multiple") :
           mem' \in CommitIn([mem EXCEPT !.free = @ \ Pages(off, n)], off, n)
    BY <1>3
  <2>2. mem \in Memory /\ mem.free \in SUBSET Page
    BY ChunkFacts DEF Memory
  <2>3. off \in Nat /\ Pages(off, n) \subseteq mem.free /\ off + n <= NumPages /\ n \in Nat
    <3>1. off \in Nat /\ Pages(off, n) \subseteq mem.free /\ off + n <= NumPages
      BY <2>2, FitsFree, Zenon
    <3>. QED BY <3>1, PageFacts
  <2>4. PICK m : m = [mem EXCEPT !.free = @ \ Pages(off, n)]
    OBVIOUS
  <2>5. /\ m.pages = mem.pages /\ m.free = mem.free \ Pages(off, n) /\ m.committed = mem.committed /\ m \in Memory
    BY <2>2, <2>4 DEF Memory
  <2>6. MemorySound(m)
    BY <2>5, ChunkFacts DEF MemorySound
  <2>7. mem' \in Memory /\ MemorySound(mem') /\ mem'.pages \subseteq m.pages \cup Pages(off, n)
    BY <2>1, <2>3, <2>4, <2>5, <2>6, CommitSound
  <2>. QED BY <1>1, <2>3, <2>5, <2>7, ChunkFacts, ChunkKept
<1>. QED BY <1>2, <1>3 DEF ChunkAllocate

\* After the top is moved the pages from the old bottom to the new top are there.
LEMMA TopSound ==
    ASSUME ChunkInv, kind # "disconnected", NEW top \in 0..NumPages, NEW m \in TopMoved(mem, top)
    PROVE  /\ m \in Memory /\ MemorySound(m)
           /\ ~m.refused => Pages(bottom_, top - bottom_) \subseteq m.pages
<1>0. NumPages \in Nat /\ bottom_ \in Nat /\ top_ \in Nat /\ top \in Nat /\ bottom_ <= top_ /\ top_ <= NumPages
  BY ChunkFacts
<1>1. CASE top < top_
  <2>1. m \in DecommitIn(mem, top, top_ - top)
    BY <1>1 DEF TopMoved
  <2>2. top_ - top \in Nat /\ top + (top_ - top) <= NumPages
    BY <1>0, <1>1
  <2>3. /\ m \in Memory /\ MemorySound(m) /\ mem.pages \ Pages(top, top_ - top) \subseteq m.pages
        /\ ~m.refused => ~mem.refused
    BY <1>0, <2>1, <2>2, ChunkFacts, DecommitSound
  <2>4. Pages(bottom_, top - bottom_) \subseteq Pages(bottom_, top_ - bottom_) \ Pages(top, top_ - top)
    BY <1>0, <1>1 DEF Pages
  <2>. QED BY <2>3, <2>4, ChunkFacts
<1>2. CASE top > top_
  <2>1. m \in CommitIn(mem, top_, top - top_)
    BY <1>0, <1>2 DEF TopMoved
  <2>2. top - top_ \in Nat /\ top_ + (top - top_) <= NumPages
    BY <1>0, <1>2
  <2>3. /\ m \in Memory /\ MemorySound(m) /\ mem.pages \subseteq m.pages
        /\ ~m.refused => ~mem.refused /\ Pages(top_, top - top_) \subseteq m.pages
    BY <1>0, <2>1, <2>2, ChunkFacts, CommitSound
  <2>4. Pages(bottom_, top - bottom_) \subseteq Pages(bottom_, top_ - bottom_) \cup Pages(top_, top - top_)
    BY <1>0, <1>2 DEF Pages
  <2>. QED BY <2>3, <2>4, ChunkFacts
<1>3. CASE top = top_
  <2>1. m = mem
    BY <1>0, <1>3 DEF TopMoved
  <2>. QED BY <1>3, <2>1, ChunkFacts
<1>. QED BY <1>0, <1>1, <1>2, <1>3

LEMMA AdjustInv ==
    ASSUME ChunkInv, NEW bottom \in 0..NumPages, NEW top \in 0..NumPages, ChunkAdjust(bottom, top)
    PROVE  ChunkInv'
<1>1. /\ kind # "disconnected" /\ bottom <= top /\ top_' = top /\ bottom_' = bottom /\ UNCHANGED <<model, kind>>
  BY DEF ChunkAdjust
<1>2. PICK m \in TopMoved(mem, top) : mem' \in BottomMoved(m, bottom)
  BY DEF ChunkAdjust
<1>3. m \in Memory /\ MemorySound(m) /\ (~m.refused => Pages(bottom_, top - bottom_) \subseteq m.pages)
  BY <1>1, <1>2, TopSound
<1>0. NumPages \in Nat /\ bottom_ \in Nat /\ bottom_ <= NumPages /\ top \in Nat /\ bottom \in Nat /\ bottom <= NumPages
  BY ChunkFacts
<1>4. /\ mem' \in Memory /\ MemorySound(mem')
      /\ ~mem'.refused => Pages(bottom, top - bottom) \subseteq mem'.pages
  <2>1. CASE bottom > bottom_
    <3>1. mem' \in DecommitIn(m, bottom_, bottom - bottom_)
      BY <1>2, <2>1 DEF BottomMoved
    <3>2. bottom - bottom_ \in Nat /\ bottom_ + (bottom - bottom_) <= NumPages
      BY <1>0, <2>1
    <3>3. /\ mem' \in Memory /\ MemorySound(mem') /\ m.pages \ Pages(bottom_, bottom - bottom_) \subseteq mem'.pages
          /\ ~mem'.refused => ~m.refused
      BY <1>0, <1>3, <3>1, <3>2, DecommitSound
    <3>4. Pages(bottom, top - bottom) \subseteq Pages(bottom_, top - bottom_) \ Pages(bottom_, bottom - bottom_)
      BY <1>0, <1>1, <2>1 DEF Pages
    <3>. QED BY <1>3, <3>3, <3>4
  <2>2. CASE bottom < bottom_
    <3>1. mem' \in CommitIn(m, bottom, bottom_ - bottom)
      BY <1>0, <1>2, <2>2 DEF BottomMoved
    <3>2. bottom_ - bottom \in Nat /\ bottom + (bottom_ - bottom) <= NumPages
      BY <1>0, <2>2
    <3>3. /\ mem' \in Memory /\ MemorySound(mem') /\ m.pages \subseteq mem'.pages
          /\ ~mem'.refused => ~m.refused /\ Pages(bottom, bottom_ - bottom) \subseteq mem'.pages
      BY <1>0, <1>3, <3>1, <3>2, CommitSound
    <3>4. Pages(bottom, top - bottom) \subseteq Pages(bottom_, top - bottom_) \cup Pages(bottom, bottom_ - bottom)
      BY <1>0, <1>1, <2>2 DEF Pages
    <3>. QED BY <1>3, <3>3, <3>4
  <2>3. CASE bottom = bottom_
    <3>1. mem' = m
      BY <1>0, <1>2, <2>3 DEF BottomMoved
    <3>. QED BY <1>3, <2>3, <3>1
  <2>. QED BY <1>0, <2>1, <2>2, <2>3
<1>. QED BY <1>1, <1>4, ChunkKept

\* Switching processes changes what the CPU sees and nothing else.
LEMMA SwitchInv == ASSUME ChunkInv, SwitchOut \/ SwitchIn PROVE ChunkInv'
<1>1. UNCHANGED <<model, kind, top_, bottom_>>
  BY DEF SwitchOut, SwitchIn
<1>2. \A ps \in Manipulated : ps \subseteq Int
  <2>1. \A ps \in SetBitPages : ps \subseteq Int
    BY PageFacts DEF SetBitPages
  <2>. QED BY <2>1, PageFacts DEF Manipulated
<1>3. UNCHANGED mem \/ \E c \in SUBSET Int : mem' = [mem EXCEPT !.cpu = c]
  <2>1. mem.cpu \in SUBSET Int
    BY ChunkFacts DEF Memory
  <2>. QED BY <1>2, <2>1 DEF SwitchOut, SwitchIn
<1>4. CASE UNCHANGED mem
  BY <1>1, <1>4, ChunkFacts, ChunkKept
<1>5. CASE \E c \in SUBSET Int : mem' = [mem EXCEPT !.cpu = c]
  <2>1. /\ mem'.pages = mem.pages /\ mem'.free = mem.free /\ mem'.committed = mem.committed
        /\ mem'.refused = mem.refused /\ mem' \in Memory
    BY <1>5, ChunkFacts DEF Memory
  <2>2. MemorySound(mem')
    BY <2>1, ChunkFacts DEF MemorySound
  <2>. QED BY <1>1, <2>1, <2>2, ChunkFacts, ChunkKept
<1>. QED BY <1>3, <1>4, <1>5

LEMMA ChunkStep == ChunkInv /\ [ChunkNext]_chunkVars => ChunkInv'
<1> SUFFICES ASSUME ChunkInv, [ChunkNext]_chunkVars PROVE ChunkInv'
  OBVIOUS
<1>1. CASE UNCHANGED chunkVars
  BY <1>1, ChunkFacts, ChunkKept DEF chunkVars
<1>. QED BY <1>1, CommitInv, DecommitInv, AllocateInv, AdjustInv, SwitchInv DEF ChunkNext

LEMMA ChunkStart == ChunkInit => ChunkInv
<1> SUFFICES ASSUME ChunkInit PROVE ChunkInv
  OBVIOUS
<1>1. /\ mem.pages = {} /\ mem.committed = 0 /\ top_ = 0 /\ bottom_ = 0 /\ mem \in Memory
  BY DEF ChunkInit, Memory
<1>2. Pages(0, 0 - 0) = {}
  BY DEF Pages
<1>. QED BY <1>1, <1>2, PageFacts, FS_EmptySet DEF ChunkInv, ChunkType, ChunkSound

\* The bottom of a chunk stays below its top and its memory within its pages.
THEOREM ChunkInvariant == ChunkSpec => []ChunkInv
  BY ChunkStart, ChunkStep, PTL DEF ChunkSpec

\* No page that has memory is free in the bitmap, the multiple model's committed_ counts
\* the pages, and a normal or double ended chunk has what it says it has unless the host
\* refused.
THEOREM ChunksSound == ChunkSpec => []ChunkSound
<1>1. ChunkInv => ChunkSound
  BY DEF ChunkInv
<1>. QED BY <1>1, ChunkInvariant, PTL

\* chunk::allocate gives memory only to pages that were free in the bitmap.
THEOREM AllocatesFree ==
    ChunkSpec => [][\A n \in 1..NumPages : ChunkAllocate(n) => mem'.pages \ mem.pages \subseteq mem.free]_chunkVars
<1>1. ChunkInv /\ [ChunkNext]_chunkVars =>
         [\A n \in 1..NumPages : ChunkAllocate(n) => mem'.pages \ mem.pages \subseteq mem.free]_chunkVars
  BY AllocateInv
<1>. QED BY <1>1, ChunkInvariant, PTL DEF ChunkSpec

(***************************************************************************)
(* The driver's command queue.  The threads cannot come to rest beside a   *)
(* command list because every sleeper has somebody who will wake it: the   *)
(* driver, a sender that is about to notify it; a sender on a queue that   *)
(* is no longer full, as many senders on their way in as there is room; a  *)
(* sender that waits for its status, its command list, which is queued or  *)
(* with the driver.                                                        *)
(***************************************************************************)
Entry == [from : Sender, sync : BOOLEAN]

DriverType ==
    /\ queue \in Seq(Entry) /\ queue_mut \in Sender \cup {Driver, Nobody} /\ mut \in Sender \cup {Nobody}
    /\ at \in [Sender -> {"out", "push", "full", "asleep", "woken", "notify", "test", "unset",
                          "waiting", "wait_for", "relock"}]
    /\ sync \in [Sender -> BOOLEAN] /\ status \in [Sender -> BOOLEAN]
    /\ driver \in {"loop", "pop", "empty", "asleep", "notify", "dispatch", "finish", "stopped"}
    /\ current \in Entry \cup {Idle} /\ missed \in SUBSET Sender
    /\ abort_ \in BOOLEAN /\ aborting \in Nat

LocksHeld ==
    /\ \A s \in Sender : queue_mut = s <=> at[s] = "full"
    /\ queue_mut = Driver <=> driver = "empty"
    /\ \A s \in Sender : at[s] \in {"test", "unset", "waiting", "wait_for", "relock"} => sync[s]
    /\ \A s \in Sender : mut = s => /\ sync[s]
                                    /\ at[s] \in {"push", "full", "asleep", "woken", "notify", "test", "unset"}

DriverWoken ==
    /\ aborting = 0 /\ driver # "stopped"
    /\ driver = "empty" => queue = <<>>
    /\ driver = "asleep" /\ queue # <<>> => \E s \in Sender : at[s] = "notify"
    /\ current # Idle => driver \in {"notify", "dispatch"}

Woken == {s \in Sender : at[s] = "woken"}
Signals == Cardinality(Woken) + IF driver = "notify" THEN 1 ELSE 0

SendersWoken ==
    /\ \A s \in Sender : at[s] = "full" => Len(queue) = MaxPending
    /\ \A s \in Sender : at[s] = "asleep" => MaxPending - Len(queue) <= Signals

SyncEntry(s) == [from |-> s, sync |-> TRUE]
Outstanding(s) ==
    status[s] \/ current = SyncEntry(s) \/ \E i \in DOMAIN queue : queue[i] = SyncEntry(s)

StatusComes ==
    \A s \in Sender :
        /\ at[s] \in {"notify", "test", "unset", "waiting", "wait_for", "relock"} /\ sync[s] => Outstanding(s)
        /\ at[s] = "unset" /\ status[s] => s \in missed
        /\ at[s] = "waiting" /\ status[s] => s \in missed \/ driver = "finish"

DriverInv == DriverType /\ LocksHeld /\ (~abort_ => DriverWoken /\ SendersWoken /\ StatusComes)

\* A sender that goes elsewhere moves no other; Woken counts it.
LEMMA Moved ==
    ASSUME DriverType, NEW s \in Sender, NEW p, Go(s, p)
    PROVE  /\ at'[s] = p /\ \A r \in Sender \ {s} : at'[r] = at[r]
           /\ Cardinality(Woken) \in Nat /\ Cardinality(Woken') \in Nat
           /\ at[s] # "woken" /\ p # "woken" => Cardinality(Woken') = Cardinality(Woken)
           /\ at[s] # "woken" /\ p = "woken" => Cardinality(Woken') = Cardinality(Woken) + 1
           /\ at[s] = "woken" /\ p # "woken" => Cardinality(Woken') = Cardinality(Woken) - 1
<1>1. at'[s] = p /\ \A r \in Sender \ {s} : at'[r] = at[r]
  BY DEF Go, DriverType
<1>2. IsFiniteSet(Woken) /\ IsFiniteSet(Woken')
  BY FS_Subset, DriverAssumption DEF Woken
<1>3. Cardinality(Woken) \in Nat /\ Cardinality(Woken') \in Nat
  BY <1>2, FS_CardinalityType
<1>4. at[s] # "woken" /\ p # "woken" => Woken' = Woken
  BY <1>1 DEF Woken
<1>5. at[s] # "woken" /\ p = "woken" => Woken' = Woken \cup {s} /\ s \notin Woken
  BY <1>1 DEF Woken
<1>6. at[s] = "woken" /\ p # "woken" => Woken' = Woken \ {s} /\ s \in Woken
  BY <1>1 DEF Woken
<1>7. ASSUME at[s] # "woken", p = "woken" PROVE Cardinality(Woken') = Cardinality(Woken) + 1
  BY <1>2, <1>5, <1>7, FS_AddElement
<1>8. ASSUME at[s] = "woken", p # "woken" PROVE Cardinality(Woken') = Cardinality(Woken) - 1
  BY <1>2, <1>6, <1>8, FS_RemoveElement
<1>. QED BY <1>1, <1>3, <1>4, <1>7, <1>8

LEMMA SubmitInv ==
    ASSUME DriverInv, NEW s \in Sender, Submit(s) \/ SubmitSync(s) \/ SubmitPresent(s)
    PROVE  DriverInv'
<1>1. /\ at[s] = "out" /\ Go(s, "push") /\ UNCHANGED <<queue, queue_mut, driver, current, abort_, aborting>>
      /\ sync' \in [Sender -> BOOLEAN] /\ \A r \in Sender \ {s} : sync'[r] = sync[r]
      /\ status' \in [Sender -> BOOLEAN] /\ \A r \in Sender \ {s} : status'[r] = status[r]
      /\ missed' \in SUBSET Sender /\ \A r \in Sender \ {s} : r \in missed' <=> r \in missed
      /\ mut' = mut \/ (mut' = s /\ sync'[s])
  BY DEF Submit, SubmitSync, SubmitPresent, DriverInv, DriverType
<1>2. /\ at'[s] = "push" /\ \A r \in Sender \ {s} : at'[r] = at[r]
      /\ Cardinality(Woken') = Cardinality(Woken)
  BY <1>1, Moved DEF DriverInv
<1>3. DriverType'
  BY <1>1 DEF Go, DriverInv, DriverType, Entry, Idle
<1>4. LocksHeld'
  BY <1>1, <1>2 DEF DriverInv, LocksHeld
<1>5. ASSUME ~abort_ PROVE DriverWoken' /\ SendersWoken' /\ StatusComes'
  <2>1. DriverWoken'
    BY <1>1, <1>2, <1>5 DEF DriverInv, DriverWoken, Idle
  <2>2. SendersWoken'
    BY <1>1, <1>2, <1>5 DEF DriverInv, SendersWoken, Signals
  <2>3. StatusComes'
    BY <1>1, <1>2, <1>5 DEF DriverInv, StatusComes, Outstanding, SyncEntry
  <2>. QED BY <2>1, <2>2, <2>3
<1>. QED BY <1>1, <1>3, <1>4, <1>5 DEF DriverInv

LEMMA PushInv ==
    ASSUME DriverInv, NEW s \in Sender, Push(s)
    PROVE  DriverInv'
<1> DEFINE pushed == IF mut = s THEN "test" ELSE IF sync[s] THEN "wait_for" ELSE "out"
           entry == [from |-> s, sync |-> sync[s]]
<1>1. /\ at[s] \in {"push", "woken"} /\ queue_mut = Nobody
      /\ UNCHANGED <<mut, sync, status, driver, current, abort_, aborting, missed>>
  BY DEF Push
<1>2. \A r \in Sender : at[r] # "full"
  BY <1>1, DriverAssumption DEF DriverInv, LocksHeld
<1>3. driver # "empty"
  BY <1>1, DriverAssumption DEF DriverInv, LocksHeld
<1>4. CASE abort_ /\ Go(s, pushed) /\ UNCHANGED <<queue, queue_mut>>
  <2>1. at'[s] = pushed /\ \A r \in Sender \ {s} : at'[r] = at[r]
    BY <1>4, Moved DEF DriverInv
  <2>2. DriverType'
    BY <1>1, <1>4 DEF Go, DriverInv, DriverType, Entry, Idle
  <2>3. LocksHeld'
    BY <1>1, <1>2, <1>4, <2>1 DEF DriverInv, LocksHeld
  <2>. QED BY <1>1, <1>4, <2>2, <2>3 DEF DriverInv
<1>5. CASE ~abort_ /\ Len(queue) = MaxPending /\ Go(s, "full") /\ queue_mut' = s /\ UNCHANGED queue
  <2>1. at'[s] = "full" /\ \A r \in Sender \ {s} : at'[r] = at[r]
    BY <1>5, Moved DEF DriverInv
  <2>2. DriverType'
    BY <1>1, <1>5 DEF Go, DriverInv, DriverType, Entry, Idle
  <2>3. LocksHeld'
    BY <1>1, <1>2, <1>3, <1>5, <2>1, DriverAssumption DEF DriverInv, LocksHeld
  <2>4. DriverWoken'
    BY <1>1, <1>5, <2>1 DEF DriverInv, DriverWoken, Idle
  <2>5. SendersWoken'
    <3>1. Cardinality(Woken') \in Nat
      BY <1>5, Moved DEF DriverInv
    <3>. QED BY <1>1, <1>5, <2>1, <3>1, DriverAssumption DEF DriverInv, SendersWoken, Signals
  <2>6. StatusComes'
    BY <1>1, <1>5, <2>1 DEF DriverInv, StatusComes, Outstanding, SyncEntry
  <2>. QED BY <2>2, <2>3, <2>4, <2>5, <2>6 DEF DriverInv
<1>6. CASE ~abort_ /\ Len(queue) # MaxPending /\ queue' = Append(queue, entry) /\ Go(s, "notify") /\ UNCHANGED queue_mut
  <2>1. at'[s] = "notify" /\ \A r \in Sender \ {s} : at'[r] = at[r]
    BY <1>6, Moved DEF DriverInv
  <2>2. entry \in Entry /\ queue \in Seq(Entry)
    BY DEF DriverInv, DriverType, Entry
  <2>3. /\ queue' \in Seq(Entry) /\ Len(queue') = Len(queue) + 1
        /\ DOMAIN queue' = 1..Len(queue') /\ DOMAIN queue = 1..Len(queue) /\ Len(queue) \in Nat
        /\ queue'[Len(queue')] = entry /\ \A i \in DOMAIN queue : queue'[i] = queue[i]
    BY <1>6, <2>2
  <2>4. DriverType'
    BY <1>1, <1>6, <2>3 DEF Go, DriverInv, DriverType, Entry, Idle
  <2>5. LocksHeld'
    BY <1>1, <1>2, <1>6, <2>1, DriverAssumption DEF DriverInv, LocksHeld
  <2>6. DriverWoken'
    BY <1>1, <1>3, <1>6, <2>1 DEF DriverInv, DriverWoken, Idle
  <2>7. SendersWoken'
    <3>1. /\ Cardinality(Woken) \in Nat /\ Cardinality(Woken') \in Nat
          /\ Cardinality(Woken') >= Cardinality(Woken) - 1
      BY <1>6, Moved DEF DriverInv
    <3>2. ASSUME NEW r \in Sender, at'[r] = "asleep" PROVE MaxPending - Len(queue') <= Signals'
      <4>1. MaxPending - Len(queue) <= Signals
        BY <1>6, <2>1, <3>2 DEF DriverInv, SendersWoken
      <4>. QED BY <1>1, <2>3, <3>1, <4>1, DriverAssumption DEF Signals
    <3>. QED BY <1>2, <2>1, <3>2 DEF SendersWoken
  <2>8. StatusComes'
    <3>1. sync[s] => Outstanding(s)'
      <4>1. sync[s] => entry = SyncEntry(s)
        BY DEF SyncEntry, DriverInv, DriverType
      <4>2. Len(queue') \in DOMAIN queue'
        BY <2>3
      <4>. QED BY <2>3, <4>1, <4>2 DEF Outstanding, SyncEntry
    <3>2. \A r \in Sender : Outstanding(r) => Outstanding(r)'
      <4>1. DOMAIN queue \subseteq DOMAIN queue'
        BY <2>3
      <4>. QED BY <1>1, <2>3, <4>1 DEF Outstanding, SyncEntry
    <3>. QED BY <1>1, <1>6, <2>1, <3>1, <3>2 DEF DriverInv, StatusComes
  <2>. QED BY <2>4, <2>5, <2>6, <2>7, <2>8 DEF DriverInv
<1>. QED BY <1>4, <1>5, <1>6 DEF Push, Pushed

\* Steps of a sender that holds queue_mut_ or no mutex of the queue, and leave the queue alone.
LEMMA SleepFullInv ==
    ASSUME DriverInv, NEW s \in Sender, SleepFull(s)
    PROVE  DriverInv'
<1>1. /\ at[s] = "full" /\ Go(s, "asleep") /\ queue_mut = s /\ queue_mut' = Nobody
      /\ UNCHANGED <<queue, mut, sync, status, driver, current, abort_, aborting, missed>>
  BY DEF SleepFull, DriverInv, LocksHeld
<1>2. /\ at'[s] = "asleep" /\ \A r \in Sender \ {s} : at'[r] = at[r]
      /\ Cardinality(Woken') \in Nat
  BY <1>1, Moved DEF DriverInv
<1>3. DriverType'
  BY <1>1 DEF Go, DriverInv, DriverType, Entry, Idle
<1>4. LocksHeld'
  BY <1>1, <1>2, DriverAssumption DEF DriverInv, LocksHeld
<1>5. ASSUME ~abort_ PROVE DriverWoken' /\ SendersWoken' /\ StatusComes'
  <2>1. DriverWoken'
    BY <1>1, <1>2, <1>5 DEF DriverInv, DriverWoken, Idle
  <2>2. SendersWoken'
    BY <1>1, <1>2, <1>5, DriverAssumption DEF DriverInv, SendersWoken, Signals
  <2>3. StatusComes'
    BY <1>1, <1>2, <1>5 DEF DriverInv, StatusComes, Outstanding, SyncEntry
  <2>. QED BY <2>1, <2>2, <2>3
<1>. QED BY <1>1, <1>3, <1>4, <1>5 DEF DriverInv

LEMMA NotifyDriverInv ==
    ASSUME DriverInv, NEW s \in Sender, NotifyDriver(s)
    PROVE  DriverInv'
<1> DEFINE pushed == IF mut = s THEN "test" ELSE IF sync[s] THEN "wait_for" ELSE "out"
<1>1. /\ at[s] = "notify" /\ Go(s, pushed) /\ driver' = IF driver = "asleep" THEN "pop" ELSE driver
      /\ UNCHANGED <<queue, queue_mut, mut, sync, status, current, abort_, aborting, missed>>
  BY DEF NotifyDriver, Pushed
<1>2. /\ at'[s] = pushed /\ \A r \in Sender \ {s} : at'[r] = at[r]
      /\ Cardinality(Woken') = Cardinality(Woken)
  BY <1>1, Moved DEF DriverInv
<1>3. DriverType'
  BY <1>1 DEF Go, DriverInv, DriverType, Entry, Idle
<1>4. LocksHeld'
  BY <1>1, <1>2, DriverAssumption DEF DriverInv, LocksHeld
<1>5. ASSUME ~abort_ PROVE DriverWoken' /\ SendersWoken' /\ StatusComes'
  <2>1. DriverWoken'
    BY <1>1, <1>2, <1>5 DEF DriverInv, DriverWoken, Idle
  <2>2. SendersWoken'
    BY <1>1, <1>2, <1>5 DEF DriverInv, SendersWoken, Signals
  <2>3. StatusComes'
    BY <1>1, <1>2, <1>5 DEF DriverInv, StatusComes, Outstanding, SyncEntry
  <2>. QED BY <2>1, <2>2, <2>3
<1>. QED BY <1>1, <1>3, <1>4, <1>5 DEF DriverInv

\* Waiting for the status touches neither the queue nor the driver.
LEMMA StatusInv ==
    ASSUME DriverInv, NEW s \in Sender, TestStatus(s) \/ SleepStatus(s) \/ WaitFor(s) \/ Relock(s)
    PROVE  DriverInv'
<1>1. PICK p \in {"out", "unset", "waiting", "relock", "test"} :
         /\ at[s] \in {"test", "unset", "wait_for", "relock"} /\ Go(s, p)
         /\ p = "unset" => ~status[s]
         /\ p = "waiting" => at[s] = "unset"
         /\ \/ mut' = Nobody
            \/ mut' = mut /\ p = "unset"
            \/ mut' = mut /\ at[s] = "wait_for" /\ p \in {"out", "relock"}
            \/ mut' = s /\ p = "test"
         /\ UNCHANGED <<queue, queue_mut, sync, status, driver, current, abort_, aborting, missed>>
  BY DEF TestStatus, SleepStatus, WaitFor, Relock
<1>2. /\ at'[s] = p /\ \A r \in Sender \ {s} : at'[r] = at[r]
      /\ Cardinality(Woken') = Cardinality(Woken)
  BY <1>1, Moved DEF DriverInv
<1>3. DriverType'
  BY <1>1 DEF Go, DriverInv, DriverType, Entry, Idle
<1>4. LocksHeld'
  BY <1>1, <1>2, DriverAssumption DEF DriverInv, LocksHeld
<1>5. ASSUME ~abort_ PROVE DriverWoken' /\ SendersWoken' /\ StatusComes'
  <2>1. DriverWoken'
    BY <1>1, <1>2, <1>5 DEF DriverInv, DriverWoken, Idle
  <2>2. SendersWoken'
    BY <1>1, <1>2, <1>5 DEF DriverInv, SendersWoken, Signals
  <2>3. StatusComes'
    BY <1>1, <1>2, <1>5 DEF DriverInv, StatusComes, Outstanding, SyncEntry
  <2>. QED BY <2>1, <2>2, <2>3
<1>. QED BY <1>1, <1>3, <1>4, <1>5 DEF DriverInv

\* Steps of the driver that leave the queue and the senders alone.
LEMMA LoopInv ==
    ASSUME DriverInv, Loop \/ SleepEmpty
    PROVE  DriverInv'
<1>1. /\ UNCHANGED <<queue, mut, at, sync, status, current, abort_, aborting, missed>>
      /\ \/ /\ driver = "loop" /\ driver' = IF aborting = 4 THEN "stopped" ELSE "pop"
            /\ UNCHANGED queue_mut
         \/ driver = "empty" /\ driver' = "asleep" /\ queue_mut' = Nobody
  BY DEF Loop, SleepEmpty, senderVars
<1>2. Woken' = Woken
  BY <1>1 DEF Woken
<1>3. DriverType'
  BY <1>1 DEF DriverInv, DriverType, Entry, Idle
<1>4. LocksHeld'
  BY <1>1, DriverAssumption DEF DriverInv, LocksHeld
<1>5. ASSUME ~abort_ PROVE DriverWoken' /\ SendersWoken' /\ StatusComes'
  <2>1. DriverWoken'
    BY <1>1, <1>5 DEF DriverInv, DriverWoken, Idle
  <2>2. SendersWoken'
    BY <1>1, <1>2, <1>5 DEF DriverInv, SendersWoken, Signals
  <2>3. StatusComes'
    BY <1>1, <1>5 DEF DriverInv, StatusComes, Outstanding, SyncEntry
  <2>. QED BY <2>1, <2>2, <2>3
<1>. QED BY <1>1, <1>3, <1>4, <1>5 DEF DriverInv

LEMMA PopInv ==
    ASSUME DriverInv, Pop
    PROVE  DriverInv'
<1>1. /\ driver = "pop" /\ queue_mut = Nobody
      /\ UNCHANGED <<mut, at, sync, status, abort_, aborting, missed>>
  BY DEF Pop, senderVars
<1>2. \A r \in Sender : at[r] # "full"
  BY <1>1, DriverAssumption DEF DriverInv, LocksHeld
<1>3. Woken' = Woken /\ Cardinality(Woken) \in Nat
  BY <1>1, FS_Subset, FS_CardinalityType, DriverAssumption DEF Woken
<1>4. CASE abort_ /\ driver' = "stopped" /\ UNCHANGED <<queue, queue_mut, current>>
  <2>1. DriverType'
    BY <1>1, <1>4 DEF DriverInv, DriverType, Entry, Idle
  <2>2. LocksHeld'
    BY <1>1, <1>4, DriverAssumption DEF DriverInv, LocksHeld
  <2>. QED BY <1>1, <1>4, <2>1, <2>2 DEF DriverInv
<1>5. CASE ~abort_ /\ queue = <<>> /\ driver' = "empty" /\ queue_mut' = Driver /\ UNCHANGED <<queue, current>>
  <2>1. DriverType'
    BY <1>1, <1>5 DEF DriverInv, DriverType, Entry, Idle
  <2>2. LocksHeld'
    BY <1>1, <1>2, <1>5, DriverAssumption DEF DriverInv, LocksHeld
  <2>3. DriverWoken'
    BY <1>1, <1>5 DEF DriverInv, DriverWoken, Idle
  <2>4. SendersWoken'
    BY <1>1, <1>3, <1>5 DEF DriverInv, SendersWoken, Signals
  <2>5. StatusComes'
    BY <1>1, <1>5 DEF DriverInv, StatusComes, Outstanding, SyncEntry
  <2>. QED BY <2>1, <2>2, <2>3, <2>4, <2>5 DEF DriverInv
<1>6. CASE /\ ~abort_ /\ queue # <<>> /\ current' = Head(queue) /\ queue' = Tail(queue)
           /\ driver' = "notify" /\ UNCHANGED queue_mut
  <2>1. queue \in Seq(Entry)
    BY DEF DriverInv, DriverType
  <2>2. /\ queue' \in Seq(Entry) /\ Len(queue') = Len(queue) - 1 /\ Len(queue) \in Nat
        /\ current' = queue[1] /\ current' \in Entry
        /\ \A i \in 1..Len(queue') : queue'[i] = queue[i + 1]
    BY <1>6, <2>1
  <2>3. DriverType'
    BY <1>1, <1>6, <2>2 DEF DriverInv, DriverType, Entry, Idle
  <2>4. LocksHeld'
    BY <1>1, <1>6, DriverAssumption DEF DriverInv, LocksHeld
  <2>5. DriverWoken'
    BY <1>1, <1>6 DEF DriverInv, DriverWoken, Idle
  <2>6. SendersWoken'
    <3>1. ASSUME NEW r \in Sender, at'[r] = "asleep" PROVE MaxPending - Len(queue') <= Signals'
      <4>1. MaxPending - Len(queue) <= Signals
        BY <1>1, <1>6, <3>1 DEF DriverInv, SendersWoken
      <4>2. Signals = Cardinality(Woken) /\ Signals' = Cardinality(Woken) + 1
        BY <1>1, <1>3, <1>6 DEF Signals
      <4>. QED BY <1>3, <2>2, <4>1, <4>2, DriverAssumption
    <3>. QED BY <1>1, <1>2, <3>1 DEF SendersWoken
  <2>7. StatusComes'
    <3>1. current = Idle
      BY <1>1, <1>6 DEF DriverInv, DriverWoken
    <3>2. ASSUME NEW r \in Sender, Outstanding(r) PROVE Outstanding(r)'
      <4>1. current # SyncEntry(r)
        BY <3>1 DEF Idle, SyncEntry
      <4>2. ASSUME NEW i \in DOMAIN queue, queue[i] = SyncEntry(r) PROVE Outstanding(r)'
        <5>1. CASE i = 1
          BY <2>2, <4>2, <5>1 DEF Outstanding, SyncEntry
        <5>2. CASE i # 1
          <6>1. i - 1 \in 1..Len(queue') /\ DOMAIN queue' = 1..Len(queue')
            BY <2>1, <2>2, <5>2
          <6>2. queue'[i - 1] = queue[i]
            BY <2>1, <2>2, <6>1
          <6>. QED BY <4>2, <6>1, <6>2 DEF Outstanding, SyncEntry
        <5>. QED BY <5>1, <5>2
      <4>. QED BY <1>1, <3>2, <4>1, <4>2 DEF Outstanding
    <3>. QED BY <1>1, <1>6, <3>2 DEF DriverInv, StatusComes
  <2>. QED BY <2>3, <2>4, <2>5, <2>6, <2>7 DEF DriverInv
<1>. QED BY <1>4, <1>5, <1>6 DEF Pop

LEMMA NotifySenderInv ==
    ASSUME DriverInv, NotifySender
    PROVE  DriverInv'
<1>1. /\ driver = "notify" /\ driver' = "dispatch"
      /\ UNCHANGED <<queue, queue_mut, mut, sync, status, current, abort_, aborting, missed>>
  BY DEF NotifySender, senderVars
<1>2. CASE (\A s \in Sender : at[s] # "asleep") /\ UNCHANGED at
  <2>1. DriverType'
    BY <1>1, <1>2 DEF DriverInv, DriverType, Entry, Idle
  <2>2. LocksHeld'
    BY <1>1, <1>2 DEF DriverInv, LocksHeld
  <2>3. ASSUME ~abort_ PROVE DriverWoken' /\ SendersWoken' /\ StatusComes'
    <3>1. DriverWoken'
      BY <1>1, <1>2, <2>3 DEF DriverInv, DriverWoken, Idle
    <3>2. SendersWoken'
      BY <1>1, <1>2, <2>3 DEF DriverInv, SendersWoken
    <3>3. StatusComes'
      BY <1>1, <1>2, <2>3 DEF DriverInv, StatusComes, Outstanding, SyncEntry
    <3>. QED BY <3>1, <3>2, <3>3
  <2>. QED BY <1>1, <2>1, <2>2, <2>3 DEF DriverInv
<1>3. ASSUME NEW s \in Sender, at[s] = "asleep", Go(s, "woken")
      PROVE  DriverInv'
  <2>1. /\ at'[s] = "woken" /\ \A r \in Sender \ {s} : at'[r] = at[r]
        /\ Cardinality(Woken) \in Nat /\ Cardinality(Woken') = Cardinality(Woken) + 1
    BY <1>3, Moved DEF DriverInv
  <2>2. DriverType'
    BY <1>1, <1>3 DEF Go, DriverInv, DriverType, Entry, Idle
  <2>3. LocksHeld'
    BY <1>1, <1>3, <2>1 DEF DriverInv, LocksHeld
  <2>4. ASSUME ~abort_ PROVE DriverWoken' /\ SendersWoken' /\ StatusComes'
    <3>1. DriverWoken'
      BY <1>1, <1>3, <2>1, <2>4 DEF DriverInv, DriverWoken, Idle
    <3>2. Signals' = Signals
      BY <1>1, <2>1 DEF Signals
    <3>3. SendersWoken'
      BY <1>1, <1>3, <2>1, <2>4, <3>2 DEF DriverInv, SendersWoken
    <3>4. StatusComes'
      BY <1>1, <1>3, <2>1, <2>4 DEF DriverInv, StatusComes, Outstanding, SyncEntry
    <3>. QED BY <3>1, <3>3, <3>4
  <2>. QED BY <1>1, <2>2, <2>3, <2>4 DEF DriverInv
<1>. QED BY <1>2, <1>3 DEF NotifySender

LEMMA DispatchInv ==
    ASSUME DriverInv, Dispatch
    PROVE  DriverInv'
<1>1. /\ driver = "dispatch" /\ current' = Idle /\ driver' \in {"finish", "loop"}
      /\ UNCHANGED <<queue, queue_mut, mut, at, sync, abort_, aborting>>
  BY DEF Dispatch
<1>2. /\ status' \in [Sender -> BOOLEAN] /\ missed' \in SUBSET Sender
      /\ \A s \in Sender :
            /\ status[s] => status'[s] /\ (s \in missed => s \in missed')
            /\ current = SyncEntry(s) => status'[s]
            /\ status'[s] => \/ status[s]
                             \/ (at[s] = "unset" => s \in missed') /\ driver' = "finish"
  <2>1. CASE current.sync
    <3>1. current \in Entry
      BY <2>1 DEF DriverInv, DriverType, Idle
    <3>2. current.from \in Sender
      BY <3>1 DEF Entry
    <3>3. /\ status' = [status EXCEPT ![current.from] = TRUE] /\ driver' = "finish"
          /\ missed' = missed \cup {s \in {current.from} : at[s] = "unset"}
      BY <2>1 DEF Dispatch
    <3>. QED BY <3>2, <3>3 DEF DriverInv, DriverType, SyncEntry
  <2>2. CASE ~current.sync
    BY <2>2 DEF Dispatch, DriverInv, DriverType, SyncEntry
  <2>. QED BY <2>1, <2>2
<1>3. Woken' = Woken
  BY <1>1 DEF Woken
<1>4. DriverType'
  BY <1>1, <1>2 DEF DriverInv, DriverType, Entry, Idle
<1>5. LocksHeld'
  BY <1>1, <1>2 DEF DriverInv, LocksHeld
<1>6. ASSUME ~abort_ PROVE DriverWoken' /\ SendersWoken' /\ StatusComes'
  <2>1. DriverWoken'
    BY <1>1, <1>6 DEF DriverInv, DriverWoken, Idle
  <2>2. SendersWoken'
    BY <1>1, <1>3, <1>6 DEF DriverInv, SendersWoken, Signals
  <2>3. StatusComes'
    BY <1>1, <1>2, <1>6 DEF DriverInv, StatusComes, Outstanding, SyncEntry
  <2>. QED BY <2>1, <2>2, <2>3
<1>. QED BY <1>1, <1>4, <1>5, <1>6 DEF DriverInv

LEMMA FinishInv ==
    ASSUME DriverInv, Finish
    PROVE  DriverInv'
<1>1. /\ driver = "finish" /\ driver' = "loop"
      /\ UNCHANGED <<queue, queue_mut, mut, sync, status, current, abort_, aborting, missed>>
  BY DEF Finish, senderVars
<1>2. \A s \in Sender : at'[s] = IF at[s] = "waiting" THEN "relock" ELSE at[s]
  BY DEF Finish
<1>3. Woken' = Woken
  BY <1>2 DEF Woken
<1>4. DriverType'
  BY <1>1 DEF Finish, DriverInv, DriverType, Entry, Idle
<1>5. LocksHeld'
  BY <1>1, <1>2 DEF DriverInv, LocksHeld
<1>6. ASSUME ~abort_ PROVE DriverWoken' /\ SendersWoken' /\ StatusComes'
  <2>1. DriverWoken'
    BY <1>1, <1>2, <1>6 DEF DriverInv, DriverWoken, Idle
  <2>2. SendersWoken'
    BY <1>1, <1>2, <1>3, <1>6 DEF DriverInv, SendersWoken, Signals
  <2>3. StatusComes'
    BY <1>1, <1>2, <1>6 DEF DriverInv, StatusComes, Outstanding, SyncEntry
  <2>. QED BY <2>1, <2>2, <2>3
<1>. QED BY <1>1, <1>4, <1>5, <1>6 DEF DriverInv

LEMMA AbortInv ==
    ASSUME DriverInv, Abort
    PROVE  DriverInv'
<1>1. \A s \in Sender : at'[s] = at[s] \/ (at[s] = "asleep" /\ at'[s] = "woken")
  BY DEF Abort
<1>2. DriverType'
  BY DEF Abort, senderVars, DriverInv, DriverType, Entry, Idle
<1>3. LocksHeld'
  BY <1>1 DEF Abort, senderVars, DriverInv, LocksHeld
<1>. QED BY <1>2, <1>3 DEF Abort, DriverInv

LEMMA DriverKept ==
    ASSUME DriverInv, UNCHANGED driverVars
    PROVE  DriverInv'
<1>1. Woken' = Woken
  BY DEF driverVars, Woken
<1>2. DriverType' /\ LocksHeld' /\ (~abort_ => DriverWoken' /\ StatusComes')
  BY DEF driverVars, DriverInv, DriverType, LocksHeld, DriverWoken, StatusComes, Outstanding, SyncEntry, Entry, Idle
<1>3. ~abort_ => SendersWoken'
  BY <1>1 DEF driverVars, DriverInv, SendersWoken, Signals
<1>. QED BY <1>2, <1>3 DEF driverVars, DriverInv

LEMMA DriverStart == DriverInit => DriverInv
<1> SUFFICES ASSUME DriverInit PROVE DriverInv
  OBVIOUS
<1>1. DriverType
  <2>1. queue \in Seq(Entry) /\ current \in Entry \cup {Idle}
    BY DEF DriverInit
  <2>. QED BY <2>1 DEF DriverInit, DriverType
<1>2. LocksHeld
  BY DriverAssumption DEF DriverInit, LocksHeld
<1>3. DriverWoken /\ SendersWoken /\ StatusComes
  BY DEF DriverInit, DriverWoken, SendersWoken, StatusComes
<1>. QED BY <1>1, <1>2, <1>3 DEF DriverInv

\* Every sleeper has somebody who will wake it, as long as the driver is not aborted.
THEOREM DriverInvariant == DriverSpec => []DriverInv
<1>1. DriverInv /\ [DriverNext]_driverVars => DriverInv'
  BY SubmitInv, PushInv, SleepFullInv, NotifyDriverInv, StatusInv, LoopInv, PopInv, NotifySenderInv,
     DispatchInv, FinishInv, AbortInv, DriverKept DEF DriverNext, SenderStep, DriverStep
<1>. QED BY <1>1, DriverStart, PTL DEF DriverSpec

\* The driver's thread and the senders never all come to rest beside a command list, a
\* sender on its way in, or one whose status was not written while it was falling asleep.
THEOREM NoCommandStranded == DriverSpec => []EveryCommandDispatched
<1>1. ASSUME DriverInv, Quiet, ~abort_
      PROVE  /\ queue = <<>>
             /\ \A s \in Sender : at[s] = "out" \/ (at[s] = "waiting" /\ s \in missed)
  <2>1. queue_mut = Nobody
    <3>1. queue_mut \notin Sender
      BY <1>1 DEF DriverInv, LocksHeld, Quiet, Stuck
    <3>2. queue_mut # Driver
      BY <1>1 DEF DriverInv, LocksHeld, Quiet, DriverStuck
    <3>. QED BY <1>1, <3>1, <3>2 DEF DriverInv, DriverType
  <2>2. driver = "asleep" /\ current = Idle
    BY <1>1, <2>1 DEF Quiet, DriverStuck, DriverInv, DriverWoken
  <2>3. \A s \in Sender : at[s] \in {"out", "asleep", "waiting"} \/ (at[s] = "relock" /\ mut # Nobody)
    BY <1>1, <2>1 DEF Quiet, Stuck
  <2>4. queue = <<>>
    BY <1>1, <2>2, <2>3 DEF DriverInv, DriverWoken
  <2>5. \A s \in Sender : at[s] # "asleep"
    <3>1. Woken = {}
      BY <2>3 DEF Woken
    <3>2. Signals = 0
      BY <2>2, <3>1, FS_EmptySet DEF Signals
    <3>. QED BY <1>1, <2>4, <3>2, DriverAssumption DEF DriverInv, SendersWoken
  <2>6. mut = Nobody
    BY <1>1, <2>3, <2>5 DEF DriverInv, DriverType, LocksHeld
  <2>7. ASSUME NEW s \in Sender, at[s] = "waiting" PROVE s \in missed
    <3>1. Outstanding(s)
      BY <1>1, <2>7 DEF DriverInv, LocksHeld, StatusComes
    <3>2. status[s]
      BY <2>2, <2>4, <3>1 DEF Outstanding, SyncEntry, Idle
    <3>. QED BY <1>1, <2>2, <2>7, <3>2 DEF DriverInv, StatusComes
  <2>. QED BY <2>3, <2>4, <2>5, <2>6, <2>7
<1>2. DriverInv => EveryCommandDispatched
  BY <1>1 DEF EveryCommandDispatched
<1>. QED BY <1>2, DriverInvariant, PTL

(***************************************************************************)
(* The order of window groups.  Whether a group has to be moved is found   *)
(* by one walk over the list and where it goes by another, over the list   *)
(* without it; both are made of runs of groups with one thing in common.   *)
(***************************************************************************)
Once(list) == \A i, j \in DOMAIN list : list[i] = list[j] => i = j

WindowInv == child \in Seq(Group) /\ Once(child) /\ priority \in [Group -> Nat]

\* n is the length of the run of windows in set that begins at place i of list.
IsRun(n, list, i, set) ==
    /\ n \in Nat /\ i + n <= Len(list) + 1 /\ \A j \in i..(i + n - 1) : list[j] \in set
    /\ i + n <= Len(list) => list[i + n] \notin set

LEMMA RunIs ==
    ASSUME NEW list \in Seq(Group), NEW i \in 1..(Len(list) + 1), NEW set
    PROVE  IsRun(RunFrom(list, i, set), list, i, set)
<1> DEFINE S == {n \in 0..Len(list) : i + n <= Len(list) + 1 /\ \A j \in i..(i + n - 1) : list[j] \in set}
<1>l. PICK l \in Nat : l = Len(list) /\ i \in 1..(l + 1)
  OBVIOUS
<1>1. 0 \in S
  BY <1>l
<1>2. \E n \in S : \A y \in S : n >= y
  <2> DEFINE D == {l - n : n \in S}
  <2>1. D \in SUBSET Nat /\ D # {}
    BY <1>l, <1>1
  <2>2. PICK m \in D : \A k \in D : m <= k
    BY <2>1, LeastNat
  <2>3. PICK n \in S : m = l - n
    OBVIOUS
  <2>4. ASSUME NEW y \in S PROVE n >= y
    <3>1. l - y \in D
      OBVIOUS
    <3>2. l - n <= l - y
      BY <2>2, <2>3, <3>1
    <3>3. n \in Nat /\ y \in Nat
      BY <1>l
    <3>. QED BY <3>2, <3>3, <1>l
  <2>. QED BY <2>4
<1>3. PICK n : n = RunFrom(list, i, set)
  OBVIOUS
<1>4. n \in S /\ \A y \in S : n >= y
  BY <1>2, <1>3 DEF RunFrom, Max
<1>5. ASSUME i + n <= l PROVE list[i + n] \notin set
  <2>1. n \in Nat /\ n + 1 \notin S
    BY <1>l, <1>4
  <2>2. n + 1 \in 0..l /\ i + (n + 1) <= l + 1
    BY <1>l, <1>5, <2>1
  <2>3. PICK j \in i..(i + (n + 1) - 1) : list[j] \notin set
    BY <1>l, <2>1, <2>2
  <2>4. j = i + n
    BY <1>l, <1>4, <2>1, <2>3
  <2>. QED BY <2>3, <2>4
<1>. QED BY <1>l, <1>3, <1>4, <1>5 DEF IsRun

LEMMA RunOnly ==
    ASSUME NEW list \in Seq(Group), NEW i \in 1..(Len(list) + 1), NEW set, NEW m, IsRun(m, list, i, set)
    PROVE  RunFrom(list, i, set) = m
<1>1. PICK n : n = RunFrom(list, i, set) /\ IsRun(n, list, i, set)
  BY RunIs
<1>2. m \in Nat /\ n \in Nat /\ i \in Nat /\ Len(list) \in Nat
  BY <1>1 DEF IsRun
<1>3. ~(m < n)
  <2>1. m < n => i + m \in i..(i + n - 1) /\ i + m <= Len(list)
    BY <1>1, <1>2 DEF IsRun
  <2>. QED BY <1>1, <2>1 DEF IsRun
<1>4. ~(n < m)
  <2>1. n < m => i + n \in i..(i + m - 1) /\ i + n <= Len(list)
    BY <1>2 DEF IsRun
  <2>. QED BY <1>1, <2>1 DEF IsRun
<1>. QED BY <1>1, <1>2, <1>3, <1>4

LEMMA StepsIn == ASSUME NEW pos \in Int, NEW n \in Nat PROVE Steps(pos, n) \in 0..n
<1>1. CASE pos < 0
  BY <1>1 DEF Steps
<1>2. CASE ~(pos < 0)
  <2>1. PICK m \in {pos, n} : \A y \in {pos, n} : m <= y
    OBVIOUS
  <2>2. Min({pos, n}) \in {pos, n} /\ \A y \in {pos, n} : Min({pos, n}) <= y
    BY <2>1 DEF Min
  <2>. QED BY <1>2, <2>2 DEF Steps
<1>. QED BY <1>1, <1>2

\* Taken out and put back in the same place.
LEMMA TakenOut ==
    ASSUME NEW list \in Seq(Group), NEW i \in 1..Len(list)
    PROVE  /\ RemoveAt(list, i) \in Seq(Group) /\ Len(RemoveAt(list, i)) = Len(list) - 1
           /\ DOMAIN RemoveAt(list, i) = 1..(Len(list) - 1)
           /\ \A j \in 1..(Len(list) - 1) : RemoveAt(list, i)[j] = IF j < i THEN list[j] ELSE list[j + 1]
<1>1. RemoveAt(list, i) = Removal(list, i)
  BY DEF RemoveAt, Removal
<1>. QED BY <1>1, RemovedAt

LEMMA PutIn ==
    ASSUME NEW list \in Seq(Group), NEW i \in 1..(Len(list) + 1), NEW g \in Group
    PROVE  Inserted(InsertAt(list, i, g), Group, list, i - 1, g)
<1>1. i - 1 \in 0..Len(list) /\ (i - 1) + 1 = i
  OBVIOUS
<1>2. InsertAt(list, i, g) = Insertion(list, i - 1, g)
  BY <1>1 DEF InsertAt, Insertion
<1>. QED BY <1>1, <1>2, InsertionIs

LEMMA PutBack ==
    ASSUME NEW list \in Seq(Group), NEW i \in 1..Len(list)
    PROVE  InsertAt(RemoveAt(list, i), i, list[i]) = list
<1>l. PICK l \in Nat : l = Len(list) /\ i \in 1..l /\ DOMAIN list = 1..l
  OBVIOUS
<1>r. PICK r : r = RemoveAt(list, i)
  OBVIOUS
<1>1. /\ r \in Seq(Group) /\ Len(r) = l - 1
      /\ \A j \in 1..(l - 1) : r[j] = IF j < i THEN list[j] ELSE list[j + 1]
  BY <1>l, <1>r, TakenOut
<1>2. list[i] \in Group /\ i \in 1..(Len(r) + 1)
  BY <1>l, <1>1
<1>3. PICK c : c = InsertAt(r, i, list[i]) /\ Inserted(c, Group, r, i - 1, list[i])
  BY <1>1, <1>2, PutIn
<1>4. /\ c \in Seq(Group) /\ Len(c) = l /\ DOMAIN c = 1..l
      /\ \A j \in 1..l : c[j] = IF j <= i - 1 THEN r[j] ELSE IF j = i - 1 + 1 THEN list[i] ELSE r[j - 1]
  BY <1>l, <1>1, <1>3 DEF Inserted
<1>5. ASSUME NEW j \in 1..l PROVE c[j] = list[j]
  <2>1. CASE j < i
    <3>1. j \in 1..(l - 1) /\ j <= i - 1
      BY <1>l, <2>1
    <3>. QED BY <1>1, <1>4, <2>1, <3>1
  <2>2. CASE j = i
    BY <1>l, <1>4, <2>2
  <2>3. CASE j > i
    <3>1. j - 1 \in 1..(l - 1) /\ ~(j - 1 < i) /\ j - 1 + 1 = j /\ ~(j <= i - 1) /\ j # i - 1 + 1
      BY <1>l, <2>3
    <3>2. c[j] = r[j - 1]
      BY <1>4, <3>1
    <3>3. r[j - 1] = list[j]
      BY <1>1, <3>1
    <3>. QED BY <3>2, <3>3
  <2>. QED BY <1>l, <2>1, <2>2, <2>3
<1>6. c = list
  BY <1>l, <1>4, <1>5
<1>. QED BY <1>3, <1>6, <1>r

\* When check_order_change finds g in place and nothing in front of it has a lower
\* priority, move_window puts it where it was.
LEMMA InPlace ==
    ASSUME NEW list \in Seq(Group), Once(list),
           NEW pri \in [Group -> Nat], NEW i \in 1..Len(list), NEW g, g = list[i], NEW pos \in Int,
           \A j \in 1..(i - 1) : ~(pri[list[j]] < pri[g]),
           ~CheckOrderChange(list, pri, g, pos)
    PROVE  MoveWindow(list, pri, g, pos) = list
<1>l. PICK l \in Nat : l = Len(list) /\ i \in 1..l /\ DOMAIN list = 1..l
  OBVIOUS
<1>d. \A j \in 1..l : list[j] = g => j = i
  BY <1>l DEF Once
<1>g. g \in Group /\ \A j \in 1..l : list[j] \in Group /\ pri[list[j]] \in Nat
  BY <1>l
<1>s. PICK front, above, equal :
         /\ front = {w \in Group : w = g \/ pri[g] < pri[w]}
         /\ above = {w \in Group : pri[g] < pri[w]}
         /\ equal = {w \in Group : pri[g] = pri[w]} /\ equal = {w \in Group : pri[w] = pri[g]}
  <2>1. {w \in Group : pri[g] = pri[w]} = {w \in Group : pri[w] = pri[g]}
    OBVIOUS
  <2>. QED BY <2>1
<1>1. PICK skipped : skipped = RunFrom(list, 1, front) /\ IsRun(skipped, list, 1, front)
  BY <1>l, RunIs
<1>2. /\ skipped \in Nat /\ skipped <= l /\ \A j \in 1..skipped : list[j] \in front
      /\ skipped < l => list[skipped + 1] \notin front
  BY <1>l, <1>1 DEF IsRun
<1>3. PICK cur : cur = IF skipped > 0 /\ list[skipped] = g THEN skipped ELSE skipped + 1
  OBVIOUS
<1>4. PICK peers : peers = RunFrom(list, cur + 1, equal)
  OBVIOUS
<1>5. cur \in 1..l /\ list[cur + Steps(pos, peers)] = g
  <2>1. ~(cur > Len(list) \/ list[cur + Steps(pos, peers)] # g)
    BY <1>s, <1>1, <1>3, <1>4 DEF CheckOrderChange
  <2>. QED BY <2>1, <1>2, <1>3, <1>l
<1>6. IsRun(peers, list, cur + 1, equal)
  BY <1>l, <1>4, <1>5, RunIs
<1>7. /\ peers \in Nat /\ cur + peers <= l /\ \A j \in (cur + 1)..(cur + peers) : list[j] \in equal
      /\ cur + peers < l => list[cur + peers + 1] \notin equal
  <2>1. peers \in Nat /\ (cur + 1) + peers <= l + 1 /\ cur \in Nat
    BY <1>l, <1>5, <1>6 DEF IsRun
  <2>2. \A j \in (cur + 1)..(cur + peers) : j \in (cur + 1)..((cur + 1) + peers - 1)
    BY <2>1
  <2>3. (cur + 1) + peers = cur + peers + 1
    BY <2>1
  <2>. QED BY <1>l, <1>6, <2>1, <2>2, <2>3 DEF IsRun
<1>8. PICK st \in 0..peers : st = Steps(pos, peers)
  BY <1>7, StepsIn
<1>9. cur + st = i /\ cur <= i
  <2>1. cur + st \in 1..l
    <3>1. \A x \in 1..l, y \in Nat : \A z \in 0..y : x + y <= l => x + z \in 1..l
      BY <1>l
    <3>. QED BY <1>5, <1>7, <1>8, <3>1
  <2>2. cur + st = i
    BY <1>5, <1>8, <1>d, <2>1
  <2>. QED BY <1>5, <1>8, <1>7, <1>l, <2>2
<1>10. \/ cur = i /\ skipped = i
       \/ cur = skipped + 1 /\ cur < i /\ list[cur] \in equal
  <2>1. CASE skipped > 0 /\ list[skipped] = g
    <3>1. skipped \in 1..l
      BY <1>2, <1>l, <2>1
    <3>. QED BY <1>3, <1>d, <2>1, <3>1
  <2>2. CASE ~(skipped > 0 /\ list[skipped] = g)
    <3>1. cur = skipped + 1 /\ list[cur] \notin front
      BY <1>2, <1>3, <1>5, <1>l, <2>2
    <3>2. cur < i
      BY <1>5, <1>9, <1>g, <1>s, <3>1, <1>l
    <3>3. cur \in 1..(i - 1)
      BY <1>5, <1>l, <3>2
    <3>4. ~(pri[list[cur]] < pri[g]) /\ ~(pri[g] < pri[list[cur]]) /\ pri[g] \in Nat /\ pri[list[cur]] \in Nat
      BY <1>5, <1>g, <1>s, <3>1, <3>3
    <3>. QED BY <1>5, <1>g, <1>s, <3>1, <3>2, <3>4
  <2>. QED BY <2>1, <2>2
<1>11. (CHOOSE k \in DOMAIN list : list[k] = g) = i
  BY <1>l, <1>d
<1>r. PICK rest : rest = RemoveAt(list, i)
  OBVIOUS
<1>12. /\ rest \in Seq(Group) /\ Len(rest) = l - 1
       /\ \A j \in 1..(l - 1) : rest[j] = IF j < i THEN list[j] ELSE list[j + 1]
  BY <1>l, <1>r, TakenOut
<1>13. RunFrom(rest, 1, above) = cur - 1
  <2>1. cur - 1 \in Nat /\ 1 + (cur - 1) <= Len(rest) + 1
    BY <1>5, <1>9, <1>12, <1>l
  <2>2. ASSUME NEW j \in 1..(1 + (cur - 1) - 1) PROVE rest[j] \in above
    <3>1. j \in 1..(l - 1) /\ j < i /\ j \in 1..l /\ j < cur
      BY <1>5, <1>9, <1>l
    <3>2. j \in 1..skipped
      BY <1>2, <1>10, <3>1
    <3>3. rest[j] = list[j]
      BY <1>12, <3>1
    <3>4. list[j] # g
      BY <1>d, <3>1
    <3>. QED BY <1>2, <1>s, <3>2, <3>3, <3>4
  <2>3. ASSUME 1 + (cur - 1) <= Len(rest) PROVE rest[1 + (cur - 1)] \notin above
    <3>1. 1 + (cur - 1) = cur /\ cur \in 1..(l - 1)
      BY <1>5, <1>12, <1>l, <2>3
    <3>2. CASE cur = i /\ skipped = i
      <4>1. skipped < l /\ ~(cur < i)
        BY <1>l, <3>1, <3>2
      <4>2. rest[cur] = list[skipped + 1]
        BY <1>12, <3>1, <3>2, <4>1
      <4>. QED BY <1>2, <1>s, <3>1, <4>1, <4>2
    <3>3. CASE cur = skipped + 1 /\ cur < i /\ list[cur] \in equal
      <4>1. rest[cur] = list[cur]
        BY <1>12, <3>1, <3>3
      <4>2. skipped < l
        BY <1>2, <1>l, <3>1, <3>3
      <4>3. list[cur] \notin front
        BY <1>2, <3>3, <4>2
      <4>. QED BY <1>s, <3>1, <4>1, <4>3
    <3>. QED BY <1>10, <3>2, <3>3
  <2>4. IsRun(cur - 1, rest, 1, above)
    BY <2>1, <2>2, <2>3 DEF IsRun
  <2>5. 1 \in 1..(Len(rest) + 1)
    BY <1>12, <1>l
  <2>. QED BY <1>12, <2>4, <2>5, RunOnly
<1>14. RunFrom(rest, cur, equal) = peers
  <2>1. cur + peers <= Len(rest) + 1
    BY <1>7, <1>12, <1>5, <1>l
  <2>2. ASSUME NEW j \in cur..(cur + peers - 1) PROVE rest[j] \in equal
    <3>1. j \in 1..(l - 1) /\ j \in Nat
      BY <1>5, <1>7, <1>l
    <3>2. CASE j < i
      <4>1. rest[j] = list[j]
        BY <1>12, <3>1, <3>2
      <4>2. j = cur \/ j \in (cur + 1)..(cur + peers)
        BY <1>5, <1>7, <1>l
      <4>3. CASE j = cur
        BY <1>10, <3>2, <4>1, <4>3
      <4>. QED BY <1>7, <4>1, <4>2, <4>3
    <3>3. CASE ~(j < i)
      <4>1. rest[j] = list[j + 1]
        BY <1>12, <3>1, <3>3
      <4>2. j + 1 \in (cur + 1)..(cur + peers)
        BY <1>5, <1>7, <1>l, <3>1
      <4>. QED BY <1>7, <4>1, <4>2
    <3>. QED BY <3>2, <3>3
  <2>3. ASSUME cur + peers <= Len(rest) PROVE rest[cur + peers] \notin equal
    <3>1. cur + peers \in 1..(l - 1) /\ ~(cur + peers < i) /\ cur + peers < l
      BY <1>5, <1>7, <1>8, <1>9, <1>12, <1>l, <2>3
    <3>. QED BY <1>7, <1>12, <3>1
  <2>4. IsRun(peers, rest, cur, equal)
    BY <1>7, <2>1, <2>2, <2>3 DEF IsRun
  <2>5. cur \in 1..(Len(rest) + 1)
    BY <1>5, <1>12, <1>l
  <2>. QED BY <1>12, <2>4, <2>5, RunOnly
<1>15. (cur - 1) + 1 = cur /\ (cur - 1) + st + 1 = i
  BY <1>5, <1>8, <1>9, <1>7, <1>l
<1>16. MoveWindow(list, pri, g, pos) = InsertAt(rest, (cur - 1) + Steps(pos, peers) + 1, g)
  BY <1>11, <1>r, <1>13, <1>14, <1>15, <1>s DEF MoveWindow
<1>17. InsertAt(rest, i, g) = list
  BY <1>r, <1>l, PutBack
<1>. QED BY <1>8, <1>15, <1>16, <1>17

\* A window that is not in the list may be put anywhere into it.
LEMMA PutInOnce ==
    ASSUME NEW list \in Seq(Group), Once(list), NEW g, \A j \in DOMAIN list : list[j] # g,
           NEW c, NEW k \in 0..Len(list), Inserted(c, Group, list, k, g)
    PROVE  Once(c)
<1>l. PICK l \in Nat : l = Len(list) /\ k \in 0..l /\ DOMAIN list = 1..l
  OBVIOUS
<1>1. /\ DOMAIN c = 1..(l + 1)
      /\ \A j \in 1..(l + 1) : c[j] = IF j <= k THEN list[j] ELSE IF j = k + 1 THEN g ELSE list[j - 1]
  BY <1>l DEF Inserted
<1> DEFINE from(j) == IF j <= k THEN j ELSE j - 1
<1>2. \A j \in 1..(l + 1) : j # k + 1 => from(j) \in 1..l /\ c[j] = list[from(j)] /\ c[j] # g
  BY <1>l, <1>1
<1>3. c[k + 1] = g
  BY <1>l, <1>1
<1>4. ASSUME NEW i \in 1..(l + 1), NEW j \in 1..(l + 1), c[i] = c[j] PROVE i = j
  <2>1. CASE i = k + 1 \/ j = k + 1
    BY <1>2, <1>3, <1>4, <2>1
  <2>2. CASE i # k + 1 /\ j # k + 1
    <3>1. list[from(i)] = list[from(j)] /\ from(i) \in DOMAIN list /\ from(j) \in DOMAIN list
      BY <1>2, <1>4, <1>l, <2>2
    <3>2. from(i) = from(j)
      <4> HIDE DEF from
      <4>. QED BY <3>1 DEF Once
    <3>. QED BY <1>l, <2>2, <3>2
  <2>. QED BY <2>1, <2>2
<1>. QED BY <1>1, <1>4 DEF Once

LEMMA TakenOutOnce ==
    ASSUME NEW list \in Seq(Group), Once(list), NEW i \in 1..Len(list), NEW r, r = RemoveAt(list, i)
    PROVE  r \in Seq(Group) /\ Once(r) /\ \A j \in DOMAIN r : r[j] # list[i]
<1>l. PICK l \in Nat : l = Len(list) /\ i \in 1..l /\ DOMAIN list = 1..l
  OBVIOUS
<1>1. /\ r \in Seq(Group) /\ DOMAIN r = 1..(l - 1)
      /\ \A j \in 1..(l - 1) : r[j] = IF j < i THEN list[j] ELSE list[j + 1]
  BY <1>l, TakenOut
<1> DEFINE from(j) == IF j < i THEN j ELSE j + 1
<1>2. \A j \in 1..(l - 1) : from(j) \in 1..l /\ r[j] = list[from(j)] /\ from(j) # i
  BY <1>l, <1>1
<1>3. ASSUME NEW j \in 1..(l - 1), NEW k \in 1..(l - 1), r[j] = r[k] PROVE j = k
  <2>1. from(j) = from(k)
    BY <1>2, <1>3, <1>l DEF Once
  <2>. QED BY <1>l, <2>1
<1>4. \A j \in 1..(l - 1) : r[j] # list[i]
  BY <1>2, <1>l DEF Once
<1>. QED BY <1>1, <1>3, <1>4 DEF Once

LEMMA MovedOnce ==
    ASSUME NEW list \in Seq(Group), Once(list), NEW pri, NEW g \in Group, g \in Range(list), NEW pos \in Int
    PROVE  MoveWindow(list, pri, g, pos) \in Seq(Group) /\ Once(MoveWindow(list, pri, g, pos))
<1>1. PICK i : i = CHOOSE k \in DOMAIN list : list[k] = g
  OBVIOUS
<1>2. i \in 1..Len(list) /\ list[i] = g
  <2>1. \E k \in DOMAIN list : list[k] = g
    BY DEF Range
  <2>2. i \in DOMAIN list /\ list[i] = g
    BY <1>1, <2>1
  <2>. QED BY <2>2
<1>3. PICK rest : rest = RemoveAt(list, i)
  OBVIOUS
<1>4. rest \in Seq(Group) /\ Once(rest) /\ \A j \in DOMAIN rest : rest[j] # g
  BY <1>2, <1>3, TakenOutOnce
<1>l. PICK l \in Nat : l = Len(rest)
  BY <1>4
<1>s. PICK high, equal : high = {w \in Group : pri[g] < pri[w]} /\ equal = {w \in Group : pri[w] = pri[g]}
  OBVIOUS
<1>5. PICK above : above = RunFrom(rest, 1, high) /\ above \in 0..l
  <2>1. 1 \in 1..(Len(rest) + 1)
    BY <1>l
  <2>2. PICK n : n = RunFrom(rest, 1, high) /\ IsRun(n, rest, 1, high)
    BY <1>4, <2>1, RunIs
  <2>. QED BY <1>l, <2>2 DEF IsRun
<1>6. PICK peers \in Nat : peers = RunFrom(rest, above + 1, equal) /\ above + peers <= l
  <2>1. above + 1 \in 1..(Len(rest) + 1)
    BY <1>l, <1>5
  <2>2. PICK n : n = RunFrom(rest, above + 1, equal) /\ IsRun(n, rest, above + 1, equal)
    BY <1>4, <2>1, RunIs
  <2>. QED BY <1>5, <1>l, <2>2 DEF IsRun
<1>7. PICK st \in 0..peers : st = Steps(pos, peers)
  BY <1>6, StepsIn
<1>8. above + st + 1 \in 1..(Len(rest) + 1) /\ (above + st + 1) - 1 \in 0..Len(rest)
  <2>1. above \in Nat /\ st \in Nat /\ above + st <= l
    BY <1>5, <1>6, <1>7
  <2>. QED BY <1>l, <2>1
<1>9. PICK c : c = InsertAt(rest, above + st + 1, g) /\ Inserted(c, Group, rest, (above + st + 1) - 1, g)
  BY <1>4, <1>8, PutIn
<1>10. c \in Seq(Group) /\ Once(c)
  <2>1. c \in Seq(Group)
    BY <1>9 DEF Inserted
  <2>2. Once(c)
    BY <1>4, <1>8, <1>9, PutInOnce, ZenonT(40)
  <2>. QED BY <2>1, <2>2
<1>11. MoveWindow(list, pri, g, pos) = c
  BY <1>1, <1>3, <1>5, <1>6, <1>7, <1>9, <1>s DEF MoveWindow
<1>. QED BY <1>10, <1>11

LEMMA WindowStart == WindowInit => WindowInv
  BY DEF WindowInit, WindowInv, Once

LEMMA WindowStep == WindowInv /\ [WindowNext]_windowVars => WindowInv'
<1> SUFFICES ASSUME WindowInv, [WindowNext]_windowVars PROVE WindowInv'
  OBVIOUS
<1>1. CASE UNCHANGED <<child, priority>>
  BY <1>1 DEF WindowInv, Once
<1>2. ASSUME NEW g \in Group, NEW b \in BOOLEAN, CreateWindowGroup(g, b) PROVE WindowInv'
  <2>1. child' = <<g>> \o child /\ UNCHANGED priority /\ \A j \in DOMAIN child : child[j] # g
    BY <1>2 DEF CreateWindowGroup, Range
  <2>l. PICK l \in Nat : l = Len(child) /\ child \in Seq(Group) /\ DOMAIN child = 1..l
    BY DEF WindowInv
  <2>2. /\ child' \in Seq(Group) /\ Len(child') = l + 1 /\ DOMAIN child' = 1..(l + 1)
        /\ \A j \in 1..(l + 1) : child'[j] = IF j = 1 THEN g ELSE child[j - 1]
    BY <2>1, <2>l
  <2>3. Inserted(child', Group, child, 0, g) /\ 0 \in 0..Len(child)
    BY <2>2, <2>l DEF Inserted
  <2>4. Once(child')
    BY <2>1, <2>3, PutInOnce DEF WindowInv
  <2>. QED BY <2>1, <2>2, <2>4 DEF WindowInv, Once
<1>3. ASSUME NEW g \in Group, NEW pri \in Priority, NEW pos \in Position, SetOrdinalPosition(g, pri, pos)
      PROVE  WindowInv'
  <2>1. /\ g \in Range(child) /\ priority' = [priority EXCEPT ![g] = pri]
        /\ child' = child \/ child' = MoveWindow(child, priority', g, pos)
    BY <1>3 DEF SetOrdinalPosition
  <2>2. pri \in Nat /\ pos \in Int
    BY WindowAssumption
  <2>3. child' \in Seq(Group) /\ Once(child')
    <3>1. child \in Seq(Group) /\ Once(child)
      BY DEF WindowInv
    <3>2. PICK c : c = MoveWindow(child, priority', g, pos)
      OBVIOUS
    <3>3. c \in Seq(Group) /\ Once(c)
      BY <2>1, <2>2, <3>1, <3>2, MovedOnce, Zenon
    <3>4. child' = child \/ child' = c
      BY <2>1, <3>2
    <3>. QED BY <3>1, <3>3, <3>4 DEF Once
  <2>. QED BY <2>1, <2>2, <2>3 DEF WindowInv, Once
<1>4. ASSUME NEW g \in Group, NEW b \in BOOLEAN, ReceiveFocus(g, b) PROVE WindowInv'
  BY <1>1, <1>4 DEF ReceiveFocus
<1>5. ASSUME NEW g \in Group, TouchInput(g) PROVE WindowInv'
  BY <1>1, <1>5 DEF TouchInput
<1>6. ASSUME NEW c \in Client, GetReady(c) \/ GetEvent(c) PROVE WindowInv'
  BY <1>1, <1>6 DEF GetReady, GetEvent
<1>7. ASSUME NEW key \in {"key_down", "key_up"}, KeyInput(key) PROVE WindowInv'
  BY <1>1, <1>7 DEF KeyInput
<1>8. CASE SetKeyBlock
  BY <1>1, <1>8 DEF SetKeyBlock
<1>. QED BY <1>1, <1>2, <1>3, <1>4, <1>5, <1>6, <1>7, <1>8 DEF WindowNext, windowVars

\* No group is in the list of its siblings twice, however groups are created and moved.
THEOREM GroupsOnce == WindowSpec => []WindowInv
  BY WindowStart, WindowStep, PTL DEF WindowSpec

\* A group that check_order_change finds in place would be moved to where it is, for any
\* number of groups, priorities and positions, unless something of lower priority is in
\* front of it.
THEOREM OrderChecked == WindowSpec => []OrderCheckExact
<1>1. ASSUME WindowInv, NEW i \in DOMAIN child, NEW p \in Priority, NEW pos \in Position,
             NEW g, g = child[i], NEW pri, pri = [priority EXCEPT ![g] = p]
      PROVE  CheckOrderChange(child, pri, g, pos) \/ BehindLower(pri, g) \/ MoveWindow(child, pri, g, pos) = child
  <2>0. SUFFICES ASSUME ~CheckOrderChange(child, pri, g, pos), ~BehindLower(pri, g)
                 PROVE  MoveWindow(child, pri, g, pos) = child
    OBVIOUS
  <2>1. p \in Nat /\ pos \in Int /\ child \in Seq(Group) /\ Once(child) /\ i \in 1..Len(child)
    BY <1>1, WindowAssumption DEF WindowInv
  <2>2. pri \in [Group -> Nat]
    BY <1>1, <2>1 DEF WindowInv
  <2>3. \A j \in 1..(i - 1) : ~(pri[child[j]] < pri[g])
    <3>1. \A j \in 1..(i - 1) : j \in DOMAIN child /\ j < i
      BY <2>1
    <3>. QED BY <1>1, <2>0, <3>1 DEF BehindLower
  <2>4. g = child[i]
    BY <1>1
  <2>. QED BY <2>0, <2>1, <2>2, <2>3, <2>4, InPlace, ZenonT(40)
<1>2. WindowInv => OrderCheckExact
  BY <1>1 DEF OrderCheckExact
<1>. QED BY <1>2, GroupsOnce, PTL

------------------------------------------------------------------------------
(***************************************************************************)
(* The events of a client.  A queue is paired when its focus events        *)
(* alternate and the last one is of a given type; whatever the server      *)
(* takes out of the middle of a queue keeps it so.                         *)
(***************************************************************************)
Event == [type : {"focus_lost", "focus_gained", "key", "touch", "key_down", "key_up"}, to : Group]
Paired(s, t) == s \in Seq(Event) /\ Alternate(s) /\ EndsWith(s, t)

\* An event that has nothing to do with the focus is taken out.
LEMMA OneOut ==
    \A t : \A s : Paired(s, t) => \A i \in 1..Len(s) : ~IsFocus(s[i]) => Paired(RemoveAt(s, i), t)
<1> TAKE t
<1> TAKE s
<1> SUFFICES ASSUME Paired(s, t), NEW i \in 1..Len(s), ~IsFocus(s[i]) PROVE Paired(RemoveAt(s, i), t)
  OBVIOUS
<1>s. s \in Seq(Event) /\ Alternate(s) /\ EndsWith(s, t)
  BY DEF Paired
<1>n. PICK n \in Nat : n = Len(s) /\ i \in 1..n /\ DOMAIN s = 1..n
  BY <1>s
<1>1. PICK r : r = RemoveAt(s, i)
  OBVIOUS
<1>2. /\ r \in Seq(Event) /\ Len(r) = n - 1 /\ DOMAIN r = 1..(n - 1)
      /\ \A j \in 1..(n - 1) : r[j] = IF j < i THEN s[j] ELSE s[j + 1]
  <2>1. r = Removal(s, i)
    BY <1>1 DEF RemoveAt, Removal
  <2>. QED BY <1>s, <1>n, <2>1, RemovedAt
<1> DEFINE m(j) == IF j < i THEN j ELSE j + 1
<1>3. \A j \in 1..(n - 1) : m(j) \in 1..n /\ r[j] = s[m(j)]
  BY <1>2, <1>n
<1>4. \A a \in 1..(n - 1), k \in 1..n :
          k > m(a) /\ IsFocus(s[k]) =>
              \E j \in 1..(n - 1) : j > a /\ IsFocus(r[j]) /\ m(j) = k
  <2> SUFFICES ASSUME NEW a \in 1..(n - 1), NEW k \in 1..n, k > m(a), IsFocus(s[k])
               PROVE  \E j \in 1..(n - 1) : j > a /\ IsFocus(r[j]) /\ m(j) = k
    OBVIOUS
  <2>0. k # i
    OBVIOUS
  <2>1. CASE k < i
    <3>1. k \in 1..(n - 1) /\ m(k) = k /\ k > a
      BY <1>n, <2>1
    <3>. QED BY <1>3, <3>1
  <2>2. CASE k > i
    <3>1. k - 1 \in 1..(n - 1) /\ m(k - 1) = k /\ k - 1 > a
      BY <1>n, <2>2
    <3>. QED BY <1>3, <3>1
  <2>. QED BY <1>n, <2>0, <2>1, <2>2
<1>5. Alternate(r)
  <2> SUFFICES ASSUME NEW a \in 1..(n - 1), NEW b \in 1..(n - 1), a < b, IsFocus(r[a]), IsFocus(r[b]),
                      r[a].type = r[b].type
               PROVE  \E k \in (a + 1)..(b - 1) : IsFocus(r[k])
    BY <1>2 DEF Alternate
  <2>0. m(a) < m(b)
    BY <1>n
  <2>1. m(a) \in 1..n /\ m(b) \in 1..n /\ IsFocus(s[m(a)]) /\ IsFocus(s[m(b)]) /\ s[m(a)].type = s[m(b)].type
    <3> HIDE DEF m
    <3>. QED BY <1>3
  <2>2. PICK k \in (m(a) + 1)..(m(b) - 1) : IsFocus(s[k])
    <3> HIDE DEF m
    <3>. QED BY <1>s, <1>n, <2>0, <2>1 DEF Alternate
  <2>3. k \in 1..n /\ k > m(a) /\ k < m(b)
    <3>1. \A x, y \in 1..n : \A z \in (x + 1)..(y - 1) : z \in 1..n /\ z > x /\ z < y
      OBVIOUS
    <3> HIDE DEF m
    <3>. QED BY <2>1, <2>2, <3>1
  <2>4. PICK j \in 1..(n - 1) : j > a /\ IsFocus(r[j]) /\ m(j) = k
    <3> HIDE DEF m
    <3>. QED BY <1>4, <2>2, <2>3
  <2>5. j < b
    BY <2>3, <2>4, <1>n
  <2>. QED BY <2>4, <2>5
<1>6. EndsWith(r, t)
  <2> SUFFICES ASSUME NEW a \in 1..(n - 1), IsFocus(r[a]), r[a].type # t
               PROVE  \E k \in (a + 1)..(n - 1) : IsFocus(r[k])
    BY <1>2 DEF EndsWith
  <2>1. m(a) \in 1..n /\ IsFocus(s[m(a)]) /\ s[m(a)].type # t
    BY <1>3
  <2>2. PICK k \in (m(a) + 1)..n : IsFocus(s[k])
    BY <1>s, <1>n, <2>1 DEF EndsWith
  <2>3. k \in 1..n /\ k > m(a)
    BY <2>1, <2>2
  <2>4. PICK j \in 1..(n - 1) : j > a /\ IsFocus(r[j])
    BY <1>4, <2>2, <2>3
  <2>. QED BY <2>4
<1>. QED BY <1>1, <1>2, <1>5, <1>6 DEF Paired

\* Two focus events that follow each other are taken out: they were of different types.
LEMMA PairOut ==
    \A t : \A s : Paired(s, t) => \A i \in 1..(Len(s) - 1) :
        IsFocus(s[i]) /\ IsFocus(s[i + 1]) => Paired(RemoveAt(RemoveAt(s, i + 1), i), t)
<1> TAKE t
<1> TAKE s
<1> SUFFICES ASSUME Paired(s, t), NEW i \in 1..(Len(s) - 1), IsFocus(s[i]), IsFocus(s[i + 1])
             PROVE  Paired(RemoveAt(RemoveAt(s, i + 1), i), t)
  OBVIOUS
<1>s. s \in Seq(Event) /\ Alternate(s) /\ EndsWith(s, t)
  BY DEF Paired
<1>n. PICK n \in Nat : n = Len(s) /\ i \in 1..(n - 1) /\ i + 1 \in 1..n /\ DOMAIN s = 1..n
  BY <1>s
<1>1. PICK u : u = RemoveAt(s, i + 1)
  OBVIOUS
<1>2. /\ u \in Seq(Event) /\ Len(u) = n - 1 /\ DOMAIN u = 1..(n - 1)
      /\ \A j \in 1..(n - 1) : u[j] = IF j < i + 1 THEN s[j] ELSE s[j + 1]
  <2>1. u = Removal(s, i + 1)
    BY <1>1 DEF RemoveAt, Removal
  <2>. QED BY <1>s, <1>n, <2>1, RemovedAt
<1>3. PICK r : r = RemoveAt(u, i)
  OBVIOUS
<1>4. /\ r \in Seq(Event) /\ Len(r) = n - 2 /\ DOMAIN r = 1..(n - 2)
      /\ \A j \in 1..(n - 2) : r[j] = IF j < i THEN u[j] ELSE u[j + 1]
  <2>1. r = Removal(u, i) /\ i \in 1..Len(u)
    BY <1>2, <1>3, <1>n DEF RemoveAt, Removal
  <2>2. /\ r \in Seq(Event) /\ Len(r) = Len(u) - 1 /\ DOMAIN r = 1..(Len(u) - 1)
        /\ \A j \in 1..(Len(u) - 1) : r[j] = IF j < i THEN u[j] ELSE u[j + 1]
    BY <1>2, <2>1, RemovedAt
  <2>3. Len(u) - 1 = n - 2
    BY <1>2
  <2>. QED BY <2>2, <2>3
<1> DEFINE m(j) == IF j < i THEN j ELSE j + 2
<1>5. ASSUME NEW j \in 1..(n - 2) PROVE m(j) \in 1..n /\ r[j] = s[m(j)]
  <2>1. CASE j < i
    <3>1. j \in 1..(n - 1) /\ m(j) = j /\ j \in 1..n /\ j < i + 1
      BY <2>1, <1>n
    <3>. QED BY <1>2, <1>4, <2>1, <3>1
  <2>2. CASE ~(j < i)
    <3>1. j + 1 \in 1..(n - 1) /\ m(j) = (j + 1) + 1 /\ m(j) \in 1..n /\ ~(j + 1 < i + 1)
      BY <2>2, <1>n
    <3>. QED BY <1>2, <1>4, <2>2, <3>1
  <2>. QED BY <2>1, <2>2
<1>6. \A a \in 1..(n - 2), k \in 1..n :
          k > m(a) /\ IsFocus(s[k]) /\ k # i /\ k # i + 1 =>
              \E j \in 1..(n - 2) : j > a /\ IsFocus(r[j]) /\ m(j) = k
  <2> SUFFICES ASSUME NEW a \in 1..(n - 2), NEW k \in 1..n, k > m(a), IsFocus(s[k]), k # i, k # i + 1
               PROVE  \E j \in 1..(n - 2) : j > a /\ IsFocus(r[j]) /\ m(j) = k
    OBVIOUS
  <2>1. CASE k < i
    <3>1. k \in 1..(n - 2) /\ m(k) = k /\ k > a
      BY <1>n, <2>1
    <3>. QED BY <1>5, <3>1
  <2>2. CASE k > i + 1
    <3>1. k - 2 \in 1..(n - 2) /\ m(k - 2) = k /\ k - 2 > a
      BY <1>n, <2>2
    <3>. QED BY <1>5, <3>1
  <2>. QED BY <1>n, <2>1, <2>2
<1>7. s[i].type # s[i + 1].type
  <2>1. ~\E k \in (i + 1)..((i + 1) - 1) : IsFocus(s[k])
    BY <1>n
  <2>2. i \in DOMAIN s /\ i + 1 \in DOMAIN s /\ i < i + 1
    BY <1>n
  <2>. QED BY <1>s, <2>1, <2>2 DEF Alternate
<1>8. ASSUME NEW a \in 1..(n - 2), a < i, IsFocus(r[a]), \A k \in (a + 1)..(i - 1) : ~IsFocus(r[k])
      PROVE  s[a].type # s[i].type
  <2>1. a \in DOMAIN s /\ i \in DOMAIN s /\ r[a] = s[a]
    BY <1>n, <1>5, <1>8
  <2>2. \A k \in (a + 1)..(i - 1) : ~IsFocus(s[k])
    <3>1. \A k \in (a + 1)..(i - 1) : k \in 1..(n - 2) /\ k < i
      BY <1>n
    <3>. QED BY <1>5, <1>8, <3>1
  <2>. QED BY <1>8, <1>s, <2>1, <2>2 DEF Alternate
<1>9. Alternate(r)
  <2> SUFFICES ASSUME NEW a \in 1..(n - 2), NEW b \in 1..(n - 2), a < b, IsFocus(r[a]), IsFocus(r[b]),
                      r[a].type = r[b].type, \A k \in (a + 1)..(b - 1) : ~IsFocus(r[k])
               PROVE  FALSE
    BY <1>4, Zenon DEF Alternate
  <2>0. m(a) < m(b)
    BY <1>n
  <2>1. m(a) \in 1..n /\ m(b) \in 1..n /\ IsFocus(s[m(a)]) /\ IsFocus(s[m(b)]) /\ s[m(a)].type = s[m(b)].type
    <3> HIDE DEF m
    <3>. QED BY <1>5
  <2>2. PICK k \in (m(a) + 1)..(m(b) - 1) : IsFocus(s[k])
    <3> HIDE DEF m
    <3>. QED BY <1>s, <1>n, <2>0, <2>1 DEF Alternate
  <2>3. k \in 1..n /\ k > m(a) /\ k < m(b)
    <3>1. \A x, y \in 1..n : \A z \in (x + 1)..(y - 1) : z \in 1..n /\ z > x /\ z < y
      OBVIOUS
    <3> HIDE DEF m
    <3>. QED BY <2>1, <2>2, <3>1
  <2>4. k = i \/ k = i + 1
    <3> SUFFICES ASSUME k # i, k # i + 1 PROVE FALSE
      OBVIOUS
    <3>1. PICK j \in 1..(n - 2) : j > a /\ IsFocus(r[j]) /\ m(j) = k
      <4> HIDE DEF m
      <4>. QED BY <1>6, <2>2, <2>3
    <3>2. j < b
      BY <2>3, <3>1, <1>n
    <3>3. j \in (a + 1)..(b - 1)
      BY <3>1, <3>2
    <3> HIDE DEF m
    <3>. QED BY <3>1, <3>3
  <2>5. a < i /\ b >= i
    BY <2>3, <2>4, <1>n
  <2>6. s[a].type # s[i].type /\ r[a] = s[a] /\ r[b] = s[b + 2]
    <3>1. \A l \in (a + 1)..(i - 1) : l \in (a + 1)..(b - 1)
      BY <2>5
    <3>2. m(a) = a /\ m(b) = b + 2
      BY <2>5
    <3>3. r[a] = s[a] /\ r[b] = s[b + 2]
      <4> HIDE DEF m
      <4>. QED BY <1>5, <3>2
    <3>4. s[a].type # s[i].type
      <4> HIDE DEF m
      <4>. QED BY <1>8, <2>5, <3>1
    <3>. QED BY <3>3, <3>4
  <2>7. s[i + 1].type # s[b + 2].type
    <3>0. i + 1 \in DOMAIN s /\ b + 2 \in DOMAIN s /\ i + 1 < b + 2 /\ IsFocus(s[b + 2])
      <4>1. i + 1 \in 1..n /\ b + 2 \in 1..n /\ i + 1 < b + 2
        BY <1>n, <2>5
      <4>. QED BY <1>n, <2>6, <4>1
    <3> SUFFICES ASSUME NEW l \in ((i + 1) + 1)..((b + 2) - 1), IsFocus(s[l]) PROVE FALSE
      BY <1>s, <3>0 DEF Alternate
    <3>1. l \in 1..n /\ l # i /\ l # i + 1 /\ l > m(a) /\ l < m(b)
      <4>1. m(a) = a /\ m(b) = b + 2
        BY <2>5
      <4>2. l \in 1..n /\ l > i + 1 /\ l < b + 2
        BY <1>n, <2>5
      <4> HIDE DEF m
      <4>. QED BY <1>n, <2>5, <4>1, <4>2
    <3>2. PICK j \in 1..(n - 2) : j > a /\ IsFocus(r[j]) /\ m(j) = l
      <4> HIDE DEF m
      <4>. QED BY <1>6, <3>1
    <3>3. j < b
      BY <3>1, <3>2, <1>n
    <3>4. j \in (a + 1)..(b - 1)
      BY <3>2, <3>3
    <3> HIDE DEF m
    <3>. QED BY <3>2, <3>4
  <2>. QED BY <1>7, <2>6, <2>7 DEF IsFocus
<1>10. EndsWith(r, t)
  <2> SUFFICES ASSUME NEW a \in 1..(n - 2), IsFocus(r[a]), r[a].type # t,
                      \A k \in (a + 1)..(n - 2) : ~IsFocus(r[k])
               PROVE  FALSE
    BY <1>4, Zenon DEF EndsWith
  <2>1. \A k \in 1..n : k > m(a) /\ IsFocus(s[k]) => k = i \/ k = i + 1
    <3> SUFFICES ASSUME NEW k \in 1..n, k > m(a), IsFocus(s[k]), k # i, k # i + 1 PROVE FALSE
      OBVIOUS
    <3>1. PICK j \in 1..(n - 2) : j > a /\ IsFocus(r[j])
      <4> HIDE DEF m
      <4>. QED BY <1>6
    <3>2. j \in (a + 1)..(n - 2)
      BY <3>1
    <3>. QED BY <3>1, <3>2
  <2>2. m(a) \in 1..n /\ IsFocus(s[m(a)]) /\ s[m(a)].type # t
    BY <1>5
  <2>3. PICK k \in (m(a) + 1)..n : IsFocus(s[k])
    BY <1>s, <1>n, <2>2 DEF EndsWith
  <2>4. a < i
    <3>1. k \in 1..n /\ k > m(a)
      <4> HIDE DEF m
      <4>. QED BY <2>2, <2>3
    <3>2. k = i \/ k = i + 1
      <4> HIDE DEF m
      <4>. QED BY <2>1, <2>3, <3>1
    <3>. QED BY <1>n, <3>1, <3>2
  <2>5. s[a].type # s[i].type /\ r[a] = s[a]
    <3>1. \A l \in (a + 1)..(i - 1) : l \in (a + 1)..(n - 2)
      BY <1>n
    <3>. QED BY <1>5, <1>8, <2>4, <3>1
  <2>6. s[i + 1].type = t
    <3> SUFFICES ASSUME s[i + 1].type # t PROVE FALSE
      OBVIOUS
    <3>1. PICK l \in ((i + 1) + 1)..n : IsFocus(s[l])
      BY <1>s, <1>n DEF EndsWith
    <3>2. l \in 1..n /\ l > m(a) /\ l # i /\ l # i + 1
      BY <1>n, <2>4
    <3>. QED BY <2>1, <3>1, <3>2
  <2>. QED BY <1>7, <2>5, <2>6 DEF IsFocus
<1>. QED BY <1>1, <1>3, <1>4, <1>9, <1>10 DEF Paired

\* What is queued behind the last focus event keeps the order if it is none, or of the
\* other type.
LEMMA PutLast ==
    \A t, u : \A s : Paired(s, t) => \A e \in Event :
        (IF IsFocus(e) THEN e.type # t /\ u = e.type ELSE u = t) => Paired(Append(s, e), u)
<1> TAKE t, u
<1> TAKE s
<1> SUFFICES ASSUME Paired(s, t), NEW e \in Event, IF IsFocus(e) THEN e.type # t /\ u = e.type ELSE u = t
             PROVE  Paired(Append(s, e), u)
  OBVIOUS
<1>s. s \in Seq(Event) /\ Alternate(s) /\ EndsWith(s, t)
  BY DEF Paired
<1>n. PICK n \in Nat : n = Len(s) /\ DOMAIN s = 1..n
  BY <1>s
<1>1. PICK r : r = Append(s, e)
  OBVIOUS
<1>2. /\ r \in Seq(Event) /\ Len(r) = n + 1 /\ DOMAIN r = 1..(n + 1) /\ r[n + 1] = e
      /\ \A j \in 1..n : r[j] = s[j]
  BY <1>1, <1>s, <1>n
<1>3. Alternate(r)
  <2> SUFFICES ASSUME NEW a \in 1..(n + 1), NEW b \in 1..(n + 1), a < b, IsFocus(r[a]), IsFocus(r[b]),
                      r[a].type = r[b].type, \A k \in (a + 1)..(b - 1) : ~IsFocus(r[k])
               PROVE  FALSE
    BY <1>2, Zenon DEF Alternate
  <2>1. a \in DOMAIN s /\ r[a] = s[a]
    BY <1>2, <1>n
  <2>2. CASE b \in 1..n
    <3>1. PICK k \in (a + 1)..(b - 1) : IsFocus(s[k])
      BY <1>s, <1>2, <1>n, <2>1, <2>2 DEF Alternate
    <3>2. k \in 1..n
      BY <2>2
    <3>. QED BY <1>2, <3>1, <3>2
  <2>3. CASE b = n + 1
    <3>1. s[a].type # t
      BY <1>2, <2>1, <2>3
    <3>2. PICK k \in (a + 1)..n : IsFocus(s[k])
      BY <1>s, <1>2, <1>n, <2>1, <3>1 DEF EndsWith
    <3>3. k \in 1..n /\ k \in (a + 1)..(b - 1)
      BY <2>3
    <3>. QED BY <1>2, <3>2, <3>3
  <2>. QED BY <2>2, <2>3
<1>4. EndsWith(r, u)
  <2> SUFFICES ASSUME NEW a \in 1..(n + 1), IsFocus(r[a]), r[a].type # u,
                      \A k \in (a + 1)..(n + 1) : ~IsFocus(r[k])
               PROVE  FALSE
    BY <1>2, Zenon DEF EndsWith
  <2>1. a \in 1..n
    BY <1>2
  <2>2. ~IsFocus(e)
    <3>1. n + 1 \in (a + 1)..(n + 1)
      BY <2>1
    <3>. QED BY <1>2, <3>1
  <2>3. r[a] = s[a] /\ s[a].type # t
    BY <1>2, <2>1, <2>2
  <2>4. PICK k \in (a + 1)..n : IsFocus(s[k])
    BY <1>s, <1>n, <2>1, <2>3 DEF EndsWith
  <2>5. k \in 1..n /\ k \in (a + 1)..(n + 1)
    BY <2>4
  <2>. QED BY <1>2, <2>4, <2>5
<1>. QED BY <1>1, <1>2, <1>3, <1>4 DEF Paired

\* The first event is fetched.
LEMMA FirstOut ==
    \A t : \A s : Paired(s, t) /\ s # <<>> => Paired(Tail(s), t)
<1> TAKE t
<1> TAKE s
<1> SUFFICES ASSUME Paired(s, t), s # <<>> PROVE Paired(Tail(s), t)
  OBVIOUS
<1>s. s \in Seq(Event) /\ Alternate(s) /\ EndsWith(s, t)
  BY DEF Paired
<1>n. PICK n \in Nat : n = Len(s) /\ DOMAIN s = 1..n
  BY <1>s
<1>1. PICK r : r = Tail(s)
  OBVIOUS
<1>2. r \in Seq(Event) /\ DOMAIN r = 1..(n - 1) /\ Len(r) = n - 1 /\ \A j \in 1..(n - 1) : r[j] = s[j + 1]
  BY <1>1, <1>s, <1>n
<1>3. Alternate(r)
  <2> SUFFICES ASSUME NEW a \in 1..(n - 1), NEW b \in 1..(n - 1), a < b, IsFocus(r[a]), IsFocus(r[b]),
                      r[a].type = r[b].type
               PROVE  \E k \in (a + 1)..(b - 1) : IsFocus(r[k])
    BY <1>2 DEF Alternate
  <2>1. a + 1 \in DOMAIN s /\ b + 1 \in DOMAIN s /\ a + 1 < b + 1
    BY <1>n
  <2>2. PICK k \in ((a + 1) + 1)..((b + 1) - 1) : IsFocus(s[k])
    BY <1>s, <1>2, <2>1 DEF Alternate
  <2>3. k - 1 \in (a + 1)..(b - 1) /\ k - 1 \in 1..(n - 1) /\ (k - 1) + 1 = k
    OBVIOUS
  <2>. QED BY <1>2, <2>2, <2>3
<1>4. EndsWith(r, t)
  <2> SUFFICES ASSUME NEW a \in 1..(n - 1), IsFocus(r[a]), r[a].type # t
               PROVE  \E k \in (a + 1)..(n - 1) : IsFocus(r[k])
    BY <1>2 DEF EndsWith
  <2>1. a + 1 \in DOMAIN s
    BY <1>n
  <2>2. PICK k \in ((a + 1) + 1)..n : IsFocus(s[k])
    BY <1>s, <1>n, <1>2, <2>1 DEF EndsWith
  <2>3. k - 1 \in (a + 1)..(n - 1) /\ k - 1 \in 1..(n - 1) /\ (k - 1) + 1 = k
    OBVIOUS
  <2>. QED BY <1>2, <2>2, <2>3
<1>. QED BY <1>1, <1>2, <1>3, <1>4 DEF Paired

\* One turn of the purge.
LEMMA PurgeTurn == \A t : \A s : Paired(s, t) => \A i \in Nat \ {0} : Paired(PurgeAt(s, i), t)
<1> TAKE t
<1> TAKE s
<1> SUFFICES ASSUME Paired(s, t), NEW i \in Nat \ {0} PROVE Paired(PurgeAt(s, i), t)
  OBVIOUS
<1>1. s \in Seq(Event) /\ Len(s) \in Nat
  BY DEF Paired
<1>2. CASE i > Len(s)
  BY <1>2 DEF PurgeAt
<1>3. CASE i <= Len(s)
  <2>1. i \in 1..Len(s) /\ ~(i > Len(s))
    BY <1>1, <1>3
  <2>2. CASE s[i].type \in {"key", "touch"}
    <3>1. ~IsFocus(s[i]) /\ PurgeAt(s, i) = RemoveAt(s, i)
      BY <2>1, <2>2 DEF IsFocus, PurgeAt
    <3>. QED BY <2>1, <3>1, OneOut
  <2>3. CASE s[i].type \notin {"key", "touch"} /\ IsFocus(s[i]) /\ i < Len(s) /\ IsFocus(s[i + 1])
    <3>1. PurgeAt(s, i) = RemoveAt(RemoveAt(s, i + 1), i) /\ i \in 1..(Len(s) - 1)
      BY <1>1, <2>1, <2>3 DEF PurgeAt
    <3>. QED BY <2>3, <3>1, PairOut
  <2>4. CASE s[i].type \notin {"key", "touch"} /\ ~(IsFocus(s[i]) /\ i < Len(s) /\ IsFocus(s[i + 1]))
    BY <2>1, <2>4 DEF PurgeAt
  <2>. QED BY <2>2, <2>3, <2>4
<1>. QED BY <1>1, <1>2, <1>3

\* The whole purge: what every turn keeps.
LEMMA PurgeKeeps == \A t : \A s : Paired(s, t) => Paired(Purged(s), t)
<1> TAKE t
<1> TAKE s
<1> SUFFICES ASSUME Paired(s, t) PROVE Paired(Purged(s), t)
  OBVIOUS
<1>n. PICK n \in Nat : n = Len(s)
  BY DEF Paired
<1> DEFINE S == {x \in Seq(Event) : Paired(x, t)}
           h == [p \in (1..n) \X S |-> PurgeAt(p[2], p[1])]
           turn == CHOOSE f : f = [i \in 0..n |-> IF i = 0 THEN s ELSE PurgeAt(f[i - 1], i)]
<1>1. s \in S /\ \A i \in 1..n, x \in S : PurgeAt(x, i) \in S
  <2>1. \A i \in 1..n : i \in Nat \ {0}
    OBVIOUS
  <2>2. \A x : Paired(x, t) => x \in S
    BY DEF Paired
  <2>. QED BY <2>1, <2>2, PurgeTurn
<1>2. h \in [(1..n) \X S -> S] /\ \A i \in 1..n, x \in S : h[<<i, x>>] = PurgeAt(x, i)
  <2> HIDE DEF S
  <2>. QED BY <1>1
<1>3. PICK g \in [0..n -> S] : IsLoop(g, n, s, h)
  <2> HIDE DEF S, h
  <2>. QED BY <1>1, <1>2, LoopExists
<1>4. turn = [i \in 0..n |-> IF i = 0 THEN s ELSE PurgeAt(turn[i - 1], i)]
  <2>1. \A i \in 1..n : i - 1 \in 0..n
    OBVIOUS
  <2>2. g = [i \in 0..n |-> IF i = 0 THEN s ELSE PurgeAt(g[i - 1], i)]
    <3> HIDE DEF S, h
    <3>. QED BY <1>2, <1>3, <2>1 DEF IsLoop
  <2>. QED BY <2>2, Zenon
<1>5. Purged(s) = turn[n]
  BY <1>n DEF Purged
<1> HIDE DEF turn
<1> DEFINE P == {i \in 0..n : turn[i] \in S}
<1>6. 0 \in P
  BY <1>1, <1>4
<1>7. ASSUME NEW i \in 1..n, i - 1 \in P PROVE i \in P
  <2>1. i \in 0..n /\ i # 0 /\ turn[i - 1] \in S
    BY <1>7
  <2>2. turn[i] = PurgeAt(turn[i - 1], i)
    BY <1>4, <2>1
  <2> HIDE DEF S
  <2>. QED BY <1>1, <2>1, <2>2
<1>8. P = 0..n
  <2>1. P \in SUBSET (0..n)
    OBVIOUS
  <2> HIDE DEF P
  <2>. QED BY <1>6, <1>7, <2>1, UpTo
<1>9. n \in P
  <2> HIDE DEF P
  <2>. QED BY <1>8
<1>. QED BY <1>5, <1>9

\* One event is queued.
LEMMA QueueOne ==
    \A t, u : \A s : Paired(s, t) => \A e \in Event :
        (IF IsFocus(e) THEN e.type # t /\ u = e.type ELSE u = t) => Paired(QueueEvent(s, e), u)
<1> TAKE t, u
<1> TAKE s
<1> SUFFICES ASSUME Paired(s, t), NEW e \in Event, IF IsFocus(e) THEN e.type # t /\ u = e.type ELSE u = t
             PROVE  Paired(QueueEvent(s, e), u)
  OBVIOUS
<1>1. PICK r : r = IF Len(s) = MaximumElement THEN Purged(s) ELSE s
  OBVIOUS
<1>2. Paired(r, t)
  BY <1>1, PurgeKeeps
<1>3. Paired(Append(r, e), u)
  BY <1>2, PutLast
<1>. QED BY <1>1, <1>3 DEF QueueEvent

\* Events that have nothing to do with the focus, as many as there are.
LEMMA QueueOthers ==
    \A t : \A s, es : Paired(s, t) /\ es \in Seq({e \in Event : ~IsFocus(e)}) => Paired(QueueAll(s, es), t)
<1> TAKE t
<1> TAKE s, es
<1> DEFINE Other == {e \in Event : ~IsFocus(e)}
<1> SUFFICES ASSUME Paired(s, t), es \in Seq(Other) PROVE Paired(QueueAll(s, es), t)
  OBVIOUS
<1>n. PICK n \in Nat : n = Len(es) /\ \A i \in 1..n : es[i] \in Other
  OBVIOUS
<1> DEFINE S == {x \in Seq(Event) : Paired(x, t)}
           h == [p \in (1..n) \X S |-> QueueEvent(p[2], es[p[1]])]
           turn == CHOOSE f : f = [i \in 0..n |-> IF i = 0 THEN s ELSE QueueEvent(f[i - 1], es[i])]
<1>1. s \in S /\ \A i \in 1..n, x \in S : QueueEvent(x, es[i]) \in S
  <2>1. \A i \in 1..n : es[i] \in Event /\ ~IsFocus(es[i])
    BY <1>n
  <2>2. \A x : Paired(x, t) => x \in S
    BY DEF Paired
  <2>. QED BY <2>1, <2>2, QueueOne
<1>2. h \in [(1..n) \X S -> S] /\ \A i \in 1..n, x \in S : h[<<i, x>>] = QueueEvent(x, es[i])
  <2> HIDE DEF S
  <2>. QED BY <1>1
<1>3. PICK g \in [0..n -> S] : IsLoop(g, n, s, h)
  <2> HIDE DEF S, h
  <2>. QED BY <1>1, <1>2, LoopExists
<1>4. turn = [i \in 0..n |-> IF i = 0 THEN s ELSE QueueEvent(turn[i - 1], es[i])]
  <2>1. \A i \in 1..n : i - 1 \in 0..n
    OBVIOUS
  <2>2. g = [i \in 0..n |-> IF i = 0 THEN s ELSE QueueEvent(g[i - 1], es[i])]
    <3> HIDE DEF S, h
    <3>. QED BY <1>2, <1>3, <2>1 DEF IsLoop
  <2>. QED BY <2>2, Zenon
<1>5. QueueAll(s, es) = turn[n]
  BY <1>n DEF QueueAll
<1> HIDE DEF turn
<1> DEFINE P == {i \in 0..n : turn[i] \in S}
<1>6. 0 \in P
  BY <1>1, <1>4
<1>7. ASSUME NEW i \in 1..n, i - 1 \in P PROVE i \in P
  <2>1. i \in 0..n /\ i # 0 /\ turn[i - 1] \in S
    BY <1>7
  <2>2. turn[i] = QueueEvent(turn[i - 1], es[i])
    BY <1>4, <2>1
  <2> HIDE DEF S
  <2>. QED BY <1>1, <2>1, <2>2
<1>8. P = 0..n
  <2>1. P \in SUBSET (0..n)
    OBVIOUS
  <2> HIDE DEF P
  <2>. QED BY <1>6, <1>7, <2>1, UpTo
<1>9. n \in P
  <2> HIDE DEF P
  <2>. QED BY <1>8
<1>. QED BY <1>5, <1>9

\* No event, a single event, and the two of a change of the focus.
LEMMA QueueNone == \A s : QueueAll(s, <<>>) = s
<1> TAKE s
<1> DEFINE turn == CHOOSE f : f = [i \in 0..0 |-> IF i = 0 THEN s ELSE QueueEvent(f[i - 1], <<>>[i])]
           g == [i \in 0..0 |-> s]
<1>1. g = [i \in 0..0 |-> IF i = 0 THEN s ELSE QueueEvent(g[i - 1], <<>>[i])]
  OBVIOUS
<1>2. turn = [i \in 0..0 |-> IF i = 0 THEN s ELSE QueueEvent(turn[i - 1], <<>>[i])]
  <2> HIDE DEF g
  <2>. QED BY <1>1, Zenon
<1>3. QueueAll(s, <<>>) = turn[0]
  <2>1. Len(<<>>) = 0
    OBVIOUS
  <2>. QED BY <2>1, Zenon DEF QueueAll
<1> HIDE DEF turn
<1>. QED BY <1>2, <1>3

LEMMA QueueFew ==
    /\ \A s, e : QueueAll(s, <<e>>) = QueueEvent(s, e)
    /\ \A s, e, f : QueueAll(s, <<e, f>>) = QueueEvent(QueueEvent(s, e), f)
<1>1. ASSUME NEW s, NEW e PROVE QueueAll(s, <<e>>) = QueueEvent(s, e)
  <2> DEFINE turn == CHOOSE f : f = [i \in 0..1 |-> IF i = 0 THEN s ELSE QueueEvent(f[i - 1], <<e>>[i])]
             g == [i \in 0..1 |-> IF i = 0 THEN s ELSE QueueEvent(s, e)]
  <2>1. g = [i \in 0..1 |-> IF i = 0 THEN s ELSE QueueEvent(g[i - 1], <<e>>[i])]
    OBVIOUS
  <2>2. turn = [i \in 0..1 |-> IF i = 0 THEN s ELSE QueueEvent(turn[i - 1], <<e>>[i])]
    <3> HIDE DEF g
    <3>. QED BY <2>1, Zenon
  <2>3. QueueAll(s, <<e>>) = turn[1]
    <3>1. Len(<<e>>) = 1
      OBVIOUS
    <3>. QED BY <3>1, Zenon DEF QueueAll
  <2> HIDE DEF turn
  <2>4. turn[0] = s /\ turn[1] = QueueEvent(turn[0], e)
    BY <2>2
  <2>. QED BY <2>3, <2>4
<1>2. ASSUME NEW s, NEW e, NEW d PROVE QueueAll(s, <<e, d>>) = QueueEvent(QueueEvent(s, e), d)
  <2> DEFINE turn == CHOOSE f : f = [i \in 0..2 |-> IF i = 0 THEN s ELSE QueueEvent(f[i - 1], <<e, d>>[i])]
             g == [i \in 0..2 |-> IF i = 0 THEN s ELSE IF i = 1 THEN QueueEvent(s, e)
                                   ELSE QueueEvent(QueueEvent(s, e), d)]
  <2>1. g = [i \in 0..2 |-> IF i = 0 THEN s ELSE QueueEvent(g[i - 1], <<e, d>>[i])]
    OBVIOUS
  <2>2. turn = [i \in 0..2 |-> IF i = 0 THEN s ELSE QueueEvent(turn[i - 1], <<e, d>>[i])]
    <3> HIDE DEF g
    <3>. QED BY <2>1, Zenon
  <2>3. QueueAll(s, <<e, d>>) = turn[2]
    <3>1. Len(<<e, d>>) = 2
      OBVIOUS
    <3>. QED BY <3>1, Zenon DEF QueueAll
  <2> HIDE DEF turn
  <2>4. turn[0] = s /\ turn[1] = QueueEvent(turn[0], e) /\ turn[2] = QueueEvent(turn[1], d)
    BY <2>2
  <2>. QED BY <2>3, <2>4
<1>. QED BY <1>1, <1>2

\* The sequences of a non-empty sequence, one behind the other.
LEMMA Flattened == \A T : \A seqs \in Seq(Seq(T)) : seqs # <<>> => FlattenSeq(seqs) \in Seq(T)
<1> TAKE T
<1> TAKE seqs \in Seq(Seq(T))
<1> SUFFICES ASSUME seqs # <<>> PROVE FlattenSeq(seqs) \in Seq(T)
  OBVIOUS
<1>n. PICK n \in Nat : n + 1 = Len(seqs) /\ \A i \in 1..(n + 1) : seqs[i] \in Seq(T)
  <2>1. Len(seqs) \in Nat \ {0}
    OBVIOUS
  <2>2. Len(seqs) - 1 \in Nat /\ (Len(seqs) - 1) + 1 = Len(seqs)
    BY <2>1
  <2>3. \A i \in 1..Len(seqs) : seqs[i] \in Seq(T)
    OBVIOUS
  <2>. QED BY <2>2, <2>3, Zenon
<1> DEFINE S == Seq(T)
           h == [p \in (1..n) \X S |-> p[2] \o seqs[p[1] + 1]]
           flatten == CHOOSE f : f = [i \in 1..Len(seqs) |-> IF i = 1 THEN seqs[i] ELSE f[i - 1] \o seqs[i]]
<1>1. seqs[1] \in S /\ \A i \in 1..n, x \in S : x \o seqs[i + 1] \in S
  <2>1. 1 \in 1..(n + 1) /\ \A i \in 1..n : i + 1 \in 1..(n + 1)
    OBVIOUS
  <2>. QED BY <1>n, <2>1
<1>2. h \in [(1..n) \X S -> S] /\ \A i \in 1..n, x \in S : h[<<i, x>>] = x \o seqs[i + 1]
  <2> HIDE DEF S
  <2>. QED BY <1>1
<1>3. PICK g \in [0..n -> S] : IsLoop(g, n, seqs[1], h)
  <2> HIDE DEF S, h
  <2>. QED BY <1>1, <1>2, LoopExists
<1>4. flatten = [i \in 1..Len(seqs) |-> IF i = 1 THEN seqs[i] ELSE flatten[i - 1] \o seqs[i]]
  <2> DEFINE f == [i \in 1..(n + 1) |-> g[i - 1]]
  <2>1. ASSUME NEW i \in 1..(n + 1) PROVE f[i] = IF i = 1 THEN seqs[i] ELSE f[i - 1] \o seqs[i]
    <3>1. CASE i = 1
      BY <1>3, <3>1 DEF IsLoop
    <3>2. CASE i # 1
      <4>1. i - 1 \in 1..n /\ i - 1 \in 1..(n + 1) /\ (i - 1) + 1 = i /\ i - 1 # 0 /\ i - 1 \in 0..n /\ (i - 1) - 1 \in 0..n
        BY <3>2
      <4>2. g[i - 1] = h[<<i - 1, g[(i - 1) - 1]>>]
        <5> HIDE DEF h, S
        <5>. QED BY <1>3, <4>1 DEF IsLoop
      <4>3. g[i - 1] = g[(i - 1) - 1] \o seqs[i]
        <5>1. g[(i - 1) - 1] \in S
          <6> HIDE DEF h, S
          <6>. QED BY <1>3, <4>1
        <5>2. h[<<i - 1, g[(i - 1) - 1]>>] = g[(i - 1) - 1] \o seqs[(i - 1) + 1]
          <6> HIDE DEF h, S
          <6>. QED BY <1>2, <4>1, <5>1
        <5> HIDE DEF h, S
        <5>. QED BY <4>1, <4>2, <5>2
      <4>4. f[i] = g[i - 1] /\ f[i - 1] = g[(i - 1) - 1]
        BY <4>1
      <4>. QED BY <3>2, <4>3, <4>4
    <3>. QED BY <3>1, <3>2
  <2>2. f = [i \in 1..(n + 1) |-> IF i = 1 THEN seqs[i] ELSE f[i - 1] \o seqs[i]]
    BY <2>1
  <2> HIDE DEF f
  <2>. QED BY <2>2, <1>n, Zenon
<1>5. FlattenSeq(seqs) = flatten[n + 1]
  BY <1>n DEF FlattenSeq
<1> HIDE DEF flatten
<1> DEFINE P == {i \in 0..n : flatten[i + 1] \in S}
<1>6. 0 \in P
  BY <1>1, <1>4, <1>n
<1>7. ASSUME NEW i \in 1..n, i - 1 \in P PROVE i \in P
  <2>1. i \in 0..n /\ i + 1 # 1 /\ (i + 1) - 1 = i /\ (i - 1) + 1 = i /\ flatten[i] \in S /\ i + 1 \in 1..(n + 1)
    BY <1>7
  <2>2. flatten[i + 1] = flatten[i] \o seqs[i + 1]
    BY <1>4, <1>n, <2>1
  <2> HIDE DEF S
  <2>. QED BY <1>1, <2>1, <2>2
<1>8. P = 0..n
  <2>1. P \in SUBSET (0..n)
    OBVIOUS
  <2> HIDE DEF P
  <2>. QED BY <1>6, <1>7, <2>1, UpTo
<1>9. n \in P
  <2> HIDE DEF P
  <2>. QED BY <1>8
<1>. QED BY <1>5, <1>9

FocusInv ==
    /\ focus \in Group \cup {NoGroup} /\ q \in [Client -> Seq(Event)] /\ listening \subseteq Client
    /\ keys \in Seq({"key_down", "key_up"})
    /\ \A c \in Client :
        /\ c \in listening => q[c] = <<>>
        /\ Paired(q[c], "focus_gained")
        /\ focus = NoGroup /\ ~crashed => Paired(q[c], "focus_lost")

\* What is queued for one client leaves the others alone.
LEMMA QueuedFor ==
    ASSUME FocusInv, NEW c \in Client, NEW es, QueueEvents(c, es), Paired(QueueAll(q[c], es), "focus_gained"),
           es # <<>>, focus' \in Group \cup {NoGroup}, keys' \in Seq({"key_down", "key_up"}),
           focus' = NoGroup /\ ~crashed' =>
               focus = NoGroup /\ ~crashed /\ Paired(QueueAll(q[c], es), "focus_lost")
    PROVE  FocusInv'
<1>1. PICK r : r = QueueAll(q[c], es) /\ q' = [q EXCEPT ![c] = r] /\ listening' = listening \ {c}
  BY DEF QueueEvents
<1>2. r \in Seq(Event)
  BY <1>1 DEF Paired
<1>3. q' \in [Client -> Seq(Event)] /\ \A d \in Client : q'[d] = IF d = c THEN r ELSE q[d]
  BY <1>1, <1>2 DEF FocusInv
<1>4. ASSUME NEW d \in Client
      PROVE  /\ d \in listening' => q'[d] = <<>>
             /\ Paired(q'[d], "focus_gained")
             /\ focus' = NoGroup /\ ~crashed' => Paired(q'[d], "focus_lost")
  <2>1. CASE d = c
    BY <1>1, <1>3, <2>1
  <2>2. CASE d # c
    BY <1>1, <1>3, <2>2 DEF FocusInv
  <2>. QED BY <2>1, <2>2
<1>5. \A d \in Client : Paired(q[d], "focus_gained")' = Paired(q'[d], "focus_gained")
  BY DEF Paired, Alternate, EndsWith
<1>6. \A d \in Client : Paired(q[d], "focus_lost")' = Paired(q'[d], "focus_lost")
  BY DEF Paired, Alternate, EndsWith
<1>7. listening' \subseteq Client
  BY <1>1 DEF FocusInv
<1>. QED BY <1>3, <1>4, <1>5, <1>6, <1>7 DEF FocusInv

\* Nothing is queued, and the focus is where it was or the server has failed.
LEMMA NothingQueued ==
    ASSUME FocusInv, q' = q, listening' \subseteq Client, \A c \in Client : c \in listening' => q[c] = <<>>,
           focus' \in Group \cup {NoGroup}, keys' \in Seq({"key_down", "key_up"}),
           focus' = NoGroup /\ ~crashed' => focus = NoGroup /\ ~crashed
    PROVE  FocusInv'
<1>1. \A d \in Client : Paired(q[d], "focus_gained")' = Paired(q[d], "focus_gained")
  BY DEF Paired, Alternate, EndsWith
<1>2. \A d \in Client : Paired(q[d], "focus_lost")' = Paired(q[d], "focus_lost")
  BY DEF Paired, Alternate, EndsWith
<1>. QED BY <1>1, <1>2 DEF FocusInv

LEMMA GroupFound == \A list \in Seq(Group) : \A able : GroupToFocus(list, able) \in Group \cup {NoGroup}
<1> TAKE list \in Seq(Group)
<1> TAKE able
<1> DEFINE can == {i \in DOMAIN list : list[i] \in able}
<1>1. CASE can = {}
  BY <1>1 DEF GroupToFocus
<1>2. CASE can # {}
  <2>1. can \in SUBSET Nat
    OBVIOUS
  <2>2. PICK m \in can : \A k \in can : m <= k
    <3> HIDE DEF can
    <3>. QED BY <1>2, <2>1, LeastNat
  <2>3. Min(can) \in can
    <3> HIDE DEF can
    <3>. QED BY <2>2 DEF Min
  <2>4. list[Min(can)] \in Group
    BY <2>3
  <2>5. GroupToFocus(list, able) = list[Min(can)]
    BY <1>2 DEF GroupToFocus
  <2>. QED BY <2>4, <2>5
<1>. QED BY <1>1, <1>2

\* The focus moves: the group that gets it has a loss queued before the gain, unless
\* no group had it.
LEMMA FocusMoves ==
    ASSUME FocusInv, NEW list \in Seq(Group), NEW able, UpdateFocus(list, able), ~crashed, keys' = keys
    PROVE  FocusInv'
<1>1. PICK new \in Group \cup {NoGroup} : new = GroupToFocus(list, able)
  BY GroupFound
<1>2. /\ focus' = new
      /\ \/ new = focus /\ UNCHANGED <<q, listening, crashed>>
         \/ new = NoGroup /\ crashed' = TRUE /\ UNCHANGED <<q, listening>>
         \/ /\ new # NoGroup
            /\ QueueEvents(ClientOf[new],
                   (IF focus = NoGroup THEN <<>> ELSE <<[type |-> "focus_lost", to |-> new]>>)
                       \o <<[type |-> "focus_gained", to |-> new]>>)
  BY <1>1 DEF UpdateFocus
<1>k. keys' \in Seq({"key_down", "key_up"}) /\ listening \subseteq Client /\ \A c \in listening : q[c] = <<>>
  BY DEF FocusInv
<1>3. CASE new = focus /\ UNCHANGED <<q, listening, crashed>>
  BY <1>2, <1>3, <1>k, NothingQueued
<1>4. CASE new = NoGroup /\ crashed' = TRUE /\ UNCHANGED <<q, listening>>
  BY <1>2, <1>4, <1>k, NothingQueued
<1>5. ASSUME new # NoGroup,
             QueueEvents(ClientOf[new],
                   (IF focus = NoGroup THEN <<>> ELSE <<[type |-> "focus_lost", to |-> new]>>)
                       \o <<[type |-> "focus_gained", to |-> new]>>)
      PROVE FocusInv'
  <2>1. new \in Group /\ ClientOf[new] \in Client
    BY <1>5, WindowAssumption
  <2>2. PICK c \in Client : c = ClientOf[new]
    BY <2>1
  <2>3. PICK lost, gained : lost = [type |-> "focus_lost", to |-> new] /\ gained = [type |-> "focus_gained", to |-> new]
    OBVIOUS
  <2>4. /\ lost \in Event /\ gained \in Event /\ IsFocus(lost) /\ IsFocus(gained)
        /\ lost.type = "focus_lost" /\ gained.type = "focus_gained"
    BY <2>1, <2>3 DEF Event, IsFocus
  <2>5. CASE focus = NoGroup
    <3>1. QueueEvents(c, <<gained>>)
      <4>1. <<>> \o <<gained>> = <<gained>>
        OBVIOUS
      <4>. QED BY <1>5, <2>2, <2>3, <2>5, <4>1
    <3>2. Paired(q[c], "focus_lost")
      BY <2>5 DEF FocusInv
    <3>3. Paired(QueueEvent(q[c], gained), "focus_gained")
      BY <2>4, <3>2, QueueOne
    <3>4. Paired(QueueAll(q[c], <<gained>>), "focus_gained") /\ <<gained>> # <<>>
      BY <3>3, QueueFew
    <3>. QED BY <1>2, <1>5, <1>k, <3>1, <3>4, QueuedFor
  <2>6. CASE focus # NoGroup
    <3>1. QueueEvents(c, <<lost, gained>>)
      <4>1. <<lost>> \o <<gained>> = <<lost, gained>>
        <5>1. <<lost>> \in Seq(Event) /\ <<gained>> \in Seq(Event) /\ <<lost, gained>> \in Seq(Event)
          BY <2>4
        <5>2. PICK r : r = <<lost>> \o <<gained>>
          OBVIOUS
        <5>3. r \in Seq(Event) /\ Len(r) = 2 /\ r[1] = lost /\ r[2] = gained
          BY <5>1, <5>2
        <5>4. Len(r) = Len(<<lost, gained>>) /\ \A i \in 1..Len(r) : r[i] = <<lost, gained>>[i]
          BY <5>3
        <5>. QED BY <5>1, <5>2, <5>3, <5>4, SeqEqual
      <4>. QED BY <1>5, <2>2, <2>3, <2>6, <4>1
    <3>2. Paired(q[c], "focus_gained")
      BY DEF FocusInv
    <3>3. Paired(QueueEvent(q[c], lost), "focus_lost")
      BY <2>4, <3>2, QueueOne
    <3>4. Paired(QueueEvent(QueueEvent(q[c], lost), gained), "focus_gained")
      BY <2>4, <3>3, QueueOne
    <3>5. Paired(QueueAll(q[c], <<lost, gained>>), "focus_gained") /\ <<lost, gained>> # <<>>
      BY <3>4, QueueFew
    <3>. QED BY <1>2, <1>5, <1>k, <3>1, <3>5, QueuedFor
  <2>. QED BY <2>5, <2>6
<1>. QED BY <1>2, <1>3, <1>4, <1>5

LEMMA FocusStart == WindowInit => FocusInv
  BY DEF WindowInit, FocusInv, Paired, Alternate, EndsWith

LEMMA FocusKept ==
    ASSUME FocusInv, UNCHANGED <<q, listening, focus, keys, crashed>> PROVE FocusInv'
<1>1. \A c \in Client : c \in listening => q[c] = <<>>
  BY DEF FocusInv
<1>2. /\ focus \in Group \cup {NoGroup} /\ keys \in Seq({"key_down", "key_up"}) /\ listening \subseteq Client
  BY DEF FocusInv
<1>. QED BY <1>1, <1>2, NothingQueued

\* The keys that are shipped are no focus events.
LEMMA KeysShipped ==
    ASSUME NEW g \in Group, NEW ks \in Seq({"key_down", "key_up"}), ks # <<>>
    PROVE  LET es == FlattenSeq([i \in 1..Len(ks) |-> Shipped(g, ks[i])])
           IN es \in Seq({e \in Event : ~IsFocus(e)})
<1> DEFINE Other == {e \in Event : ~IsFocus(e)}
           seqs == [i \in 1..Len(ks) |-> Shipped(g, ks[i])]
<1>1. ASSUME NEW key \in {"key_down", "key_up"} PROVE Shipped(g, key) \in Seq(Other)
  <2>1. [type |-> key, to |-> g] \in Other /\ [type |-> "key", to |-> g] \in Other
    BY DEF Event, IsFocus
  <2> HIDE DEF Other
  <2>. QED BY <2>1 DEF Shipped
<1>2. Len(ks) \in Nat \ {0} /\ \A i \in 1..Len(ks) : ks[i] \in {"key_down", "key_up"}
  OBVIOUS
<1>3. seqs \in Seq(Seq(Other)) /\ seqs # <<>>
  <2> HIDE DEF Other
  <2>. QED BY <1>1, <1>2
<1>4. FlattenSeq(seqs) \in Seq(Other)
  <2> HIDE DEF Other, seqs
  <2>. QED BY <1>3, Flattened
<1>. QED BY <1>4

LEMMA FocusStep == WindowInv /\ FocusInv /\ [WindowNext]_windowVars => FocusInv'
<1> SUFFICES ASSUME WindowInv, FocusInv, [WindowNext]_windowVars PROVE FocusInv'
  OBVIOUS
<1>i. /\ focus \in Group \cup {NoGroup} /\ q \in [Client -> Seq(Event)] /\ listening \subseteq Client
      /\ keys \in Seq({"key_down", "key_up"}) /\ child \in Seq(Group)
      /\ \A c \in Client : Paired(q[c], "focus_gained")
  BY DEF FocusInv, WindowInv
<1>1. ASSUME NEW g \in Group, NEW b \in BOOLEAN, CreateWindowGroup(g, b) PROVE FocusInv'
  <2>1. ~crashed /\ child' = <<g>> \o child /\ keys' = keys
        /\ \/ UpdateFocus(child', receivable')
           \/ UNCHANGED <<focus, q, listening, crashed>>
    BY <1>1 DEF CreateWindowGroup
  <2>2. child' \in Seq(Group)
    BY <1>i, <2>1
  <2>. QED BY <2>1, <2>2, FocusMoves, FocusKept
<1>2. ASSUME NEW g \in Group, NEW b \in BOOLEAN, ReceiveFocus(g, b) PROVE FocusInv'
  <2>1. ~crashed /\ keys' = keys /\ UpdateFocus(child, receivable')
    BY <1>2 DEF ReceiveFocus
  <2>. QED BY <1>i, <2>1, FocusMoves
<1>3. ASSUME NEW g \in Group, NEW pri \in Priority, NEW pos \in Position, SetOrdinalPosition(g, pri, pos)
      PROVE  FocusInv'
  BY <1>3, FocusKept DEF SetOrdinalPosition
<1>4. ASSUME NEW g \in Group, TouchInput(g) PROVE FocusInv'
  <2>1. PICK e : e = [type |-> "touch", to |-> g]
    OBVIOUS
  <2>2. PICK c \in Client : c = ClientOf[g]
    BY WindowAssumption
  <2>3. QueueEvents(c, <<e>>) /\ UNCHANGED <<focus, keys, crashed>> /\ <<e>> # <<>>
    BY <1>4, <2>1, <2>2 DEF TouchInput
  <2>4. e \in Event /\ ~IsFocus(e)
    BY <2>1 DEF Event, IsFocus
  <2>5. ASSUME NEW t, Paired(q[c], t) PROVE Paired(QueueAll(q[c], <<e>>), t)
    <3>1. Paired(QueueEvent(q[c], e), t)
      BY <2>4, <2>5, QueueOne
    <3>. QED BY <3>1, QueueFew
  <2>6. focus = NoGroup /\ ~crashed => Paired(q[c], "focus_lost")
    BY DEF FocusInv
  <2>. QED BY <1>i, <2>3, <2>5, <2>6, QueuedFor
<1>5. ASSUME NEW c \in Client, GetReady(c) PROVE FocusInv'
  <2>1. /\ UNCHANGED <<focus, q, keys, crashed>> /\ listening' \subseteq Client
        /\ \A d \in Client : d \in listening' => q[d] = <<>>
    BY <1>5, <1>i DEF GetReady, FocusInv
  <2>. QED BY <1>i, <2>1, NothingQueued
<1>6. ASSUME NEW c \in Client, GetEvent(c) PROVE FocusInv'
  <2>1. q[c] # <<>> /\ q' = [q EXCEPT ![c] = Tail(q[c])] /\ UNCHANGED <<focus, listening, keys, crashed>>
    BY <1>6 DEF GetEvent
  <2>2. PICK r : r = Tail(q[c])
    OBVIOUS
  <2>3. r \in Seq(Event) /\ Paired(r, "focus_gained") /\ (Paired(q[c], "focus_lost") => Paired(r, "focus_lost"))
    <3>1. \A t : Paired(q[c], t) => Paired(r, t)
      BY <2>1, <2>2, FirstOut
    <3>2. Paired(r, "focus_gained")
      BY <1>i, <3>1
    <3>. QED BY <3>1, <3>2 DEF Paired
  <2>4. q' \in [Client -> Seq(Event)] /\ \A d \in Client : q'[d] = IF d = c THEN r ELSE q[d]
    BY <1>i, <2>1, <2>2, <2>3
  <2>5. ASSUME NEW d \in Client
        PROVE  /\ d \in listening => q'[d] = <<>>
               /\ Paired(q'[d], "focus_gained")
               /\ focus = NoGroup /\ ~crashed => Paired(q'[d], "focus_lost")
    <3>1. CASE d = c
      BY <2>1, <2>3, <2>4, <3>1 DEF FocusInv
    <3>2. CASE d # c
      BY <2>4, <3>2 DEF FocusInv
    <3>. QED BY <3>1, <3>2
  <2>6. \A d \in Client : Paired(q[d], "focus_gained")' = Paired(q'[d], "focus_gained")
    BY DEF Paired, Alternate, EndsWith
  <2>7. \A d \in Client : Paired(q[d], "focus_lost")' = Paired(q'[d], "focus_lost")
    BY DEF Paired, Alternate, EndsWith
  <2>. QED BY <1>i, <2>1, <2>4, <2>5, <2>6, <2>7 DEF FocusInv
<1>7. ASSUME NEW key \in {"key_down", "key_up"}, KeyInput(key) PROVE FocusInv'
  <2>1. UNCHANGED <<focus, crashed>>
    BY <1>7 DEF KeyInput
  <2>2. PICK ks : ks = Append(keys, key)
    OBVIOUS
  <2>3. ks \in Seq({"key_down", "key_up"}) /\ Len(ks) = Len(keys) + 1 /\ ks # <<>>
    BY <1>i, <2>2
  <2>4. CASE focus = NoGroup
    <3>1. keys' = ks /\ UNCHANGED <<q, listening>>
      BY <1>7, <2>2, <2>4 DEF KeyInput
    <3>2. \A d \in Client : d \in listening => q[d] = <<>>
      BY DEF FocusInv
    <3>. QED BY <1>i, <2>1, <2>3, <3>1, <3>2, NothingQueued
  <2>5. CASE focus # NoGroup
    <3>1. focus \in Group
      BY <1>i, <2>5
    <3>2. PICK c \in Client : c = ClientOf[focus]
      BY <3>1, WindowAssumption
    <3>3. PICK es : es = FlattenSeq([i \in 1..Len(ks) |-> Shipped(focus, ks[i])])
      OBVIOUS
    <3>4. keys' = <<>> /\ QueueEvents(c, es)
      BY <1>7, <2>2, <2>3, <2>5, <3>2, <3>3 DEF KeyInput
    <3>5. es \in Seq({e \in Event : ~IsFocus(e)})
      BY <2>3, <3>1, <3>3, KeysShipped
    <3>6. Paired(QueueAll(q[c], es), "focus_gained")
      BY <1>i, <3>5, QueueOthers
    <3>7. CASE es = <<>>
      <4>1. QueueAll(q[c], es) = q[c]
        BY <3>7, QueueNone
      <4>2. q' = q /\ listening' = listening
        BY <1>i, <3>4, <3>7, <4>1 DEF QueueEvents
      <4>3. \A d \in Client : d \in listening => q[d] = <<>>
        BY DEF FocusInv
      <4>. QED BY <1>i, <2>1, <3>4, <4>2, <4>3, NothingQueued
    <3>8. CASE es # <<>>
      BY <1>i, <2>1, <2>5, <3>4, <3>6, <3>8, QueuedFor
    <3>. QED BY <3>7, <3>8
  <2>. QED BY <2>4, <2>5
<1>8. CASE SetKeyBlock
  BY <1>8, FocusKept DEF SetKeyBlock
<1>9. CASE UNCHANGED windowVars
  BY <1>9, FocusKept DEF windowVars
<1>. QED BY <1>1, <1>2, <1>3, <1>4, <1>5, <1>6, <1>7, <1>8, <1>9 DEF WindowNext

LEMMA FocusPairs == WindowSpec => []FocusInv
<1>1. WindowInit => WindowInv /\ FocusInv
  BY WindowStart, FocusStart
<1>2. (WindowInv /\ FocusInv) /\ [WindowNext]_windowVars => (WindowInv /\ FocusInv)'
  BY WindowStep, FocusStep
<1>3. WindowSpec => [](WindowInv /\ FocusInv)
  BY <1>1, <1>2, PTL DEF WindowSpec
<1>. QED BY <1>3, PTL

\* The focus events a client has still to fetch alternate and end with a gain, wherever
\* the focus went meanwhile and whatever a full queue was purged of, for any number of
\* groups and clients, any queue length and any limit.
THEOREM EventsPaired == WindowSpec => []FocusEventsPaired
<1>1. FocusInv => FocusEventsPaired
  BY DEF FocusInv, FocusEventsPaired, Paired
<1>. QED BY <1>1, FocusPairs, PTL

------------------------------------------------------------------------------
(***************************************************************************)
(* Redraw events.  A queue is good when it is sorted by priority; it shows *)
(* a cell of a window when some event of the window has a rectangle that   *)
(* contains the cell.  What is dropped for a new rectangle was shown by    *)
(* events that the new one covers.                                         *)
(***************************************************************************)
AnyRect == [x1 : Int, y1 : Int, x2 : Int, y2 : Int]
RedrawEvent == [win : Win, rect : AnyRect, pri : Nat]
GoodQueue(s) == s \in Seq(RedrawEvent) /\ \A i, j \in DOMAIN s : i < j => s[i].pri <= s[j].pri
Shows(s, w, c) == \E i \in DOMAIN s : s[i].win = w /\ c \in Cells(s[i].rect)

LEMMA CoverCells == \A r, o \in AnyRect : Covers(r, o) => Cells(o) \subseteq Cells(r)
<1> TAKE r, o \in AnyRect
<1> SUFFICES ASSUME Covers(r, o) PROVE Cells(o) \subseteq Cells(r)
  OBVIOUS
<1>1. /\ r.x1 \in Int /\ r.x2 \in Int /\ r.y1 \in Int /\ r.y2 \in Int
      /\ o.x1 \in Int /\ o.x2 \in Int /\ o.y1 \in Int /\ o.y2 \in Int
  BY DEF AnyRect
<1>2. r.x2 >= o.x2 /\ r.y2 >= o.y2 /\ r.x1 <= o.x1 /\ r.y1 <= o.y1
  BY DEF Covers
<1>3. o.x1..(o.x2 - 1) \subseteq r.x1..(r.x2 - 1) /\ o.y1..(o.y2 - 1) \subseteq r.y1..(r.y2 - 1)
  BY <1>1, <1>2
<1>. QED BY <1>3 DEF Cells

\* One event less: the others are still shown, in the same order.
LEMMA OneLess ==
    \A s : GoodQueue(s) => \A i \in 1..Len(s) :
        /\ GoodQueue(RemoveAt(s, i)) /\ Len(RemoveAt(s, i)) = Len(s) - 1
        /\ \A w, c : Shows(s, w, c) => Shows(RemoveAt(s, i), w, c) \/ (s[i].win = w /\ c \in Cells(s[i].rect))
<1> TAKE s
<1> SUFFICES ASSUME GoodQueue(s), NEW i \in 1..Len(s)
             PROVE  /\ GoodQueue(RemoveAt(s, i)) /\ Len(RemoveAt(s, i)) = Len(s) - 1
                    /\ \A w, c : Shows(s, w, c) =>
                          Shows(RemoveAt(s, i), w, c) \/ (s[i].win = w /\ c \in Cells(s[i].rect))
  OBVIOUS
<1>n. PICK n \in Nat : n = Len(s) /\ i \in 1..n /\ DOMAIN s = 1..n /\ s \in Seq(RedrawEvent)
  BY DEF GoodQueue
<1>1. PICK r : r = RemoveAt(s, i)
  OBVIOUS
<1>2. /\ r \in Seq(RedrawEvent) /\ Len(r) = n - 1 /\ DOMAIN r = 1..(n - 1)
      /\ \A j \in 1..(n - 1) : r[j] = IF j < i THEN s[j] ELSE s[j + 1]
  <2>1. r = Removal(s, i)
    BY <1>1 DEF RemoveAt, Removal
  <2>. QED BY <1>n, <2>1, RemovedAt
<1>3. ASSUME NEW a \in 1..(n - 1), NEW b \in 1..(n - 1), a < b PROVE r[a].pri <= r[b].pri
  <2>1. PICK ma, mb \in 1..n : ma < mb /\ r[a] = s[ma] /\ r[b] = s[mb]
    <3>1. CASE b < i
      <4>1. a \in 1..n /\ b \in 1..n /\ a < i
        BY <1>3, <3>1, <1>n
      <4>. QED BY <1>2, <1>3, <3>1, <4>1
    <3>2. CASE ~(b < i) /\ a < i
      <4>1. a \in 1..n /\ b + 1 \in 1..n /\ a < b + 1
        BY <1>3, <3>2, <1>n
      <4>. QED BY <1>2, <3>2, <4>1
    <3>3. CASE ~(b < i) /\ ~(a < i)
      <4>1. a + 1 \in 1..n /\ b + 1 \in 1..n /\ a + 1 < b + 1
        BY <1>3, <3>3, <1>n
      <4>. QED BY <1>2, <3>3, <4>1
    <3>. QED BY <3>1, <3>2, <3>3
  <2>. QED BY <1>n, <2>1 DEF GoodQueue
<1>4. ASSUME NEW w, NEW c, Shows(s, w, c), ~(s[i].win = w /\ c \in Cells(s[i].rect)) PROVE Shows(r, w, c)
  <2>1. PICK k \in 1..n : s[k].win = w /\ c \in Cells(s[k].rect)
    BY <1>4, <1>n DEF Shows
  <2>2. k # i
    BY <1>4, <2>1
  <2>3. PICK j \in 1..(n - 1) : r[j] = s[k]
    <3>1. CASE k < i
      <4>1. k \in 1..(n - 1)
        BY <3>1, <1>n
      <4>. QED BY <1>2, <3>1, <4>1
    <3>2. CASE k > i
      <4>1. k - 1 \in 1..(n - 1) /\ ~(k - 1 < i) /\ (k - 1) + 1 = k
        BY <3>2, <1>n
      <4>. QED BY <1>2, <4>1
    <3>. QED BY <2>2, <3>1, <3>2, <1>n
  <2>. QED BY <1>2, <2>1, <2>3 DEF Shows
<1>5. GoodQueue(r)
  BY <1>2, <1>3 DEF GoodQueue
<1>. QED BY <1>1, <1>2, <1>4, <1>5, <1>n

\* The state of the loop that drops what a new rectangle covers.
Dropping(x, s, e) ==
    /\ x = [q |-> x.q, limit |-> x.limit]
    /\ GoodQueue(x.q) /\ x.limit \in 0..Len(x.q)
    /\ \A w, c : Shows(s, w, c) => Shows(x.q, w, c) \/ (w = e.win /\ c \in Cells(e.rect))

LEMMA DropTurn ==
    \A s : \A e \in RedrawEvent : \A x : Dropping(x, s, e) =>
        \A k \in Nat \ {0} : Dropping(DropCovered(x, k, e), s, e)
<1> TAKE s
<1> TAKE e \in RedrawEvent
<1> TAKE x
<1> SUFFICES ASSUME Dropping(x, s, e), NEW k \in Nat \ {0} PROVE Dropping(DropCovered(x, k, e), s, e)
  OBVIOUS
<1>1. PICK qq, l : qq = x.q /\ l = x.limit /\ GoodQueue(qq) /\ l \in 0..Len(qq) /\ qq \in Seq(RedrawEvent)
  BY DEF Dropping, GoodQueue
<1>2. CASE k > x.limit \/ ~(x.q[k].win = e.win /\ Covers(e.rect, x.q[k].rect))
  BY <1>2 DEF DropCovered
<1>3. CASE ~(k > x.limit) /\ x.q[k].win = e.win /\ Covers(e.rect, x.q[k].rect)
  <2>1. k \in 1..Len(qq) /\ l - 1 \in 0..(Len(qq) - 1)
    BY <1>1, <1>3
  <2>2. DropCovered(x, k, e) = [q |-> RemoveAt(qq, k), limit |-> l - 1]
    BY <1>1, <1>3 DEF DropCovered
  <2>3. PICK r : r = RemoveAt(qq, k)
    OBVIOUS
  <2>4. /\ GoodQueue(r) /\ Len(r) = Len(qq) - 1
        /\ \A w, c : Shows(qq, w, c) => Shows(r, w, c) \/ (qq[k].win = w /\ c \in Cells(qq[k].rect))
    BY <1>1, <2>1, <2>3, OneLess
  <2>5. Cells(qq[k].rect) \subseteq Cells(e.rect)
    <3>0. qq[k] \in RedrawEvent
      BY <1>1, <2>1
    <3>1. qq[k].rect \in AnyRect /\ e.rect \in AnyRect
      BY <3>0 DEF RedrawEvent
    <3>. QED BY <1>1, <1>3, <3>1, CoverCells
  <2>6. \A w, c : Shows(s, w, c) => Shows(r, w, c) \/ (w = e.win /\ c \in Cells(e.rect))
    <3>1. \A w, c : Shows(s, w, c) => Shows(qq, w, c) \/ (w = e.win /\ c \in Cells(e.rect))
      BY <1>1 DEF Dropping
    <3>. QED BY <1>1, <1>3, <2>4, <2>5, <3>1
  <2>. QED BY <2>1, <2>2, <2>3, <2>4, <2>6 DEF Dropping
<1>. QED BY <1>2, <1>3

LEMMA DropKeeps ==
    \A s : GoodQueue(s) => \A e \in RedrawEvent :
        /\ GoodQueue(Uncovered(s, e))
        /\ \A w, c : Shows(s, w, c) => Shows(Uncovered(s, e), w, c) \/ (w = e.win /\ c \in Cells(e.rect))
<1> TAKE s
<1> SUFFICES ASSUME GoodQueue(s), NEW e \in RedrawEvent
             PROVE  /\ GoodQueue(Uncovered(s, e))
                    /\ \A w, c : Shows(s, w, c) =>
                          Shows(Uncovered(s, e), w, c) \/ (w = e.win /\ c \in Cells(e.rect))
  OBVIOUS
<1>n. PICK n \in Nat : n = Len(s)
  BY DEF GoodQueue
<1> DEFINE b == [q |-> s, limit |-> Len(s)]
           S == {x \in [q : Seq(RedrawEvent), limit : Nat] : Dropping(x, s, e)}
           h == [p \in (1..n) \X S |-> DropCovered(p[2], p[1], e)]
           turn == CHOOSE f : f = [k \in 0..n |-> IF k = 0 THEN b ELSE DropCovered(f[k - 1], k, e)]
<1>0. \A x : Dropping(x, s, e) => x \in S
  <2> SUFFICES ASSUME NEW x, Dropping(x, s, e) PROVE x \in [q : Seq(RedrawEvent), limit : Nat]
    OBVIOUS
  <2>1. x.q \in Seq(RedrawEvent) /\ x.limit \in Nat /\ x = [q |-> x.q, limit |-> x.limit]
    BY DEF Dropping, GoodQueue
  <2>. QED BY <2>1
<1>1. b \in S /\ \A i \in 1..n, x \in S : DropCovered(x, i, e) \in S
  <2>1. \A i \in 1..n : i \in Nat \ {0}
    OBVIOUS
  <2>2. Dropping(b, s, e)
    BY <1>n DEF Dropping
  <2>3. \A i \in 1..n, x \in S : DropCovered(x, i, e) \in S
    BY <1>0, <2>1, DropTurn
  <2>. QED BY <1>0, <2>2, <2>3
<1> HIDE DEF b
<1>2. h \in [(1..n) \X S -> S] /\ \A i \in 1..n, x \in S : h[<<i, x>>] = DropCovered(x, i, e)
  <2> HIDE DEF S
  <2>. QED BY <1>1
<1>3. PICK g \in [0..n -> S] : IsLoop(g, n, b, h)
  <2> HIDE DEF S, h
  <2>. QED BY <1>1, <1>2, LoopExists
<1>4. turn = [k \in 0..n |-> IF k = 0 THEN b ELSE DropCovered(turn[k - 1], k, e)]
  <2>1. \A i \in 1..n : i - 1 \in 0..n
    OBVIOUS
  <2>2. g = [k \in 0..n |-> IF k = 0 THEN b ELSE DropCovered(g[k - 1], k, e)]
    <3> HIDE DEF S, h
    <3>. QED BY <1>2, <1>3, <2>1 DEF IsLoop
  <2>. QED BY <2>2, Zenon
<1>5. Uncovered(s, e) = turn[n].q
  BY <1>n DEF Uncovered, b
<1> HIDE DEF turn
<1> DEFINE P == {i \in 0..n : turn[i] \in S}
<1>6. 0 \in P
  <2> HIDE DEF S
  <2>. QED BY <1>1, <1>4
<1>7. ASSUME NEW i \in 1..n, i - 1 \in P PROVE i \in P
  <2>1. i \in 0..n /\ i # 0 /\ turn[i - 1] \in S
    <3> HIDE DEF S
    <3>. QED BY <1>7
  <2>2. turn[i] = DropCovered(turn[i - 1], i, e)
    BY <1>4, <2>1
  <2> HIDE DEF S
  <2>. QED BY <1>1, <2>1, <2>2
<1>8. P = 0..n
  <2>1. P \in SUBSET (0..n)
    OBVIOUS
  <2> HIDE DEF P
  <2>. QED BY <1>6, <1>7, <2>1, UpTo
<1>9. n \in P
  <2> HIDE DEF P
  <2>. QED BY <1>8
<1>10. Dropping(turn[n], s, e)
  BY <1>9
<1>. QED BY <1>5, <1>10 DEF Dropping

\* The new event is put behind those of its priority.
LEMMA QueuedRedraw ==
    \A s : GoodQueue(s) => \A e \in RedrawEvent :
        /\ GoodQueue(QueueRedraw(s, e))
        /\ \A w, c : Shows(s, w, c) \/ (w = e.win /\ c \in Cells(e.rect)) => Shows(QueueRedraw(s, e), w, c)
<1> TAKE s
<1> SUFFICES ASSUME GoodQueue(s), NEW e \in RedrawEvent
             PROVE  /\ GoodQueue(QueueRedraw(s, e))
                    /\ \A w, c : Shows(s, w, c) \/ (w = e.win /\ c \in Cells(e.rect)) =>
                          Shows(QueueRedraw(s, e), w, c)
  OBVIOUS
<1>1. PICK kept : kept = Uncovered(s, e)
  OBVIOUS
<1>2. /\ GoodQueue(kept)
      /\ \A w, c : Shows(s, w, c) => Shows(kept, w, c) \/ (w = e.win /\ c \in Cells(e.rect))
  BY <1>1, DropKeeps
<1>n. PICK n \in Nat : n = Len(kept) /\ DOMAIN kept = 1..n /\ kept \in Seq(RedrawEvent)
  BY <1>2 DEF GoodQueue
<1>p. e.pri \in Nat /\ \A j \in 1..n : kept[j].pri \in Nat
  <2>1. \A j \in 1..n : kept[j] \in RedrawEvent
    BY <1>n
  <2>. QED BY <2>1 DEF RedrawEvent
<1> DEFINE later == {j \in 1..n : kept[j].pri > e.pri}
           place == IF later = {} THEN n + 1 ELSE Min(later)
<1>3. /\ place \in 1..(n + 1)
      /\ \A j \in 1..n : j < place => kept[j].pri <= e.pri
      /\ \A j \in 1..n : ~(j < place) => e.pri <= kept[j].pri
  <2>1. CASE later = {}
    <3>1. place = n + 1
      BY <2>1
    <3>. QED BY <1>p, <2>1, <3>1
  <2>2. CASE later # {}
    <3>1. later \in SUBSET Nat
      OBVIOUS
    <3>2. PICK l \in later : \A k \in later : l <= k
      <4> HIDE DEF later
      <4>. QED BY <2>2, <3>1, LeastNat
    <3>3. Min(later) \in later /\ \A k \in later : Min(later) <= k
      <4> HIDE DEF later
      <4>. QED BY <3>2 DEF Min
    <3>4. PICK m : m = Min(later) /\ m = place
      BY <2>2
    <3>5. m \in 1..n /\ kept[m].pri > e.pri /\ \A k \in later : m <= k
      BY <3>3, <3>4
    <3>6. \A j \in 1..n : j < m => kept[j].pri <= e.pri
      <4> SUFFICES ASSUME NEW j \in 1..n, j < m, ~(kept[j].pri <= e.pri) PROVE FALSE
        OBVIOUS
      <4>1. j \in later
        BY <1>p
      <4>. QED BY <3>5, <4>1
    <3>7. \A j \in 1..n : ~(j < m) => e.pri <= kept[j].pri
      <4> SUFFICES ASSUME NEW j \in 1..n, ~(j < m) PROVE e.pri <= kept[j].pri
        OBVIOUS
      <4>1. j = m \/ m < j
        BY <3>5
      <4>2. kept[m].pri <= kept[j].pri
        <5>1. CASE j = m
          BY <1>p, <5>1
        <5>2. CASE m < j
          BY <1>2, <1>n, <3>5, <5>2 DEF GoodQueue
        <5>. QED BY <4>1, <5>1, <5>2
      <4>3. kept[m].pri \in Nat /\ kept[j].pri \in Nat
        BY <1>p, <3>5
      <4>. QED BY <1>p, <3>5, <4>2, <4>3
    <3>8. m \in 1..(n + 1)
      BY <3>5
    <3> HIDE DEF place, later
    <3>. QED BY <3>4, <3>6, <3>7, <3>8
  <2>. QED BY <2>1, <2>2
<1>4. PICK i \in 0..n : i + 1 = place
  <2> HIDE DEF place
  <2>1. place - 1 \in 0..n /\ (place - 1) + 1 = place
    BY <1>3
  <2>. QED BY <2>1
<1>5. PICK r : r = QueueRedraw(s, e)
  OBVIOUS
<1>6. r = Insertion(kept, i, e)
  <2>1. r = InsertAt(kept, place, e)
    BY <1>1, <1>5, <1>n DEF QueueRedraw
  <2> HIDE DEF place
  <2>2. place - 1 = i
    BY <1>4
  <2>. QED BY <1>4, <2>1, <2>2 DEF InsertAt, Insertion
<1> HIDE DEF place
<1>7. /\ r \in Seq(RedrawEvent) /\ DOMAIN r = 1..(n + 1)
      /\ \A j \in 1..(n + 1) : r[j] = IF j <= i THEN kept[j] ELSE IF j = i + 1 THEN e ELSE kept[j - 1]
  <2>1. Inserted(r, RedrawEvent, kept, i, e)
    BY <1>4, <1>6, <1>n, InsertionIs
  <2>. QED BY <2>1, <1>n DEF Inserted
<1>8. /\ \A j \in 1..n : j <= i => kept[j].pri <= e.pri
      /\ \A j \in 1..n : j > i => e.pri <= kept[j].pri
  <2>1. \A j \in 1..n : (j <= i <=> j < place) /\ (j > i <=> ~(j < place))
    BY <1>4
  <2>. QED BY <1>3, <2>1
<1>9. ASSUME NEW a \in 1..(n + 1), NEW b \in 1..(n + 1), a < b PROVE r[a].pri <= r[b].pri
  <2>1. CASE b <= i
    <3>1. a \in 1..n /\ b \in 1..n /\ a <= i /\ r[a] = kept[a] /\ r[b] = kept[b]
      BY <1>7, <1>9, <2>1
    <3>. QED BY <1>2, <1>9, <1>n, <3>1 DEF GoodQueue
  <2>2. CASE b = i + 1
    <3>1. a \in 1..n /\ a <= i /\ r[b] = e /\ r[a] = kept[a]
      BY <1>7, <1>9, <2>2
    <3>. QED BY <1>8, <3>1
  <2>3. CASE b > i + 1
    <3>1. b - 1 \in 1..n /\ b - 1 > i /\ r[b] = kept[b - 1]
      BY <1>7, <1>9, <2>3
    <3>2. e.pri <= kept[b - 1].pri
      BY <1>8, <3>1
    <3>3. CASE a <= i
      <4>1. a \in 1..n /\ r[a] = kept[a] /\ a < b - 1
        BY <1>7, <3>1, <3>3
      <4>. QED BY <1>2, <1>n, <3>1, <4>1 DEF GoodQueue
    <3>4. CASE a = i + 1
      BY <1>7, <3>1, <3>2, <3>4
    <3>5. CASE a > i + 1
      <4>1. a - 1 \in 1..n /\ r[a] = kept[a - 1] /\ a - 1 < b - 1
        BY <1>7, <1>9, <3>1, <3>5
      <4>. QED BY <1>2, <1>n, <3>1, <4>1 DEF GoodQueue
    <3>. QED BY <3>3, <3>4, <3>5
  <2>. QED BY <2>1, <2>2, <2>3
<1>10. ASSUME NEW w, NEW c, Shows(kept, w, c) \/ (w = e.win /\ c \in Cells(e.rect)) PROVE Shows(r, w, c)
  <2>1. CASE w = e.win /\ c \in Cells(e.rect)
    <3>1. i + 1 \in 1..(n + 1) /\ r[i + 1] = e
      BY <1>7
    <3>. QED BY <1>7, <2>1, <3>1 DEF Shows
  <2>2. CASE Shows(kept, w, c)
    <3>1. PICK k \in 1..n : kept[k].win = w /\ c \in Cells(kept[k].rect)
      BY <1>n, <2>2 DEF Shows
    <3>2. PICK j \in 1..(n + 1) : r[j] = kept[k]
      <4>1. CASE k <= i
        <5>1. k \in 1..(n + 1)
          OBVIOUS
        <5>. QED BY <1>7, <4>1, <5>1
      <4>2. CASE k > i
        <5>1. k + 1 \in 1..(n + 1) /\ ~(k + 1 <= i) /\ k + 1 # i + 1 /\ (k + 1) - 1 = k
          BY <4>2
        <5>. QED BY <1>7, <5>1
      <4>. QED BY <4>1, <4>2
    <3>. QED BY <1>7, <3>1, <3>2 DEF Shows
  <2>. QED BY <1>10, <2>1, <2>2
<1>11. GoodQueue(r)
  BY <1>7, <1>9 DEF GoodQueue
<1>. QED BY <1>2, <1>5, <1>10, <1>11

\* One event after another, for the rectangles of a region.
LEMMA QueuedRects ==
    \A s : GoodQueue(s) => \A w \in Win, rects \in Seq(AnyRect), pri \in Nat :
        /\ GoodQueue(QueueRects(s, w, rects, pri))
        /\ \A v, c : Shows(s, v, c) \/ (v = w /\ c \in AllCells(rects)) => Shows(QueueRects(s, w, rects, pri), v, c)
<1> TAKE s
<1> SUFFICES ASSUME GoodQueue(s), NEW w \in Win, NEW rects \in Seq(AnyRect), NEW pri \in Nat
             PROVE  /\ GoodQueue(QueueRects(s, w, rects, pri))
                    /\ \A v, c : Shows(s, v, c) \/ (v = w /\ c \in AllCells(rects)) =>
                          Shows(QueueRects(s, w, rects, pri), v, c)
  OBVIOUS
<1>n. PICK n \in Nat : n = Len(rects) /\ DOMAIN rects = 1..n /\ \A i \in 1..n : rects[i] \in AnyRect
  OBVIOUS
<1> DEFINE e(i) == [win |-> w, rect |-> rects[i], pri |-> pri]
           S == {x \in Seq(RedrawEvent) : GoodQueue(x)}
           h == [p \in (1..n) \X S |-> QueueRedraw(p[2], e(p[1]))]
           turn == CHOOSE f : f = [i \in 0..n |-> IF i = 0 THEN s
                                       ELSE QueueRedraw(f[i - 1], [win |-> w, rect |-> rects[i], pri |-> pri])]
<1>0. \A i \in 1..n : e(i) \in RedrawEvent /\ e(i).win = w /\ e(i).rect = rects[i]
  BY <1>n DEF RedrawEvent
<1>5. QueueRects(s, w, rects, pri) = turn[n]
  BY <1>n DEF QueueRects
<1>a. turn = CHOOSE f : f = [i \in 0..n |-> IF i = 0 THEN s ELSE QueueRedraw(f[i - 1], e(i))]
  OBVIOUS
<1> HIDE DEF turn, e
<1>b. \A x : GoodQueue(x) <=> x \in S
  BY DEF GoodQueue
<1>1. s \in S /\ \A i \in 1..n, x \in S : QueueRedraw(x, e(i)) \in S
  <2> HIDE DEF S
  <2>. QED BY <1>0, <1>b, QueuedRedraw
<1>2. h \in [(1..n) \X S -> S] /\ \A i \in 1..n, x \in S : h[<<i, x>>] = QueueRedraw(x, e(i))
  <2> HIDE DEF S
  <2>. QED BY <1>1
<1>3. PICK g \in [0..n -> S] : IsLoop(g, n, s, h)
  <2> HIDE DEF S, h
  <2>. QED BY <1>1, <1>2, LoopExists
<1>4. turn = [i \in 0..n |-> IF i = 0 THEN s ELSE QueueRedraw(turn[i - 1], e(i))]
  <2>1. \A i \in 1..n : i - 1 \in 0..n
    OBVIOUS
  <2>2. g = [i \in 0..n |-> IF i = 0 THEN s ELSE QueueRedraw(g[i - 1], e(i))]
    <3> HIDE DEF S, h
    <3>. QED BY <1>2, <1>3, <2>1 DEF IsLoop
  <2>. QED BY <1>a, <2>2, Zenon
<1> DEFINE Met(i, v, c) == Shows(s, v, c) \/ (v = w /\ \E k \in 1..i : c \in Cells(rects[k]))
           P == {i \in 0..n : GoodQueue(turn[i]) /\ \A v, c : Met(i, v, c) => Shows(turn[i], v, c)}
<1>6. 0 \in P
  <2>1. turn[0] = s /\ \A v, c : Met(0, v, c) => Shows(s, v, c)
    BY <1>4
  <2>. QED BY <2>1
<1>7. ASSUME NEW i \in 1..n, i - 1 \in P PROVE i \in P
  <2>1. i \in 0..n /\ i # 0 /\ GoodQueue(turn[i - 1]) /\ \A v, c : Met(i - 1, v, c) => Shows(turn[i - 1], v, c)
    BY <1>7
  <2>2. turn[i] = QueueRedraw(turn[i - 1], e(i))
    BY <1>4, <2>1
  <2>3. \A v, c : Met(i, v, c) => Met(i - 1, v, c) \/ (v = w /\ c \in Cells(rects[i]))
    <3>1. \A k \in 1..i : k \in 1..(i - 1) \/ k = i
      OBVIOUS
    <3>. QED BY <3>1
  <2> HIDE DEF Met
  <2>4. GoodQueue(turn[i]) /\ \A v, c : Shows(turn[i - 1], v, c) \/ (v = w /\ c \in Cells(rects[i])) => Shows(turn[i], v, c)
    BY <1>0, <2>1, <2>2, QueuedRedraw
  <2>5. \A v, c : Met(i, v, c) => Shows(turn[i], v, c)
    BY <2>1, <2>3, <2>4
  <2>. QED BY <2>1, <2>4, <2>5
<1>8. P = 0..n
  <2>1. P \in SUBSET (0..n)
    OBVIOUS
  <2> HIDE DEF P
  <2>. QED BY <1>6, <1>7, <2>1, UpTo
<1>9. n \in P
  <2> HIDE DEF P
  <2>. QED BY <1>8
<1>10. ASSUME NEW v, NEW c, Shows(s, v, c) \/ (v = w /\ c \in AllCells(rects)) PROVE Met(n, v, c)
  <2>1. c \in AllCells(rects) => \E k \in 1..n : c \in Cells(rects[k])
    BY <1>n DEF AllCells
  <2>. QED BY <1>10, <2>1
<1> HIDE DEF Met
<1>. QED BY <1>5, <1>9, <1>10

\* The events of one window are purged, those of the others are still shown.
LEMMA OthersShown ==
    \A s : GoodQueue(s) => \A w :
        /\ GoodQueue(WithoutWindow(s, w)) /\ (s = <<>> => WithoutWindow(s, w) = <<>>)
        /\ \A v, c : Shows(s, v, c) /\ v # w => Shows(WithoutWindow(s, w), v, c)
<1> TAKE s
<1> SUFFICES ASSUME GoodQueue(s), NEW w
             PROVE  /\ GoodQueue(WithoutWindow(s, w)) /\ (s = <<>> => WithoutWindow(s, w) = <<>>)
                    /\ \A v, c : Shows(s, v, c) /\ v # w => Shows(WithoutWindow(s, w), v, c)
  OBVIOUS
<1>n. PICK n \in Nat : n = Len(s) /\ DOMAIN s = 1..n /\ s \in Seq(RedrawEvent)
  BY DEF GoodQueue
<1> DEFINE S == Seq(RedrawEvent)
           kept(x, i) == IF s[i].win = w THEN x ELSE Append(x, s[i])
           h == [p \in (1..n) \X S |-> kept(p[2], p[1])]
           left == CHOOSE f : f = [i \in 0..n |-> IF i = 0 THEN <<>>
                                       ELSE IF s[i].win = w THEN f[i - 1] ELSE Append(f[i - 1], s[i])]
<1>5. WithoutWindow(s, w) = left[n]
  BY <1>n DEF WithoutWindow
<1>a. left = CHOOSE f : f = [i \in 0..n |-> IF i = 0 THEN <<>> ELSE kept(f[i - 1], i)]
  OBVIOUS
<1> HIDE DEF left
<1>1. <<>> \in S /\ \A i \in 1..n, x \in S : kept(x, i) \in S
  BY <1>n
<1> HIDE DEF kept
<1>2. h \in [(1..n) \X S -> S] /\ \A i \in 1..n, x \in S : h[<<i, x>>] = kept(x, i)
  <2> HIDE DEF S
  <2>. QED BY <1>1
<1>3. PICK g \in [0..n -> S] : IsLoop(g, n, <<>>, h)
  <2> HIDE DEF S, h
  <2>. QED BY <1>1, <1>2, LoopExists
<1>4. left = [i \in 0..n |-> IF i = 0 THEN <<>> ELSE kept(left[i - 1], i)]
  <2>1. \A i \in 1..n : i - 1 \in 0..n
    OBVIOUS
  <2>2. g = [i \in 0..n |-> IF i = 0 THEN <<>> ELSE kept(g[i - 1], i)]
    <3> HIDE DEF S, h
    <3>. QED BY <1>2, <1>3, <2>1 DEF IsLoop
  <2>. QED BY <1>a, <2>2, Zenon
\* What was kept of the first i events.
<1> DEFINE Some(x, i) ==
               /\ GoodQueue(x) /\ \A a \in DOMAIN x : \E k \in 1..i : x[a] = s[k]
               /\ \A k \in 1..i : s[k].win # w => \E a \in DOMAIN x : x[a] = s[k]
           P == {i \in 0..n : Some(left[i], i)}
<1>6. 0 \in P
  <2>1. Some(<<>>, 0)
    BY DEF GoodQueue
  <2>2. left[0] = <<>>
    BY <1>4
  <2> HIDE DEF Some
  <2>. QED BY <2>1, <2>2
<1>7. ASSUME NEW i \in 1..n, i - 1 \in P PROVE i \in P
  <2>1. i \in 0..n /\ i # 0 /\ Some(left[i - 1], i - 1)
    <3> HIDE DEF Some
    <3>. QED BY <1>7
  <2>2. PICK x : x = left[i - 1]
    OBVIOUS
  <2>3. PICK m \in Nat : m = Len(x) /\ x \in Seq(RedrawEvent) /\ DOMAIN x = 1..m
    BY <2>1, <2>2 DEF GoodQueue
  <2>4. /\ \A a \in 1..m : \E k \in 1..(i - 1) : x[a] = s[k]
        /\ \A k \in 1..(i - 1) : s[k].win # w => \E a \in 1..m : x[a] = s[k]
        /\ GoodQueue(x)
    BY <2>1, <2>2, <2>3
  <2>5. PICK y : y = left[i] /\ y = kept(x, i)
    BY <1>4, <2>1, <2>2
  <2>6. \A k \in 1..i : k \in 1..(i - 1) \/ k = i
    OBVIOUS
  <2>7. \A k \in 1..(i - 1) : k \in 1..i /\ k \in 1..n /\ k < i
    OBVIOUS
  <2>8. CASE s[i].win = w
    <3>1. y = x
      BY <2>5, <2>8 DEF kept
    <3>2. Some(y, i)
      BY <2>3, <2>4, <2>6, <2>7, <2>8, <3>1
    <3> HIDE DEF Some
    <3>. QED BY <2>1, <2>5, <3>2
  <2>9. CASE s[i].win # w
    <3>1. y = Append(x, s[i]) /\ s[i] \in RedrawEvent
      BY <1>n, <2>5, <2>9 DEF kept
    <3>2. /\ y \in Seq(RedrawEvent) /\ DOMAIN y = 1..(m + 1) /\ y[m + 1] = s[i]
          /\ \A a \in 1..m : y[a] = x[a]
      BY <2>3, <3>1
    <3>3. \A a \in 1..(m + 1) : a \in 1..m \/ a = m + 1
      OBVIOUS
    <3>4. \A a \in 1..m : a \in 1..(m + 1)
      OBVIOUS
    <3>5. ASSUME NEW a \in 1..(m + 1), NEW b \in 1..(m + 1), a < b PROVE y[a].pri <= y[b].pri
      <4>1. a \in 1..m /\ y[a] = x[a]
        BY <3>2, <3>5
      <4>2. CASE b \in 1..m
        BY <2>3, <2>4, <3>2, <3>5, <4>1, <4>2 DEF GoodQueue
      <4>3. CASE b = m + 1
        <5>1. PICK k \in 1..(i - 1) : x[a] = s[k]
          BY <2>4, <4>1
        <5>2. k \in 1..n /\ k < i /\ i \in 1..n
          BY <2>7
        <5>3. s[k].pri <= s[i].pri
          BY <1>n, <5>2 DEF GoodQueue
        <5>. QED BY <3>2, <4>1, <4>3, <5>1, <5>3
      <4>. QED BY <3>3, <4>2, <4>3
    <3>6. GoodQueue(y)
      BY <3>2, <3>5 DEF GoodQueue
    <3>7. \A a \in 1..(m + 1) : \E k \in 1..i : y[a] = s[k]
      <4>1. i \in 1..i /\ y[m + 1] = s[i]
        BY <3>2
      <4>2. \A a \in 1..m : \E k \in 1..i : y[a] = s[k]
        BY <2>4, <2>7, <3>2
      <4>. QED BY <3>3, <4>1, <4>2
    <3>8. \A k \in 1..i : s[k].win # w => \E a \in 1..(m + 1) : y[a] = s[k]
      <4>1. m + 1 \in 1..(m + 1)
        OBVIOUS
      <4>. QED BY <2>4, <2>6, <3>2, <3>4, <4>1
    <3>9. Some(y, i)
      BY <3>2, <3>6, <3>7, <3>8
    <3> HIDE DEF Some
    <3>. QED BY <2>1, <2>5, <3>9
  <2>. QED BY <2>8, <2>9
<1>8. P = 0..n
  <2>1. P \in SUBSET (0..n)
    OBVIOUS
  <2> HIDE DEF P
  <2>. QED BY <1>6, <1>7, <2>1, UpTo
<1>9. Some(left[n], n)
  <2>1. n \in P
    <3> HIDE DEF P
    <3>. QED BY <1>8
  <2> HIDE DEF Some
  <2>. QED BY <2>1
<1>10. PICK r : r = left[n] /\ Some(r, n)
  BY <1>9
<1>11. s = <<>> => r = <<>>
  <2> SUFFICES ASSUME s = <<>> PROVE r = <<>>
    OBVIOUS
  <2>1. n = 0
    BY <1>n
  <2>2. r \in Seq(RedrawEvent) /\ \A a \in DOMAIN r : \E k \in 1..n : r[a] = s[k]
    BY <1>10 DEF GoodQueue
  <2>3. \A k \in 1..n : FALSE
    BY <2>1
  <2>4. DOMAIN r = {}
    BY <2>2, <2>3
  <2>. QED BY <2>2, <2>4
<1>12. ASSUME NEW v, NEW c, Shows(s, v, c), v # w PROVE Shows(r, v, c)
  <2>1. PICK k \in 1..n : s[k].win = v /\ c \in Cells(s[k].rect)
    BY <1>n, <1>12 DEF Shows
  <2>2. PICK a \in DOMAIN r : r[a] = s[k]
    BY <1>10, <1>12, <2>1
  <2>. QED BY <2>1, <2>2 DEF Shows
<1>. QED BY <1>5, <1>10, <1>11, <1>12

(***************************************************************************)
(* Regions.  Whatever is added or eliminated, the rectangles of a region   *)
(* have integer corners.                                                   *)
(***************************************************************************)
LEMMA TwoOf == \A a, b \in Int : Max({a, b}) \in Int /\ Min({a, b}) \in Int
<1> TAKE a, b \in Int
<1>1. PICK m \in {a, b} : \A y \in {a, b} : m >= y
  OBVIOUS
<1>2. PICK n \in {a, b} : \A y \in {a, b} : n <= y
  OBVIOUS
<1>3. Max({a, b}) \in {a, b}
  BY <1>1 DEF Max
<1>4. Min({a, b}) \in {a, b}
  BY <1>2 DEF Min
<1>. QED BY <1>3, <1>4

LEMMA PieceType ==
    ASSUME NEW test, NEW x1 \in Int, NEW y1 \in Int, NEW x2 \in Int, NEW y2 \in Int
    PROVE  PieceIf(test, x1, y1, x2, y2) \in Seq(AnyRect)
<1>1. Rect(x1, y1, x2, y2) \in AnyRect
  BY DEF Rect, AnyRect
<1>. QED BY <1>1 DEF PieceIf

LEMMA PiecesType ==
    \A r, o \in AnyRect :
        NewPieces(r, Intersect(r, o)) \in Seq(AnyRect) /\ OldPieces(o, Intersect(r, o)) \in Seq(AnyRect)
<1> TAKE r, o \in AnyRect
<1>1. /\ r.x1 \in Int /\ r.x2 \in Int /\ r.y1 \in Int /\ r.y2 \in Int
      /\ o.x1 \in Int /\ o.x2 \in Int /\ o.y1 \in Int /\ o.y2 \in Int
  BY DEF AnyRect
<1>2. PICK i : i = Intersect(r, o)
  OBVIOUS
<1>3. i.x1 \in Int /\ i.x2 \in Int /\ i.y1 \in Int /\ i.y2 \in Int
  BY <1>1, <1>2, TwoOf DEF Intersect, Rect
<1>4. NewPieces(r, i) \in Seq(AnyRect)
  <2>1. /\ PieceIf(i.y2 # r.y2, r.x1, i.y1, r.x2, r.y2) \in Seq(AnyRect)
        /\ PieceIf(i.y1 # r.y1, r.x1, r.y1, r.x2, i.y1) \in Seq(AnyRect)
        /\ PieceIf(i.x2 # r.x2, i.x2, i.y1, r.x2, i.y2) \in Seq(AnyRect)
        /\ PieceIf(i.x1 # r.x1, r.x1, i.y1, i.x1, i.y2) \in Seq(AnyRect)
    BY <1>1, <1>3, PieceType
  <2>2. \A a, b, c, d \in Seq(AnyRect) : a \o b \o c \o d \in Seq(AnyRect)
    OBVIOUS
  <2>. QED BY <2>1, <2>2, Zenon DEF NewPieces
<1>5. OldPieces(o, i) \in Seq(AnyRect)
  <2>1. /\ PieceIf(o.y2 # i.y2, o.x1, i.y2, o.x2, o.y2) \in Seq(AnyRect)
        /\ PieceIf(o.x2 # i.x2, i.x2, i.y1, o.x2, i.y2) \in Seq(AnyRect)
        /\ PieceIf(i.x1 # o.x1, o.x1, i.y1, i.x1, i.y2) \in Seq(AnyRect)
        /\ PieceIf(i.y1 # o.y1, o.x1, o.y1, o.x2, i.y1) \in Seq(AnyRect)
    BY <1>1, <1>3, PieceType
  <2>2. \A a, b, c, d \in Seq(AnyRect) : a \o b \o c \o d \in Seq(AnyRect)
    OBVIOUS
  <2>. QED BY <2>1, <2>2, Zenon DEF OldPieces
<1>. QED BY <1>2, <1>4, <1>5

LEMMA AddType == \A rects \in Seq(AnyRect), r \in AnyRect : AddRect(rects, r) \in Seq(AnyRect)
<1> TAKE rects \in Seq(AnyRect), r \in AnyRect
<1>n. PICK n \in Nat : n = Len(rects) /\ DOMAIN rects = 1..n /\ \A k \in 1..n : rects[k] \in AnyRect
  OBVIOUS
<1> DEFINE met == {k \in DOMAIN rects : ~Apart(rects[k], r)}
<1>1. CASE rects = <<>> \/ Covers(r, BoundingRect(rects)) \/ met = {}
  <2>1. CASE rects = <<>> \/ Covers(r, BoundingRect(rects))
    <3>1. AddRect(rects, r) = <<r>>
      BY <2>1, Zenon DEF AddRect
    <3>. QED BY <3>1
  <2>2. CASE ~(rects = <<>> \/ Covers(r, BoundingRect(rects))) /\ met = {}
    <3>1. AddRect(rects, r) = Append(rects, r)
      BY <2>2, Zenon DEF AddRect
    <3>. QED BY <3>1
  <2>. QED BY <1>1, <2>1, <2>2
<1>2. CASE ~(rects = <<>> \/ Covers(r, BoundingRect(rects)) \/ met = {})
  <2>1. met \in SUBSET Nat
    BY <1>n
  <2>2. PICK l \in met : \A k \in met : l <= k
    <3> HIDE DEF met
    <3>. QED BY <1>2, <2>1, LeastNat
  <2>3. Min(met) \in met
    <3> HIDE DEF met
    <3>. QED BY <2>2 DEF Min
  <2>4. PICK k \in 1..n : k = Min(met)
    BY <2>3, <1>n
  <2>5. \/ AddRect(rects, r) = rects
        \/ AddRect(rects, r) = RemoveAt(rects \o NewPieces(r, Intersect(r, rects[k])), k)
    BY <1>2, <2>4 DEF AddRect
  <2>6. PICK u : u = NewPieces(r, Intersect(r, rects[k])) /\ u \in Seq(AnyRect)
    BY <1>n, PiecesType
  <2>7. PICK v : v = rects \o u
    OBVIOUS
  <2>8. v \in Seq(AnyRect) /\ k \in 1..Len(v)
    <3>1. v \in Seq(AnyRect) /\ Len(v) = n + Len(u) /\ Len(u) \in Nat
      BY <1>n, <2>6, <2>7
    <3>. QED BY <3>1
  <2>9. Removal(v, k) \in Seq(AnyRect)
    BY <2>8, RemovedAt
  <2>. QED BY <2>5, <2>6, <2>7, <2>9 DEF RemoveAt, Removal
<1>. QED BY <1>1, <1>2

\* The state of eliminate's loop.
Eliminating == {x \in [rects : Seq(AnyRect), limit : Nat, done : BOOLEAN] : x.done \/ x.limit <= Len(x.rects)}

LEMMA EliminateTurn ==
    \A r \in AnyRect, x \in Eliminating, k \in Nat \ {0} : EliminateAt(x, k, r) \in Eliminating
<1> TAKE r \in AnyRect, x \in Eliminating, k \in Nat \ {0}
<1>1. PICK rects \in Seq(AnyRect), l \in Nat, done \in BOOLEAN :
          x = [rects |-> rects, limit |-> l, done |-> done] /\ (done \/ l <= Len(rects))
  BY DEF Eliminating
<1>2. PICK y : y = EliminateAt(x, k, r)
  OBVIOUS
<1>3. CASE y = x
  BY <1>2, <1>3
<1>4. CASE y # x
  <2>1. ~(k > l) /\ ~done
    BY <1>1, <1>2, <1>4 DEF EliminateAt
  <2>2. k \in 1..Len(rects) /\ rects[k] \in AnyRect /\ l - 1 \in Nat /\ Len(rects) \in Nat /\ k <= l
    BY <1>1, <2>1
  <2>3. PICK v : v = RemoveAt(rects, k)
    OBVIOUS
  <2>4. v \in Seq(AnyRect) /\ Len(v) = Len(rects) - 1
    <3>1. v = Removal(rects, k)
      BY <2>3 DEF RemoveAt, Removal
    <3>. QED BY <2>2, <3>1, RemovedAt
  <2>5. PICK u : u = OldPieces(rects[k], Intersect(r, rects[k])) /\ u \in Seq(AnyRect)
    BY <2>2, PiecesType
  <2>6. y = [rects |-> v, limit |-> l, done |-> TRUE] \/ y = [rects |-> v \o u, limit |-> l - 1, done |-> done]
    BY <1>1, <1>2, <1>4, <2>3, <2>5 DEF EliminateAt
  <2>7. CASE y = [rects |-> v \o u, limit |-> l - 1, done |-> done]
    <3>1. v \o u \in Seq(AnyRect) /\ Len(v \o u) = Len(v) + Len(u) /\ Len(u) \in Nat
      BY <2>4, <2>5
    <3>2. l - 1 <= Len(v \o u)
      <4>1. l <= Len(rects)
        BY <1>1, <2>1
      <4>. QED BY <2>2, <2>4, <3>1, <4>1
    <3>. QED BY <1>2, <2>2, <2>7, <3>1, <3>2 DEF Eliminating
  <2>8. CASE y = [rects |-> v, limit |-> l, done |-> TRUE]
    BY <1>2, <2>4, <2>8 DEF Eliminating
  <2>. QED BY <2>6, <2>7, <2>8
<1>. QED BY <1>3, <1>4

LEMMA EliminateType == \A rects \in Seq(AnyRect), r \in AnyRect : Eliminate(rects, r) \in Seq(AnyRect)
<1> TAKE rects \in Seq(AnyRect), r \in AnyRect
<1>n. PICK n \in Nat : n = Len(rects)
  OBVIOUS
<1> DEFINE b == [rects |-> rects, limit |-> Len(rects), done |-> FALSE]
           S == Eliminating
           h == [p \in (1..n) \X S |-> EliminateAt(p[2], p[1], r)]
           turn == CHOOSE f : f = [k \in 0..n |-> IF k = 0 THEN b ELSE EliminateAt(f[k - 1], k, r)]
<1>1. b \in S /\ \A i \in 1..n, x \in S : EliminateAt(x, i, r) \in S
  <2>1. \A i \in 1..n : i \in Nat \ {0}
    OBVIOUS
  <2>2. b \in S
    BY <1>n DEF Eliminating
  <2>. QED BY <2>1, <2>2, EliminateTurn
<1>5. Eliminate(rects, r) = rects \/ Eliminate(rects, r) = turn[n].rects
  BY <1>n DEF Eliminate
<1> HIDE DEF b
<1>2. h \in [(1..n) \X S -> S] /\ \A i \in 1..n, x \in S : h[<<i, x>>] = EliminateAt(x, i, r)
  <2> HIDE DEF S
  <2>. QED BY <1>1
<1>3. PICK g \in [0..n -> S] : IsLoop(g, n, b, h)
  <2> HIDE DEF S, h
  <2>. QED BY <1>1, <1>2, LoopExists
<1>4. turn = [k \in 0..n |-> IF k = 0 THEN b ELSE EliminateAt(turn[k - 1], k, r)]
  <2>1. \A i \in 1..n : i - 1 \in 0..n
    OBVIOUS
  <2>2. g = [k \in 0..n |-> IF k = 0 THEN b ELSE EliminateAt(g[k - 1], k, r)]
    <3> HIDE DEF S, h
    <3>. QED BY <1>2, <1>3, <2>1 DEF IsLoop
  <2>. QED BY <2>2, Zenon
<1> HIDE DEF turn
<1> DEFINE P == {i \in 0..n : turn[i] \in S}
<1>6. 0 \in P
  <2> HIDE DEF S
  <2>. QED BY <1>1, <1>4
<1>7. ASSUME NEW i \in 1..n, i - 1 \in P PROVE i \in P
  <2>1. i \in 0..n /\ i # 0 /\ turn[i - 1] \in S
    <3> HIDE DEF S
    <3>. QED BY <1>7
  <2>2. turn[i] = EliminateAt(turn[i - 1], i, r)
    BY <1>4, <2>1
  <2> HIDE DEF S
  <2>. QED BY <1>1, <2>1, <2>2
<1>8. P = 0..n
  <2>1. P \in SUBSET (0..n)
    OBVIOUS
  <2> HIDE DEF P
  <2>. QED BY <1>6, <1>7, <2>1, UpTo
<1>9. turn[n] \in S
  <2>1. n \in P
    <3> HIDE DEF P
    <3>. QED BY <1>8
  <2>. QED BY <2>1
<1>. QED BY <1>5, <1>9 DEF Eliminating

(***************************************************************************)
(* What is owed to a client is shown by its queue.                         *)
(***************************************************************************)
RedrawInv ==
    /\ size \in [Win -> Size] /\ redraw_region \in [Win -> Seq(AnyRect)]
    /\ redraw_rect_curr \in [Win -> SUBSET AnyRect] /\ owed \in [Win -> SUBSET (Int \X Int)]
    /\ GoodQueue(redraws) /\ (redraw_nof => redraws = <<>>)
    /\ \A w \in Win : \A c \in owed[w] : Shows(redraws, w, c)

LEMMA RedrawStart == RedrawInit => RedrawInv
  BY RedrawAssumption DEF RedrawInit, RedrawInv, GoodQueue

LEMMA CellsInt == \A r \in AnyRect : Cells(r) \subseteq Int \X Int
<1> TAKE r \in AnyRect
<1>1. r.x1 \in Int /\ r.x2 \in Int /\ r.y1 \in Int /\ r.y2 \in Int
  BY DEF AnyRect
<1>. QED BY <1>1 DEF Cells

\* The queue as it is after a step, and what is owed then.
LEMMA RedrawNow ==
    ASSUME size' \in [Win -> Size], redraw_region' \in [Win -> Seq(AnyRect)],
           redraw_rect_curr' \in [Win -> SUBSET AnyRect], owed' \in [Win -> SUBSET (Int \X Int)],
           NEW r, redraws' = r, GoodQueue(r), redraw_nof' => r = <<>>,
           \A w \in Win : \A c \in owed'[w] : Shows(r, w, c)
    PROVE  RedrawInv'
<1>1. GoodQueue(redraws)' /\ \A w, c : Shows(redraws, w, c)' = Shows(r, w, c)
  BY DEF GoodQueue, Shows
<1>. QED BY <1>1 DEF RedrawInv

LEMMA InvalidateInv ==
    ASSUME RedrawInv, NEW w \in Win, NEW r \in AnyRect, NEW reg \in Seq(AnyRect), Invalidate(w, r, reg),
           size' \in [Win -> Size], redraw_rect_curr' \in [Win -> SUBSET AnyRect]
    PROVE  RedrawInv'
<1>i. /\ redraw_region \in [Win -> Seq(AnyRect)] /\ owed \in [Win -> SUBSET (Int \X Int)]
      /\ redraw_rect_curr \in [Win -> SUBSET AnyRect] /\ GoodQueue(redraws) /\ (redraw_nof => redraws = <<>>)
      /\ \A v \in Win : \A c \in owed[v] : Shows(redraws, v, c)
  BY DEF RedrawInv
<1>1. redraw_region' \in [Win -> Seq(AnyRect)]
  <2>1. AddRect(reg, r) \in Seq(AnyRect)
    BY AddType
  <2>. QED BY <1>i, <2>1 DEF Invalidate
<1>2. CASE visible[w] /\ ~Empty(r)
  <2>1. PICK pri \in RedrawPriority : redraws' = QueueRedraw(redraws, [win |-> w, rect |-> r, pri |-> pri])
    BY <1>2 DEF Invalidate
  <2>2. PICK e : e = [win |-> w, rect |-> r, pri |-> pri]
    OBVIOUS
  <2>3. e \in RedrawEvent /\ e.win = w /\ e.rect = r
    BY <2>2, RedrawAssumption DEF RedrawEvent
  <2>4. PICK s : s = QueueRedraw(redraws, e) /\ redraws' = s
    BY <2>1, <2>2
  <2>5. /\ GoodQueue(s)
        /\ \A v, c : Shows(redraws, v, c) \/ (v = w /\ c \in Cells(r)) => Shows(s, v, c)
    BY <1>i, <2>3, <2>4, QueuedRedraw
  <2>6. owed' = [owed EXCEPT ![w] = owed[w] \cup Cells(r)] /\ (redraw_nof' => s = <<>>)
    BY <1>2, <2>4 DEF Invalidate, TriggerRedraw
  <2>7. owed' \in [Win -> SUBSET (Int \X Int)] /\ \A v \in Win : owed'[v] = IF v = w THEN owed[w] \cup Cells(r) ELSE owed[v]
    <3>1. Cells(r) \subseteq Int \X Int
      BY CellsInt
    <3>. QED BY <1>i, <2>6, <3>1
  <2>8. \A v \in Win : \A c \in owed'[v] : Shows(s, v, c)
    BY <1>i, <2>5, <2>7
  <2>. QED BY <1>i, <1>1, <2>4, <2>5, <2>6, <2>7, <2>8, RedrawNow
<1>3. CASE ~(visible[w] /\ ~Empty(r))
  <2>1. UNCHANGED <<redraws, redraw_nof, owed>>
    BY <1>3 DEF Invalidate
  <2>. QED BY <1>i, <1>1, <2>1, RedrawNow
<1>. QED BY <1>2, <1>3

LEMMA EndRedrawInv == ASSUME RedrawInv, NEW w \in Win, EndRedraw(w) PROVE RedrawInv'
<1>i. /\ redraw_region \in [Win -> Seq(AnyRect)] /\ owed \in [Win -> SUBSET (Int \X Int)] /\ size \in [Win -> Size]
      /\ redraw_rect_curr \in [Win -> SUBSET AnyRect] /\ GoodQueue(redraws) /\ (redraw_nof => redraws = <<>>)
      /\ \A v \in Win : \A c \in owed[v] : Shows(redraws, v, c)
  BY DEF RedrawInv
<1>1. PICK rest : rest = IF redraw_rect_curr[w] = {} THEN redraw_region[w]
                         ELSE Eliminate(redraw_region[w], CHOOSE r \in redraw_rect_curr[w] : TRUE)
  OBVIOUS
<1>2. /\ redraw_region' = [redraw_region EXCEPT ![w] = rest]
      /\ redraw_rect_curr' = [redraw_rect_curr EXCEPT ![w] = {}]
      /\ \E pri \in RedrawPriority : redraws' = QueueRects(redraws, w, rest, pri)
      /\ redraw_nof' = (redraw_nof /\ redraws' = <<>>)
      /\ owed' = [owed EXCEPT ![w] = owed[w] \cup AllCells(rest)] /\ size' = size
  BY <1>1 DEF EndRedraw, TriggerRedraw
<1>3. rest \in Seq(AnyRect)
  <2>1. redraw_region[w] \in Seq(AnyRect) /\ redraw_rect_curr[w] \in SUBSET AnyRect
    BY <1>i
  <2>2. CASE redraw_rect_curr[w] = {}
    BY <1>1, <2>1, <2>2
  <2>3. CASE redraw_rect_curr[w] # {}
    <3>1. PICK r : r = CHOOSE c \in redraw_rect_curr[w] : TRUE
      OBVIOUS
    <3>2. r \in AnyRect
      BY <2>1, <2>3, <3>1
    <3>3. rest = Eliminate(redraw_region[w], r)
      BY <1>1, <2>3, <3>1
    <3>. QED BY <2>1, <3>2, <3>3, EliminateType
  <2>. QED BY <2>2, <2>3
<1>p. PICK pri \in RedrawPriority : redraws' = QueueRects(redraws, w, rest, pri)
  BY <1>2
<1>4. PICK s : redraws' = s /\ s = QueueRects(redraws, w, rest, pri)
  BY <1>p
<1>5. /\ GoodQueue(s)
      /\ \A v, c : Shows(redraws, v, c) \/ (v = w /\ c \in AllCells(rest)) => Shows(s, v, c)
  <2>1. pri \in Nat
    BY RedrawAssumption
  <2>. QED BY <1>i, <1>3, <1>4, <2>1, QueuedRects
<1>6. AllCells(rest) \subseteq Int \X Int
  <2>1. \A i \in DOMAIN rest : Cells(rest[i]) \subseteq Int \X Int
    BY <1>3, CellsInt
  <2>. QED BY <2>1 DEF AllCells
<1>7. /\ owed' \in [Win -> SUBSET (Int \X Int)]
      /\ \A v \in Win : owed'[v] = IF v = w THEN owed[w] \cup AllCells(rest) ELSE owed[v]
  BY <1>i, <1>2, <1>6
<1>8. \A v \in Win : \A c \in owed'[v] : Shows(s, v, c)
  BY <1>i, <1>5, <1>7
<1>9. /\ redraw_region' \in [Win -> Seq(AnyRect)] /\ redraw_rect_curr' \in [Win -> SUBSET AnyRect]
      /\ (redraw_nof' => s = <<>>) /\ size' \in [Win -> Size]
  BY <1>i, <1>2, <1>3, <1>4
<1>. QED BY <1>4, <1>5, <1>7, <1>8, <1>9, RedrawNow

LEMMA GetRedrawInv == ASSUME RedrawInv, GetRedraw PROVE RedrawInv'
<1>i. /\ redraw_region \in [Win -> Seq(AnyRect)] /\ owed \in [Win -> SUBSET (Int \X Int)] /\ size \in [Win -> Size]
      /\ redraw_rect_curr \in [Win -> SUBSET AnyRect] /\ GoodQueue(redraws) /\ (redraw_nof => redraws = <<>>)
      /\ \A v \in Win : \A c \in owed[v] : Shows(redraws, v, c)
  BY DEF RedrawInv
<1>1. PICK r, s, e : r = redraws /\ s = Tail(r) /\ e = Head(r)
  OBVIOUS
<1>2. /\ r # <<>> /\ redraws' = s /\ owed' = [owed EXCEPT ![e.win] = owed[e.win] \ Cells(e.rect)]
      /\ UNCHANGED <<size, redraw_region, redraw_rect_curr, redraw_nof>>
  BY <1>1 DEF GetRedraw
<1>n. PICK n \in Nat : n = Len(r) /\ DOMAIN r = 1..n /\ r \in Seq(RedrawEvent) /\ n > 0
  <2>1. r \in Seq(RedrawEvent)
    BY <1>i, <1>1 DEF GoodQueue
  <2>. QED BY <1>2, <2>1
<1>3. /\ s \in Seq(RedrawEvent) /\ DOMAIN s = 1..(n - 1) /\ e = r[1] /\ e \in RedrawEvent
      /\ \A j \in 1..(n - 1) : s[j] = r[j + 1]
  BY <1>1, <1>n
<1>4. GoodQueue(s)
  <2>1. ASSUME NEW a \in 1..(n - 1), NEW b \in 1..(n - 1), a < b PROVE s[a].pri <= s[b].pri
    <3>1. a + 1 \in 1..n /\ b + 1 \in 1..n /\ a + 1 < b + 1
      BY <2>1, <1>n
    <3>2. \A i, j \in 1..n : i < j => r[i].pri <= r[j].pri
      BY <1>i, <1>1, <1>n DEF GoodQueue
    <3>3. r[a + 1].pri <= r[b + 1].pri
      BY <3>1, <3>2
    <3>. QED BY <1>3, <3>3
  <2>. QED BY <1>3, <2>1 DEF GoodQueue
<1>5. \A w, c : Shows(r, w, c) => Shows(s, w, c) \/ (w = e.win /\ c \in Cells(e.rect))
  <2> SUFFICES ASSUME NEW w, NEW c, Shows(r, w, c), ~(w = e.win /\ c \in Cells(e.rect)) PROVE Shows(s, w, c)
    OBVIOUS
  <2>1. PICK k \in 1..n : r[k].win = w /\ c \in Cells(r[k].rect)
    BY <1>n DEF Shows
  <2>2. k # 1
    BY <1>3, <2>1
  <2>3. k - 1 \in 1..(n - 1) /\ (k - 1) + 1 = k
    BY <2>2
  <2>4. s[k - 1] = r[k]
    BY <1>3, <2>3
  <2>. QED BY <1>3, <2>1, <2>3, <2>4 DEF Shows
<1>6. e.win \in Win
  BY <1>3 DEF RedrawEvent
<1>7. /\ owed' \in [Win -> SUBSET (Int \X Int)]
      /\ \A v \in Win : owed'[v] = IF v = e.win THEN owed[v] \ Cells(e.rect) ELSE owed[v]
  BY <1>i, <1>2, <1>6
<1>8. \A v \in Win : \A c \in owed'[v] : Shows(s, v, c)
  BY <1>i, <1>1, <1>5, <1>7
<1>9. redraw_nof' => s = <<>>
  BY <1>i, <1>1, <1>2
<1>. QED BY <1>i, <1>2, <1>4, <1>7, <1>8, <1>9, RedrawNow

LEMMA SetVisibleInv == ASSUME RedrawInv, NEW w \in Win, NEW vis \in BOOLEAN, SetVisible(w, vis) PROVE RedrawInv'
<1>i. /\ redraw_region \in [Win -> Seq(AnyRect)] /\ owed \in [Win -> SUBSET (Int \X Int)] /\ size \in [Win -> Size]
      /\ redraw_rect_curr \in [Win -> SUBSET AnyRect] /\ GoodQueue(redraws) /\ (redraw_nof => redraws = <<>>)
      /\ \A v \in Win : \A c \in owed[v] : Shows(redraws, v, c)
  BY DEF RedrawInv
<1>1. UNCHANGED <<size, redraw_region, redraw_rect_curr, redraw_nof>>
  BY DEF SetVisible
<1>2. CASE vis
  <2>1. UNCHANGED <<redraws, owed>>
    BY <1>2 DEF SetVisible
  <2>. QED BY <1>i, <1>1, <2>1, RedrawNow
<1>3. CASE ~vis
  <2>1. PICK s : s = WithoutWindow(redraws, w) /\ redraws' = s /\ owed' = [owed EXCEPT ![w] = {}]
    BY <1>3 DEF SetVisible
  <2>2. /\ GoodQueue(s) /\ (redraws = <<>> => s = <<>>)
        /\ \A v, c : Shows(redraws, v, c) /\ v # w => Shows(s, v, c)
    BY <1>i, <2>1, OthersShown
  <2>3. owed' \in [Win -> SUBSET (Int \X Int)] /\ \A v \in Win : owed'[v] = IF v = w THEN {} ELSE owed[v]
    BY <1>i, <2>1
  <2>4. \A v \in Win : \A c \in owed'[v] : Shows(s, v, c)
    BY <1>i, <2>2, <2>3
  <2>. QED BY <1>i, <1>1, <2>1, <2>2, <2>3, <2>4, RedrawNow
<1>. QED BY <1>2, <1>3

LEMMA RedrawStep == RedrawInv /\ [RedrawNext]_redrawVars => RedrawInv'
<1> SUFFICES ASSUME RedrawInv, [RedrawNext]_redrawVars PROVE RedrawInv'
  OBVIOUS
<1>i. /\ redraw_region \in [Win -> Seq(AnyRect)] /\ owed \in [Win -> SUBSET (Int \X Int)] /\ size \in [Win -> Size]
      /\ redraw_rect_curr \in [Win -> SUBSET AnyRect] /\ GoodQueue(redraws) /\ (redraw_nof => redraws = <<>>)
      /\ \A v \in Win : \A c \in owed[v] : Shows(redraws, v, c)
  BY DEF RedrawInv
<1>r. \A w \in Win : /\ Bounding(size[w]) \in AnyRect /\ redraw_region[w] \in Seq(AnyRect)
                     /\ ClientRect \cup {Bounding(size[w])} \subseteq AnyRect
  <2>1. \A sz \in Size : Bounding(sz) \in AnyRect
    BY RedrawAssumption DEF Bounding, Rect, AnyRect
  <2>. QED BY <1>i, <2>1, RedrawAssumption DEF AnyRect
<1>s. ASSUME NEW w \in Win, NEW r \in AnyRect, StartRedraw(w, r) PROVE redraw_rect_curr' \in [Win -> SUBSET AnyRect]
  <2>1. redraw_rect_curr \in [Win -> SUBSET AnyRect] /\ {r} \in SUBSET AnyRect
    BY <1>i
  <2>2. redraw_rect_curr' = redraw_rect_curr \/ redraw_rect_curr' = [redraw_rect_curr EXCEPT ![w] = {r}]
    BY <1>s, Zenon DEF StartRedraw
  <2> HIDE DEF AnyRect
  <2>. QED BY <2>1, <2>2
<1>0. ASSUME NEW w \in Win, Activate(w) PROVE RedrawInv'
  <2>1. /\ Invalidate(w, Bounding(size[w]), redraw_region[w])
        /\ size' \in [Win -> Size] /\ redraw_rect_curr' \in [Win -> SUBSET AnyRect]
    BY <1>0, <1>i DEF Activate
  <2>. QED BY <1>r, <2>1, InvalidateInv
<1>1. ASSUME NEW w \in Win, NEW r \in ClientRect \cup {Bounding(size[w])}, InvalidateRect(w, r) PROVE RedrawInv'
  <2>1. /\ r \in AnyRect /\ size' \in [Win -> Size] /\ redraw_rect_curr' \in [Win -> SUBSET AnyRect]
    BY <1>1, <1>i, <1>r, <1>s DEF InvalidateRect
  <2>2. CASE Covers(Bounding(size[w]), r)
    <3>1. Invalidate(w, r, redraw_region[w])
      BY <1>1, <2>2 DEF InvalidateRect
    <3>. QED BY <1>r, <2>1, <3>1, InvalidateInv
  <2>3. CASE ~Covers(Bounding(size[w]), r)
    <3>1. UNCHANGED <<redraw_region, redraws, redraw_nof, owed>>
      BY <1>1, <2>3 DEF InvalidateRect
    <3>. QED BY <1>i, <2>1, <3>1, RedrawNow
  <2>. QED BY <2>2, <2>3
<1>2. ASSUME NEW w \in Win, NEW r \in ClientRect \cup {Bounding(size[w])}, BeginRedraw(w, r) PROVE RedrawInv'
  <2>1. redraw_rect_curr' \in [Win -> SUBSET AnyRect] /\ UNCHANGED <<size, redraw_region, redraws, redraw_nof, owed>>
    BY <1>2, <1>r, <1>s DEF BeginRedraw
  <2>. QED BY <1>i, <2>1, RedrawNow
<1>3. ASSUME NEW w \in Win, NEW sz \in Size, SetExtent(w, sz) PROVE RedrawInv'
  <2>1. Bounding(sz) \in AnyRect /\ <<>> \in Seq(AnyRect)
    BY RedrawAssumption DEF Bounding, Rect, AnyRect
  <2>2. /\ Invalidate(w, Bounding(sz), <<>>)
        /\ size' \in [Win -> Size] /\ redraw_rect_curr' \in [Win -> SUBSET AnyRect]
    BY <1>3, <1>i DEF SetExtent
  <2>. QED BY <2>1, <2>2, InvalidateInv
<1>4. ASSUME NEW w \in Win, NEW vis \in BOOLEAN, SetVisible(w, vis) PROVE RedrawInv'
  BY <1>4, SetVisibleInv
<1>5. ASSUME NEW w \in Win, EndRedraw(w) PROVE RedrawInv'
  BY <1>5, EndRedrawInv
<1>6. CASE GetRedraw
  BY <1>6, GetRedrawInv
<1>7. CASE RedrawReady
  <2>1. UNCHANGED <<size, redraw_region, redraw_rect_curr, redraws, owed>> /\ (redraw_nof' => redraws = <<>>)
    BY <1>7 DEF RedrawReady
  <2>. QED BY <1>i, <2>1, RedrawNow
<1>8. CASE UNCHANGED redrawVars
  <2>1. UNCHANGED <<size, redraw_region, redraw_rect_curr, redraws, redraw_nof, owed>>
    BY <1>8 DEF redrawVars
  <2>. QED BY <1>i, <2>1, RedrawNow
<1>. QED BY <1>0, <1>1, <1>2, <1>3, <1>4, <1>5, <1>6, <1>7, <1>8 DEF RedrawNext

LEMMA RedrawInvariant == RedrawSpec => []RedrawInv
  BY RedrawStart, RedrawStep, PTL DEF RedrawSpec

\* Every cell of a visible window that was invalidated and not fetched since is in a queued
\* redraw of that window, whatever was dropped from the queue or moved within it, for any
\* number of windows, sizes and priorities; and no client waits beside a queued event.
THEOREM RedrawsCovered == RedrawSpec => []RedrawsCover
<1>1. RedrawInv => RedrawsCover
  <2> SUFFICES ASSUME RedrawInv PROVE RedrawsCover
    OBVIOUS
  <2>1. ASSUME NEW w \in Win, NEW c \in owed[w]
        PROVE  c \in UNION {Cells(redraws[i].rect) : i \in {k \in DOMAIN redraws : redraws[k].win = w}}
    <3>1. PICK i \in DOMAIN redraws : redraws[i].win = w /\ c \in Cells(redraws[i].rect)
      BY DEF RedrawInv, Shows
    <3>. QED BY <3>1
  <2>. QED BY <2>1 DEF RedrawInv, RedrawsCover
<1>. QED BY <1>1, RedrawInvariant, PTL
=============================================================================
