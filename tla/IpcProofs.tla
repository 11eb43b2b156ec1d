------------------------------ MODULE IpcProofs -----------------------------
(***************************************************************************)
(* The messages of Ipc stay apart, requests are answered once and none is  *)
(* lost, for every number of clients, sessions and messages.  None of the  *)
(* invariants is inductive alone: a slot that is taken is nobody else's    *)
(* only because pools, queue and server hold used slots, a thread's own    *)
(* message is not queued twice only because its thread waits for the       *)
(* request in it, and a request is completed once only because one message *)
(* carries it.                                                             *)
(***************************************************************************)
EXTENDS IpcProperties, FiniteSetTheorems, SequenceTheorems, TLAPS

\* Threads' messages and pools are in use, and pools do not overlap.
PoolsOK ==
    /\ Locked \subseteq used
    /\ \A s \in open : pooled[s] \subseteq used \ Locked /\ poolFree[s] \subseteq pooled[s]
    /\ \A s, t \in open : s # t => pooled[s] \cap pooled[t] = {}

\* Where a queued message of request r comes from: the thread that waits for r, the
\* session's pool, or the table.
Lent(m, r) ==
    LET s == SessionOf(r)
    IN  \/ m = SyncSlot[ClientOf(r)] /\ origin[r][3] = "sync"
        \/ m \notin Locked /\ AsyncSlots[s] # 0 /\ m \in pooled[s] \ poolFree[s]
        \/ m \notin Locked /\ AsyncSlots[s] = 0 /\ \A t \in open : m \notin pooled[t]

QueueOK ==
    /\ \A i, j \in DOMAIN delivered : delivered[i] = delivered[j] => i = j
    /\ \A m \in Queued : m \in used /\ SessionOf(carries[m]) \in open /\ Lent(m, carries[m])

Settled == done \cup deferred \cup refused \cup dropped

\* Each request sent is settled in one way or carried by one message.
CarryOK ==
    /\ Settled \subseteq 1..Len(origin)
    /\ \A m \in Queued \cup held : carries[m] \in (1..Len(origin)) \ Settled
    /\ \A m, k \in Queued \cup held : carries[m] = carries[k] => m = k
    /\ \A r \in (1..Len(origin)) \ Settled : \E m \in Queued \cup held : carries[m] = r

SettledOnce ==
    /\ done \cap (deferred \cup refused \cup dropped) = {}
    /\ deferred \cap (refused \cup dropped) = {} /\ refused \cap dropped = {}

IpcInv == IpcTypeOK /\ PoolsOK /\ ServerMessagesApart /\ QueueOK /\ CarryOK /\ SettledOnce /\ AnsweredOnce

-----------------------------------------------------------------------------
(***************************************************************************)
(* The queue as a set.                                                     *)
(***************************************************************************)
Elements(q) == {q[i] : i \in DOMAIN q}
Distinct(q) == \A i, j \in DOMAIN q : q[i] = q[j] => i = j

LEMMA QueuedElements == Queued = Elements(delivered) /\ Queued' = Elements(delivered')
  BY DEF Queued, Elements

LEMMA AppendElements ==
    ASSUME NEW S, NEW q \in Seq(S), NEW m \in S
    PROVE  /\ Append(q, m) \in Seq(S) /\ Elements(Append(q, m)) = Elements(q) \cup {m}
           /\ Distinct(q) /\ m \notin Elements(q) => Distinct(Append(q, m))
<1>1. Append(q, m) \in Seq(S) /\ DOMAIN Append(q, m) = 1..(Len(q) + 1) /\ DOMAIN q = 1..Len(q) /\ Len(q) \in Nat
  OBVIOUS
<1>2. \A i \in 1..(Len(q) + 1) : Append(q, m)[i] = IF i = Len(q) + 1 THEN m ELSE q[i]
  OBVIOUS
<1>3. Elements(Append(q, m)) = Elements(q) \cup {m}
  <2>1. ASSUME NEW x \in Elements(q) \cup {m} PROVE x \in Elements(Append(q, m))
    <3>1. CASE x = m
      BY <3>1, <1>1, <1>2 DEF Elements
    <3>2. CASE x \in Elements(q)
      <4>1. PICK i \in DOMAIN q : x = q[i]
        BY <3>2 DEF Elements
      <4>2. i \in 1..(Len(q) + 1) /\ Append(q, m)[i] = x
        BY <4>1, <1>1, <1>2
      <4>3. QED
        BY <4>2, <1>1 DEF Elements
    <3>3. QED
      BY <2>1, <3>1, <3>2
  <2>2. ASSUME NEW x \in Elements(Append(q, m)) PROVE x \in Elements(q) \cup {m}
    BY <2>2, <1>1, <1>2 DEF Elements
  <2>3. QED
    BY <2>1, <2>2
<1>4. ASSUME Distinct(q), m \notin Elements(q) PROVE Distinct(Append(q, m))
  <2>1. \A i \in 1..Len(q) : q[i] # m
    BY <1>4, <1>1 DEF Elements
  <2>2. QED
    BY <2>1, <1>1, <1>2, <1>4 DEF Distinct
<1>5. QED
  BY <1>1, <1>3, <1>4

LEMMA LastElements ==
    ASSUME NEW S, NEW q \in Seq(S), q # <<>>, Distinct(q),
           NEW f, f = SubSeq(q, 1, Len(q) - 1), NEW z, z = q[Len(q)]
    PROVE  f \in Seq(S) /\ Distinct(f) /\ z \in Elements(q) /\ Elements(f) = Elements(q) \ {z}
<1>1. Len(q) \in Nat /\ Len(q) > 0 /\ DOMAIN q = 1..Len(q)
  OBVIOUS
<1>2. f \in Seq(S) /\ DOMAIN f = 1..(Len(q) - 1) /\ \A i \in 1..(Len(q) - 1) : f[i] = q[i]
  BY <1>1
<1>3. z \in Elements(q)
  BY <1>1 DEF Elements
<1>4. \A i \in 1..(Len(q) - 1) : q[i] # z
  BY <1>1 DEF Distinct
<1>5. Distinct(f)
  BY <1>1, <1>2 DEF Distinct
<1>6. ASSUME NEW x \in Elements(f) PROVE x \in Elements(q) \ {z}
  <2>1. PICK i \in 1..(Len(q) - 1) : x = f[i]
    BY <1>2, <1>6 DEF Elements
  <2>2. i \in DOMAIN q /\ x = q[i]
    BY <2>1, <1>1, <1>2
  <2>3. QED
    BY <2>1, <2>2, <1>4 DEF Elements
<1>7. ASSUME NEW x \in Elements(q) \ {z} PROVE x \in Elements(f)
  <2>1. PICK i \in 1..Len(q) : x = q[i]
    BY <1>1, <1>7 DEF Elements
  <2>2. i \in 1..(Len(q) - 1)
    BY <2>1, <1>1, <1>7
  <2>3. QED
    BY <2>1, <2>2, <1>2 DEF Elements
<1>8. QED
  BY <1>2, <1>3, <1>5, <1>6, <1>7

-----------------------------------------------------------------------------
(***************************************************************************)
(* Sending.  Carrier says which message a request gets, and what of the    *)
(* table and the pools is left when it is taken.                           *)
(***************************************************************************)
Carrier(c, s, kind, m, u, p) ==
    \/ kind = "sync" /\ m = SyncSlot[c] /\ ~Waiting(c) /\ u = used /\ p = poolFree
    \/ AsyncSlots[s] # 0 /\ m \in poolFree[s] /\ u = used /\ p = [poolFree EXCEPT ![s] = @ \ {m}]
    \/ AsyncSlots[s] = 0 /\ m \in Slot \ used /\ u = used \cup {m} /\ p = poolFree

LEMMA NewRequest ==
    ASSUME IpcTypeOK, Len(origin) < MaxRequests, NEW c \in Client, NEW s \in Session, NEW kind \in Kind,
           origin' = Append(origin, <<c, s, kind>>), NEW r, r = Len(origin) + 1
    PROVE  /\ Len(origin) \in Nat /\ r \in Request /\ Len(origin') = r /\ r \notin 1..Len(origin)
           /\ 1..Len(origin') = (1..Len(origin)) \cup {r} /\ 1..Len(origin') \subseteq Request
           /\ \A x \in 1..Len(origin) : origin'[x] = origin[x] /\ origin[x] \in Client \X Session \X Kind
           /\ origin'[r] = <<c, s, kind>>
           /\ origin' \in Seq(Client \X Session \X Kind)
<1>1. origin \in Seq(Client \X Session \X Kind) /\ Len(origin) \in Nat /\ MaxRequests \in Nat
  BY IpcAssumption DEF IpcTypeOK
<1>2. QED
  BY <1>1 DEF Request

LEMMA LockedSlots ==
    /\ Locked \subseteq Slot /\ ProcessSlot \in Locked /\ \A c \in Client : SyncSlot[c] \in Locked
    /\ \A c \in Client : SyncSlot[c] # ProcessSlot
  BY IpcAssumption DEF Locked

\* A message that is taken is nobody else's.
LEMMA Available ==
    ASSUME IpcInv, NEW c \in Client, NEW s \in open, NEW kind, NEW m, NEW u, NEW p,
           Carrier(c, s, kind, m, u, p)
    PROVE  m \in Slot /\ m \notin Queued \cup held \cup receiving /\ m # ProcessSlot
<1>0. s \in Session /\ used \subseteq Slot /\ poolFree[s] \subseteq pooled[s] /\ pooled[s] \subseteq used \ Locked
  BY DEF IpcInv, IpcTypeOK, PoolsOK
<1>1. CASE kind = "sync" /\ m = SyncSlot[c] /\ ~Waiting(c)
  <2>1. m \in Locked /\ m \in Slot /\ m # ProcessSlot
    BY <1>1, LockedSlots
  <2>2. m \notin held \cup receiving
    BY <2>1 DEF IpcInv, ServerMessagesApart
  <2>3. ASSUME m \in Queued PROVE FALSE
    <3>1. /\ carries[m] \in 1..Len(origin) /\ carries[m] \notin done
          /\ m = SyncSlot[ClientOf(carries[m])] /\ origin[carries[m]][3] = "sync"
      BY <2>1, <2>3 DEF IpcInv, QueueOK, CarryOK, Settled, Lent
    <3>2. ClientOf(carries[m]) \in Client
      BY <3>1 DEF IpcInv, IpcTypeOK, ClientOf
    <3>3. ClientOf(carries[m]) = c
      BY <3>1, <3>2, <1>1, IpcAssumption
    <3>4. QED
      BY <3>1, <3>3, <1>1 DEF Waiting
  <2>4. QED
    BY <2>1, <2>2, <2>3
<1>2. CASE AsyncSlots[s] # 0 /\ m \in poolFree[s]
  <2>1. m \in pooled[s] /\ m \in used \ Locked /\ m \in Slot
    BY <1>0, <1>2
  <2>2. m \notin held \cup receiving
    BY <2>1 DEF IpcInv, ServerMessagesApart, Pool
  <2>3. ASSUME m \in Queued PROVE FALSE
    <3>1. m \in pooled[SessionOf(carries[m])] \ poolFree[SessionOf(carries[m])]
             /\ SessionOf(carries[m]) \in open
      <4>1. CASE m = SyncSlot[ClientOf(carries[m])]
        <5>1. ClientOf(carries[m]) \in Client
          BY <2>3 DEF IpcInv, IpcTypeOK, CarryOK, ClientOf
        <5>2. QED
          BY <4>1, <5>1, <2>1, LockedSlots
      <4>2. QED
        BY <4>1, <2>1, <2>3 DEF IpcInv, QueueOK, Lent
    <3>2. SessionOf(carries[m]) = s
      BY <3>1, <2>1 DEF IpcInv, PoolsOK
    <3>3. QED
      BY <3>1, <3>2, <1>2
  <2>4. QED
    BY <2>1, <2>2, <2>3, LockedSlots
<1>3. CASE m \in Slot \ used
  BY <1>3, LockedSlots DEF IpcInv, PoolsOK, ServerMessagesApart, QueueOK
<1>4. QED
  BY <1>1, <1>2, <1>3 DEF Carrier

\* Taking a message and giving it back leaves table and pools as they were.
LEMMA Borrowed ==
    ASSUME IpcInv, NEW c \in Client, NEW s \in open, NEW kind, NEW m, NEW u, NEW p,
           Carrier(c, s, kind, m, u, p), SetSlotFree(s, m, u, p)
    PROVE  used' = used /\ poolFree' = poolFree
<1>0. /\ s \in Session /\ poolFree \in [Session -> SUBSET Slot]
      /\ poolFree[s] \subseteq pooled[s] /\ pooled[s] \cap Locked = {} /\ Locked \subseteq used
  BY DEF IpcInv, IpcTypeOK, PoolsOK
<1>1. CASE m = SyncSlot[c] /\ u = used /\ p = poolFree
  <2>1. m \in Locked /\ {m} \cap pooled[s] = {}
    BY <1>0, <1>1, LockedSlots
  <2>2. QED
    BY <1>0, <1>1, <2>1, SMTT(20) DEF SetSlotFree
<1>2. CASE AsyncSlots[s] # 0 /\ m \in poolFree[s] /\ u = used /\ p = [poolFree EXCEPT ![s] = @ \ {m}]
  <2>1. (poolFree[s] \ {m}) \cup ({m} \cap pooled[s]) = poolFree[s]
    BY <1>0, <1>2
  <2>2. QED
    BY <1>0, <1>2, <2>1 DEF SetSlotFree
<1>3. CASE AsyncSlots[s] = 0 /\ m \in Slot \ used /\ u = used \cup {m} /\ p = poolFree
  BY <1>0, <1>3 DEF SetSlotFree
<1>4. QED
  BY <1>1, <1>2, <1>3 DEF Carrier

\* What the carrier of a request leaves behind when it stays out: the table and the
\* pools that are left without it.
LEMMA Taken ==
    ASSUME IpcInv, NEW c \in Client, NEW s \in open, NEW kind, NEW m, NEW u, NEW p,
           Carrier(c, s, kind, m, u, p)
    PROVE  /\ used \subseteq u /\ m \in u /\ u \subseteq Slot /\ p \in [Session -> SUBSET Slot]
           /\ \A t \in open : p[t] \subseteq poolFree[t]
           /\ held \cup receiving \subseteq used
<1>0. /\ s \in Session /\ poolFree \in [Session -> SUBSET Slot] /\ open \subseteq Session
      /\ poolFree[s] \subseteq pooled[s] /\ pooled[s] \subseteq used \ Locked /\ Locked \subseteq used
      /\ used \subseteq Slot
      /\ held \cup receiving \subseteq used
  BY DEF IpcInv, IpcTypeOK, PoolsOK, ServerMessagesApart
<1>1. QED
  BY <1>0, LockedSlots DEF Carrier

(***************************************************************************)
(* What becomes of the requests when messages change hands.                *)
(***************************************************************************)
Carriage == Queued \cup held

LEMMA CarryType ==
    ASSUME IpcInv
    PROVE  /\ Carriage \subseteq Slot /\ Settled \subseteq 1..Len(origin) /\ Len(origin) \in Nat
           /\ \A m \in Carriage : carries[m] \in (1..Len(origin)) \ Settled
           /\ \A m, k \in Carriage : carries[m] = carries[k] => m = k
           /\ \A r \in (1..Len(origin)) \ Settled : \E m \in Carriage : carries[m] = r
           /\ \A r \in 1..Len(origin) : origin[r] \in Client \X Session \X Kind
<1>1. delivered \in Seq(Slot) /\ held \subseteq Slot /\ origin \in Seq(Client \X Session \X Kind)
  BY DEF IpcInv, IpcTypeOK
<1>2. Queued \subseteq Slot
  BY <1>1 DEF Queued
<1>3. QED
  BY <1>1, <1>2 DEF IpcInv, CarryOK, Carriage

\* A new request r is put in message d.
LEMMA CarryNew ==
    ASSUME IpcInv, NEW r, r \notin 1..Len(origin), 1..Len(origin') = (1..Len(origin)) \cup {r},
           NEW d, Carriage' = Carriage \cup {d}, carries'[d] = r,
           \A k \in Carriage : carries'[k] = carries[k], Settled' = Settled
    PROVE  CarryOK'
<1>1. \A k \in Carriage' : carries'[k] \in (1..Len(origin')) \ Settled'
  BY CarryType
<1>2. \A k, j \in Carriage' : carries'[k] = carries'[j] => k = j
  BY CarryType
<1>3. ASSUME NEW x \in (1..Len(origin')) \ Settled'
      PROVE  \E k \in Carriage' : carries'[k] = x
  BY CarryType
<1>4. Settled' \subseteq 1..Len(origin')
  BY CarryType
<1>5. QED
  BY <1>1, <1>2, <1>3, <1>4 DEF CarryOK, Carriage

\* A new request r is settled at once.
LEMMA CarryNone ==
    ASSUME IpcInv, NEW r, r \notin 1..Len(origin), 1..Len(origin') = (1..Len(origin)) \cup {r},
           Carriage' = Carriage, \A k \in Carriage : carries'[k] = carries[k],
           Settled' = Settled \cup {r}
    PROVE  CarryOK'
<1>1. \A k \in Carriage' : carries'[k] \in (1..Len(origin')) \ Settled'
  BY CarryType
<1>2. \A k, j \in Carriage' : carries'[k] = carries'[j] => k = j
  BY CarryType
<1>3. ASSUME NEW x \in (1..Len(origin')) \ Settled'
      PROVE  \E k \in Carriage' : carries'[k] = x
  BY CarryType
<1>4. Settled' \subseteq 1..Len(origin')
  BY CarryType
<1>5. QED
  BY <1>1, <1>2, <1>3, <1>4 DEF CarryOK, Carriage

\* The queue keeps or loses messages, and those that stay keep their content.
LEMMA QueueKept ==
    ASSUME IpcInv, Distinct(delivered'), Queued' \subseteq Queued,
           \A k \in Queued' : /\ carries'[k] = carries[k] /\ origin'[carries[k]] = origin[carries[k]]
                              /\ k \in used' /\ SessionOf(carries[k]) \in open'
                              /\ pooled'[SessionOf(carries[k])] = pooled[SessionOf(carries[k])],
           \A k \in Queued' : k \notin poolFree[SessionOf(carries[k])] =>
                                  k \notin poolFree'[SessionOf(carries[k])],
           \A k \in Queued', t \in open' : k \in pooled'[t] => t \in open /\ k \in pooled[t]
    PROVE  QueueOK'
<1>1. ASSUME NEW k \in Queued'
      PROVE  k \in used' /\ SessionOf(carries[k])' \in open' /\ Lent(k, carries[k])'
  <2>1. k \in Queued /\ Lent(k, carries[k])
    BY <1>1 DEF IpcInv, QueueOK
  <2>2. SessionOf(carries[k])' = SessionOf(carries[k]) /\ ClientOf(carries[k])' = ClientOf(carries[k])
    BY <1>1 DEF SessionOf, ClientOf
  <2>3. QED
    BY <1>1, <2>1, <2>2 DEF Lent
<1>2. QED
  BY <1>1 DEF QueueOK, Distinct

\* deliver without an outstanding receive.
LEMMA QueueStep ==
    ASSUME IpcInv, NEW c \in Client, NEW s \in open, NEW kind \in Kind, NEW m, NEW u, NEW p,
           Carrier(c, s, kind, m, u, p), Len(origin) < MaxRequests, NEW r, r = Len(origin) + 1,
           origin' = Append(origin, <<c, s, kind>>),
           carries' = [carries EXCEPT ![m] = r], delivered' = Append(delivered, m),
           used' = u, poolFree' = p,
           UNCHANGED <<hle, open, pooled, receiving, held, deferred, refused, dropped, answers, done, closes>>
    PROVE  IpcInv'
<1>1. m \in Slot /\ m \notin Queued \cup held \cup receiving
  BY Available
<1>2. s \in Session /\ carries \in [Slot -> 0..MaxRequests] /\ delivered \in Seq(Slot) /\ IpcTypeOK
  BY DEF IpcInv, IpcTypeOK
<1>3. /\ Len(origin) \in Nat /\ r \in Request /\ Len(origin') = r /\ r \notin 1..Len(origin)
      /\ 1..Len(origin') = (1..Len(origin)) \cup {r} /\ 1..Len(origin') \subseteq Request
      /\ \A x \in 1..Len(origin) : origin'[x] = origin[x] /\ origin[x] \in Client \X Session \X Kind
      /\ origin'[r] = <<c, s, kind>>
      /\ origin' \in Seq(Client \X Session \X Kind)
  BY <1>2, NewRequest
<1>4. /\ used \subseteq u /\ m \in u /\ u \subseteq Slot /\ p \in [Session -> SUBSET Slot]
      /\ \A t \in open : p[t] \subseteq poolFree[t]
  BY Taken
<1>5. Queued' = Queued \cup {m} /\ delivered' \in Seq(Slot) /\ Distinct(delivered')
  <2>1. Distinct(delivered) /\ m \notin Elements(delivered)
    BY <1>1, QueuedElements DEF IpcInv, QueueOK, Distinct
  <2>2. QED
    BY <1>1, <1>2, <2>1, AppendElements, QueuedElements
<1>6. carries' \in [Slot -> 0..MaxRequests] /\ carries'[m] = r /\ \A k \in Slot : k # m => carries'[k] = carries[k]
  BY <1>1, <1>2, <1>3 DEF Request
<1>7. IpcTypeOK'
  <2>1. Len(origin') <= MaxRequests
    BY <1>3, IpcAssumption DEF Request
  <2>2. hle' \in BOOLEAN
    BY DEF IpcInv, IpcTypeOK
  <2>3. QED
    BY <2>1, <2>2, <1>2, <1>3, <1>4, <1>5, <1>6 DEF IpcTypeOK
<1>8. PoolsOK'
  BY <1>4 DEF IpcInv, PoolsOK
<1>10. ServerMessagesApart'
  BY <1>1, <1>4, <1>5 DEF IpcInv, ServerMessagesApart, Pool
<1>11. \A k \in Queued \cup held : k \in Slot /\ carries'[k] = carries[k] /\ carries[k] \in (1..Len(origin)) \ Settled
  BY <1>1, <1>6 DEF IpcInv, IpcTypeOK, CarryOK, Queued
<1>12. QueueOK'
  <2>1. ASSUME NEW k \in Queued
        PROVE  k \in used' /\ SessionOf(carries[k])' \in open /\ Lent(k, carries[k])'
    <3>1. /\ carries'[k] = carries[k] /\ origin'[carries[k]] = origin[carries[k]]
          /\ k \in used /\ SessionOf(carries[k]) \in open /\ Lent(k, carries[k])
      BY <1>3, <1>11, <2>1 DEF IpcInv, QueueOK
    <3>2. QED
      BY <3>1, <1>4 DEF SessionOf, ClientOf, Lent
  <2>2. m \in used' /\ SessionOf(carries[m])' \in open /\ Lent(m, carries[m])'
    <3>1. carries'[m] = r /\ origin'[r] = <<c, s, kind>> /\ m \in used'
      BY <1>3, <1>4, <1>6
    <3>2. CASE kind = "sync" /\ m = SyncSlot[c]
      BY <3>1, <3>2 DEF SessionOf, ClientOf, Lent
    <3>3. CASE AsyncSlots[s] # 0 /\ m \in poolFree[s] /\ p = [poolFree EXCEPT ![s] = @ \ {m}]
      <4>1. m \in pooled[s] \ p[s] /\ m \notin Locked
        BY <3>3, <1>2 DEF IpcInv, IpcTypeOK, PoolsOK
      <4>2. QED
        BY <3>1, <3>3, <4>1 DEF SessionOf, ClientOf, Lent
    <3>4. CASE AsyncSlots[s] = 0 /\ m \in Slot \ used
      <4>1. m \notin Locked /\ \A t \in open : m \notin pooled[t]
        BY <3>4 DEF IpcInv, PoolsOK
      <4>2. QED
        BY <3>1, <3>4, <4>1 DEF SessionOf, ClientOf, Lent
    <3>5. QED
      BY <3>2, <3>3, <3>4 DEF Carrier
  <2>3. QED
    BY <2>1, <2>2, <1>5 DEF QueueOK, Distinct
<1>13. CarryOK'
  <2>1. Settled' = Settled /\ Carriage' = Carriage \cup {m}
    BY <1>5 DEF Settled, Carriage
  <2>2. QED
    BY <2>1, <1>3, <1>6, <1>11, CarryNew DEF Carriage
<1>14. SettledOnce'
  BY DEF IpcInv, SettledOnce
<1>15. AnsweredOnce'
  <2>1. done \subseteq 1..Len(origin)
    BY DEF IpcInv, CarryOK, Settled
  <2>2. QED
    BY <2>1, <1>3 DEF IpcInv, AnsweredOnce
<1>16. QED
  BY <1>7, <1>8, <1>10, <1>12, <1>13, <1>14, <1>15 DEF IpcInv

\* deliver to the outstanding receive.
LEMMA AcceptStep ==
    ASSUME IpcInv, NEW c \in Client, NEW s \in open, NEW kind \in Kind, NEW m, NEW u, NEW p,
           Carrier(c, s, kind, m, u, p), Len(origin) < MaxRequests, NEW r, r = Len(origin) + 1,
           origin' = Append(origin, <<c, s, kind>>), NEW dest \in receiving,
           carries' = [carries EXCEPT ![m] = r, ![dest] = r], used' = used, poolFree' = poolFree,
           held' = held \cup {dest}, receiving' = {},
           UNCHANGED <<hle, open, pooled, delivered, deferred, refused, dropped, answers, done, closes>>
    PROVE  IpcInv'
<1>1. m \in Slot /\ m \notin Queued \cup held \cup receiving
  BY Available
<1>2. /\ s \in Session /\ carries \in [Slot -> 0..MaxRequests] /\ delivered \in Seq(Slot) /\ IpcTypeOK
      /\ dest \in Slot /\ dest \notin Queued \cup held
  BY DEF IpcInv, IpcTypeOK, ServerMessagesApart
<1>3. /\ Len(origin) \in Nat /\ r \in Request /\ Len(origin') = r /\ r \notin 1..Len(origin)
      /\ 1..Len(origin') = (1..Len(origin)) \cup {r} /\ 1..Len(origin') \subseteq Request
      /\ \A x \in 1..Len(origin) : origin'[x] = origin[x] /\ origin[x] \in Client \X Session \X Kind
      /\ origin'[r] = <<c, s, kind>>
      /\ origin' \in Seq(Client \X Session \X Kind)
  BY <1>2, NewRequest
<1>4. Queued' = Queued /\ Distinct(delivered')
  BY QueuedElements DEF IpcInv, QueueOK, Distinct
<1>5. /\ carries' \in [Slot -> 0..MaxRequests] /\ carries'[dest] = r
      /\ \A k \in Carriage : carries'[k] = carries[k]
  <2>1. \A k \in Carriage : k \in Slot /\ k # m /\ k # dest
    BY <1>1, <1>2, CarryType DEF Carriage
  <2>2. r \in 0..MaxRequests
    BY <1>3 DEF Request
  <2>3. /\ carries' \in [Slot -> 0..MaxRequests]
        /\ \A k \in Slot : carries'[k] = IF k = m \/ k = dest THEN r ELSE carries[k]
    BY <1>1, <1>2, <2>2
  <2>4. QED
    BY <1>2, <2>1, <2>3
<1>6. IpcTypeOK'
  <2>1. Len(origin') <= MaxRequests
    BY <1>3, IpcAssumption DEF Request
  <2>2. hle' \in BOOLEAN
    BY DEF IpcInv, IpcTypeOK
  <2>3. QED
    BY <2>1, <2>2, <1>2, <1>3, <1>5 DEF IpcTypeOK
<1>7. PoolsOK'
  BY DEF IpcInv, PoolsOK
<1>8. ServerMessagesApart'
  BY <1>4 DEF IpcInv, ServerMessagesApart, Pool
<1>9. QueueOK'
  <2>1. \A k \in Queued : /\ carries'[k] = carries[k] /\ origin'[carries[k]] = origin[carries[k]]
                          /\ k \in used' /\ SessionOf(carries[k]) \in open
    BY <1>3, <1>5, CarryType DEF Carriage, IpcInv, QueueOK
  <2>2. QED
    BY <2>1, <1>4, QueueKept
<1>10. CarryOK'
  <2>1. Settled' = Settled /\ Carriage' = Carriage \cup {dest}
    BY <1>4 DEF Settled, Carriage
  <2>2. QED
    BY <2>1, <1>3, <1>5, CarryNew
<1>11. SettledOnce'
  BY DEF IpcInv, SettledOnce
<1>12. AnsweredOnce'
  <2>1. done \subseteq 1..Len(origin)
    BY DEF IpcInv, CarryOK, Settled
  <2>2. QED
    BY <2>1, <1>3 DEF IpcInv, AnsweredOnce
<1>13. QED
  BY <1>6, <1>7, <1>8, <1>9, <1>10, <1>11, <1>12 DEF IpcInv

\* An emulated server completes, keeps or drops the request; or session_send
\* refuses it.
LEMMA SettleStep ==
    ASSUME IpcInv, NEW c \in Client, NEW s \in open, NEW kind \in Kind, Len(origin) < MaxRequests,
           NEW r, r = Len(origin) + 1, origin' = Append(origin, <<c, s, kind>>),
           carries' \in [Slot -> 0..MaxRequests], \A k \in Carriage : carries'[k] = carries[k],
           used' = used, poolFree' = poolFree,
           \/ Answer(r, kind) /\ UNCHANGED <<deferred, dropped, refused>>
           \/ deferred' = deferred \cup {r} /\ UNCHANGED <<dropped, refused, answers, done>>
           \/ dropped' = dropped \cup {r} /\ UNCHANGED <<deferred, refused, answers, done>>
           \/ refused' = refused \cup {r} /\ UNCHANGED <<deferred, dropped, answers, done>>,
           UNCHANGED <<hle, open, pooled, delivered, receiving, held, closes>>
    PROVE  IpcInv'
<1>2. s \in Session /\ IpcTypeOK
  BY DEF IpcInv, IpcTypeOK
<1>3. /\ Len(origin) \in Nat /\ r \in Request /\ Len(origin') = r /\ r \notin 1..Len(origin)
      /\ 1..Len(origin') = (1..Len(origin)) \cup {r} /\ 1..Len(origin') \subseteq Request
      /\ \A x \in 1..Len(origin) : origin'[x] = origin[x] /\ origin[x] \in Client \X Session \X Kind
      /\ origin'[r] = <<c, s, kind>>
      /\ origin' \in Seq(Client \X Session \X Kind)
  BY <1>2, NewRequest
<1>4. Queued' = Queued /\ Distinct(delivered')
  BY QueuedElements DEF IpcInv, QueueOK, Distinct
<1>5. Settled' = Settled \cup {r} /\ r \notin Settled
  BY <1>3, CarryType DEF Settled, Answer
<1>6. IpcTypeOK'
  <2>1. Len(origin') <= MaxRequests
    BY <1>3, IpcAssumption DEF Request
  <2>2. hle' \in BOOLEAN
    BY DEF IpcInv, IpcTypeOK
  <2>3. answers' \in [Request -> Nat]
    BY <1>2, <1>3 DEF IpcTypeOK, Answer
  <2>4. done' \subseteq Request /\ deferred' \subseteq Request /\ refused' \subseteq Request /\ dropped' \subseteq Request
    BY <1>2, <1>3 DEF IpcTypeOK, Answer
  <2>5. QED
    BY <2>1, <2>2, <2>3, <2>4, <1>2, <1>3 DEF IpcTypeOK
<1>7. PoolsOK'
  BY DEF IpcInv, PoolsOK
<1>8. ServerMessagesApart'
  BY <1>4 DEF IpcInv, ServerMessagesApart, Pool
<1>9. QueueOK'
  <2>1. \A k \in Queued : /\ carries'[k] = carries[k] /\ origin'[carries[k]] = origin[carries[k]]
                          /\ k \in used' /\ SessionOf(carries[k]) \in open
    BY <1>3, CarryType DEF Carriage, IpcInv, QueueOK
  <2>2. QED
    BY <2>1, <1>4, QueueKept
<1>10. CarryOK'
  <2>1. Carriage' = Carriage
    BY <1>4 DEF Carriage
  <2>2. QED
    BY <2>1, <1>3, <1>5, CarryNone
<1>11. SettledOnce'
  BY <1>5 DEF IpcInv, SettledOnce, Settled, Answer
<1>12. AnsweredOnce'
  <2>1. done \subseteq 1..Len(origin)
    BY DEF IpcInv, CarryOK, Settled
  <2>2. answers \in [Request -> Nat] /\ answers[r] = 0
    BY <2>1, <1>2, <1>3 DEF IpcInv, AnsweredOnce, IpcTypeOK
  <2>3. QED
    BY <2>1, <2>2, <1>3 DEF IpcInv, AnsweredOnce, Answer
<1>13. QED
  BY <1>6, <1>7, <1>8, <1>9, <1>10, <1>11, <1>12 DEF IpcInv

\* process_msg carries no request that is waiting.
LEMMA ProcessApart == ASSUME IpcInv PROVE ProcessSlot \notin Carriage
<1>1. ASSUME ProcessSlot \in Queued PROVE FALSE
  <2>1. /\ Lent(ProcessSlot, carries[ProcessSlot]) /\ ProcessSlot \in Locked
        /\ carries[ProcessSlot] \in 1..Len(origin)
    BY <1>1, LockedSlots, CarryType DEF IpcInv, QueueOK, Carriage
  <2>2. ClientOf(carries[ProcessSlot]) \in Client
    BY <2>1, CarryType DEF ClientOf
  <2>3. QED
    BY <2>1, <2>2, LockedSlots DEF Lent
<1>2. ProcessSlot \notin held
  BY LockedSlots DEF IpcInv, ServerMessagesApart
<1>3. QED
  BY <1>1, <1>2 DEF Carriage

\* session::send to a server of either kind.
LEMMA SendStep ==
    ASSUME IpcInv, NEW c \in Client, NEW s \in open, NEW kind \in Kind, NEW m, NEW u, NEW p,
           Carrier(c, s, kind, m, u, p), Len(origin) < MaxRequests, SendMessage(c, s, kind, m, u, p)
    PROVE  IpcInv'
<1> DEFINE r == Len(origin) + 1
<1>1. /\ origin' = Append(origin, <<c, s, kind>>) /\ UNCHANGED <<hle, open, pooled, refused, closes>>
      /\ Process(s, m, r, kind, u, p) \/ Deliver(s, m, r, u, p)
  BY DEF SendMessage
<1>2. /\ m \in Slot /\ m \notin Queued \cup held \cup receiving /\ m # ProcessSlot /\ r \in 0..MaxRequests
      /\ carries \in [Slot -> 0..MaxRequests] /\ ProcessSlot \in Slot
  <2>1. IpcTypeOK /\ Len(origin) \in Nat
    BY CarryType DEF IpcInv
  <2>2. QED
    BY <2>1, Available, IpcAssumption DEF IpcTypeOK
<1> HIDE DEF r
<1>3. CASE Process(s, m, r, kind, u, p)
  <2>1. used' = used /\ poolFree' = poolFree
    BY <1>3, Borrowed DEF Process
  <2>2. carries' = [carries EXCEPT ![m] = r, ![ProcessSlot] = r]
    BY <1>3 DEF Process
  <2>3. \A k \in Carriage : k \in Slot /\ k # m /\ k # ProcessSlot
    BY <1>2, ProcessApart, CarryType DEF Carriage
  <2>4. carries' \in [Slot -> 0..MaxRequests] /\ \A k \in Carriage : carries'[k] = carries[k]
    BY <2>2, <2>3, <1>2
  <2>5. QED
    BY <2>1, <2>4, <1>1, <1>3, SettleStep DEF Process, r
<1>4. CASE Deliver(s, m, r, u, p)
  <2>1. CASE /\ receiving = {} /\ carries' = [carries EXCEPT ![m] = r]
             /\ delivered' = Append(delivered, m) /\ used' = u /\ poolFree' = p
             /\ UNCHANGED <<held, receiving>>
    BY <2>1, <1>1, <1>4, QueueStep DEF Deliver, r
  <2>2. ASSUME NEW dest \in receiving, carries' = [carries EXCEPT ![m] = r, ![dest] = r],
               SetSlotFree(s, m, u, p), held' = held \cup {dest}, receiving' = {}, UNCHANGED delivered
        PROVE  IpcInv'
    <3>1. used' = used /\ poolFree' = poolFree
      BY <2>2, Borrowed
    <3>2. QED
      BY <2>2, <3>1, <1>1, <1>4, AcceptStep DEF Deliver, r
  <2>3. QED
    BY <1>4, <2>1, <2>2 DEF Deliver
<1>5. QED
  BY <1>1, <1>3, <1>4

LEMMA SendSyncInv ==
    ASSUME IpcInv, NEW c \in Client, NEW s \in Session, SendSync(c, s) PROVE IpcInv'
<1>1. Carrier(c, s, "sync", SyncSlot[c], used, poolFree) /\ s \in open /\ "sync" \in Kind
  BY DEF SendSync, Carrier, Kind
<1>2. QED
  BY <1>1, SendStep DEF SendSync

LEMMA SendInv ==
    ASSUME IpcInv, NEW c \in Client, NEW s \in Session, NEW kind \in {"async", "blind"},
           Send(c, s, kind)
    PROVE  IpcInv'
<1>1. kind \in Kind /\ s \in open /\ Len(origin) < MaxRequests
  BY DEF Send, Kind
<1>2. ASSUME AsyncSlots[s] = 0, NEW S \in FirstFree(1), NEW m \in S,
             SendMessage(c, s, kind, m, used \cup {m}, poolFree)
      PROVE  IpcInv'
  <2>1. Carrier(c, s, kind, m, used \cup {m}, poolFree)
    BY <1>2 DEF FirstFree, Carrier
  <2>2. QED
    BY <2>1, <1>1, <1>2, SendStep
<1>3. ASSUME AsyncSlots[s] # 0, NEW m \in poolFree[s],
             SendMessage(c, s, kind, m, used, [poolFree EXCEPT ![s] = @ \ {m}])
      PROVE  IpcInv'
  <2>1. Carrier(c, s, kind, m, used, [poolFree EXCEPT ![s] = @ \ {m}])
    BY <1>3 DEF Carrier
  <2>2. QED
    BY <2>1, <1>1, <1>3, SendStep
<1>4. QED
  BY <1>2, <1>3 DEF Send

LEMMA SendRefusedInv ==
    ASSUME IpcInv, NEW c \in Client, NEW s \in Session, NEW kind \in {"async", "blind"},
           SendRefused(c, s, kind)
    PROVE  IpcInv'
<1>1. kind \in Kind /\ s \in open /\ carries' \in [Slot -> 0..MaxRequests]
  BY DEF SendRefused, Kind, IpcInv, IpcTypeOK
<1>2. QED
  BY <1>1, SettleStep DEF SendRefused

-----------------------------------------------------------------------------
(***************************************************************************)
(* Sessions.                                                               *)
(***************************************************************************)
\* The messages of a new pool were free, so that nobody has them.
LEMMA OpenSessionInv ==
    ASSUME IpcInv, NEW s \in Session, OpenSession(s) PROVE IpcInv'
<1>1. PICK S \in SUBSET (Slot \ used) :
         /\ used' = used \cup S /\ pooled' = [pooled EXCEPT ![s] = S]
         /\ poolFree' = [poolFree EXCEPT ![s] = S]
  BY DEF OpenSession, FirstFree
<1>2. /\ s \notin open /\ open' = open \cup {s}
      /\ UNCHANGED <<hle, carries, delivered, receiving, held, deferred, origin, refused, dropped,
                     answers, done, closes>>
  BY DEF OpenSession
<1>3. IpcTypeOK /\ open \subseteq Session /\ pooled \in [Session -> SUBSET Slot]
         /\ poolFree \in [Session -> SUBSET Slot] /\ used \subseteq Slot
  BY DEF IpcInv, IpcTypeOK
<1>4. /\ pooled'[s] = S /\ poolFree'[s] = S
      /\ \A t \in open : t # s /\ pooled'[t] = pooled[t] /\ poolFree'[t] = poolFree[t]
  BY <1>1, <1>2, <1>3
<1>5. IpcTypeOK'
  <2>1. hle' \in BOOLEAN
    BY <1>2, <1>3 DEF IpcTypeOK
  <2>2. QED
    BY <2>1, <1>1, <1>2, <1>3 DEF IpcTypeOK, Request
<1>6. PoolsOK'
  BY <1>1, <1>2, <1>4 DEF IpcInv, PoolsOK
<1>7. Queued' = Queued /\ Distinct(delivered') /\ Carriage' = Carriage /\ Settled' = Settled
  BY <1>2, QueuedElements DEF IpcInv, QueueOK, Distinct, Carriage, Settled
<1>8. \A m \in Queued \cup held \cup receiving : m \in used
  BY DEF IpcInv, QueueOK, ServerMessagesApart
<1>9. ServerMessagesApart'
  <2>1. Pool' = Pool \cup S
    BY <1>2, <1>4 DEF Pool
  <2>2. QED
    BY <2>1, <1>1, <1>2, <1>7, <1>8 DEF IpcInv, ServerMessagesApart
<1>10. QueueOK'
  <2>1. \A k \in Queued : SessionOf(carries[k]) \in open /\ k \in used
    BY DEF IpcInv, QueueOK
  <2>2. QED
    BY <2>1, <1>1, <1>2, <1>4, <1>7, QueueKept
<1>11. CarryOK' /\ SettledOnce' /\ AnsweredOnce'
  BY <1>2, <1>7 DEF IpcInv, CarryOK, SettledOnce, AnsweredOnce, Carriage
<1>12. QED
  BY <1>5, <1>6, <1>9, <1>10, <1>11 DEF IpcInv

LEMMA CloseSessionInv ==
    ASSUME IpcInv, NEW s \in Session, CloseSession(s) PROVE IpcInv'
<1>1. /\ open' = open \ {s} /\ closes' = closes + 1
      /\ \A i \in DOMAIN delivered : SessionOf(carries[delivered[i]]) # s
      /\ UNCHANGED <<hle, used, carries, pooled, poolFree, delivered, receiving, held, deferred,
                     origin, refused, dropped, answers, done>>
  BY DEF CloseSession
<1>2. IpcTypeOK'
  <2>1. hle' \in BOOLEAN
    BY <1>1 DEF IpcInv, IpcTypeOK
  <2>2. QED
    BY <2>1, <1>1 DEF IpcInv, IpcTypeOK, Request
<1>3. PoolsOK'
  BY <1>1 DEF IpcInv, PoolsOK
<1>4. Queued' = Queued /\ Distinct(delivered') /\ Carriage' = Carriage /\ Settled' = Settled
  BY <1>1, QueuedElements DEF IpcInv, QueueOK, Distinct, Carriage, Settled
<1>5. ServerMessagesApart'
  BY <1>1, <1>4 DEF IpcInv, ServerMessagesApart, Pool
<1>6. QueueOK'
  <2>1. \A k \in Queued : SessionOf(carries[k]) \in open \ {s} /\ k \in used
    BY <1>1 DEF IpcInv, QueueOK, Queued
  <2>2. QED
    BY <2>1, <1>1, <1>4, QueueKept
<1>7. CarryOK' /\ SettledOnce' /\ AnsweredOnce'
  BY <1>1, <1>4 DEF IpcInv, CarryOK, SettledOnce, AnsweredOnce, Carriage
<1>8. QED
  BY <1>2, <1>3, <1>5, <1>6, <1>7 DEF IpcInv

-----------------------------------------------------------------------------
(***************************************************************************)
(* The server program.                                                     *)
(***************************************************************************)
\* A message that is taken off the queue goes back where it came from.
LEMMA Returned ==
    ASSUME IpcInv, NEW m \in Slot \ used, NEW real \in Queued,
           SetSlotFree(SessionOf(carries[real]), real, used \cup {m}, poolFree)
    PROVE  /\ used \ {real} \subseteq used' /\ m \in used' /\ used' \subseteq used \cup {m}
           /\ real \in Locked \cup Pool => real \in used'
           /\ poolFree' \in [Session -> SUBSET Slot]
           /\ \A t \in open : poolFree'[t] \subseteq pooled[t] /\ poolFree'[t] \subseteq poolFree[t] \cup {real}
<1> DEFINE s == SessionOf(carries[real])
<1>1. s \in open /\ real \in used /\ Lent(real, carries[real]) /\ ClientOf(carries[real]) \in Client
  BY CarryType DEF IpcInv, QueueOK, Carriage, ClientOf
<1>2. open \subseteq Session /\ poolFree \in [Session -> SUBSET Slot] /\ pooled \in [Session -> SUBSET Slot]
        /\ \A t \in open : poolFree[t] \subseteq pooled[t]
  BY DEF IpcInv, IpcTypeOK, PoolsOK
<1> HIDE DEF s
<1>3. CASE AsyncSlots[s] = 0
  <2>1. used' = (used \cup {m}) \ ({real} \ Locked) /\ poolFree' = poolFree
    BY <1>3 DEF SetSlotFree, s
  <2>2. real \in Pool => real \in Locked
    BY <1>1, <1>3, LockedSlots DEF Lent, s, Pool
  <2>3. QED
    BY <2>1, <2>2, <1>1, <1>2
<1>4. CASE AsyncSlots[s] # 0
  <2>1. used' = used \cup {m} /\ poolFree' = [poolFree EXCEPT ![s] = @ \cup ({real} \cap pooled[s])]
    BY <1>4 DEF SetSlotFree, s
  <2>2. QED
    BY <2>1, <1>1, <1>2
<1>5. QED
  BY <1>3, <1>4

LEMMA ReceiveWaits ==
    ASSUME IpcInv, NEW m \in Slot \ used, receiving' = {m}, used' = used \cup {m},
           UNCHANGED <<carries, poolFree, delivered, held, hle, open, pooled, deferred, origin,
                       refused, dropped, answers, done, closes>>
    PROVE  IpcInv'
<1>1. IpcTypeOK'
  <2>1. hle' \in BOOLEAN
    BY DEF IpcInv, IpcTypeOK
  <2>2. QED
    BY <2>1 DEF IpcInv, IpcTypeOK, Request
<1>2. Queued' = Queued /\ Distinct(delivered') /\ Carriage' = Carriage /\ Settled' = Settled
  BY QueuedElements DEF IpcInv, QueueOK, Distinct, Carriage, Settled
<1>3. PoolsOK' /\ m \notin Queued \cup Pool \cup Locked \cup held
  BY DEF IpcInv, PoolsOK, QueueOK, ServerMessagesApart, Pool
<1>4. ServerMessagesApart'
  BY <1>2, <1>3 DEF IpcInv, ServerMessagesApart, Pool
<1>5. QueueOK'
  <2>1. \A k \in Queued : SessionOf(carries[k]) \in open /\ k \in used
    BY DEF IpcInv, QueueOK
  <2>2. QED
    BY <2>1, <1>2, QueueKept
<1>6. CarryOK' /\ SettledOnce' /\ AnsweredOnce'
  BY <1>2 DEF IpcInv, CarryOK, SettledOnce, AnsweredOnce, Carriage
<1>7. QED
  BY <1>1, <1>3, <1>4, <1>5, <1>6 DEF IpcInv

LEMMA ReceiveAccepts ==
    ASSUME IpcInv, NEW m \in Slot \ used, delivered # <<>>, NEW real, real = delivered[Len(delivered)],
           carries' = [carries EXCEPT ![m] = carries[real]],
           SetSlotFree(SessionOf(carries[real]), real, used \cup {m}, poolFree),
           delivered' = SubSeq(delivered, 1, Len(delivered) - 1), held' = held \cup {m},
           UNCHANGED <<receiving, hle, open, pooled, deferred, origin, refused, dropped, answers, done, closes>>
    PROVE  IpcInv'
<1>1. /\ delivered' \in Seq(Slot) /\ Distinct(delivered') /\ real \in Queued /\ Queued' = Queued \ {real}
  <2>1. delivered \in Seq(Slot) /\ Distinct(delivered)
    BY DEF IpcInv, IpcTypeOK, QueueOK, Distinct
  <2>2. /\ delivered' \in Seq(Slot) /\ Distinct(delivered') /\ real \in Elements(delivered)
        /\ Elements(delivered') = Elements(delivered) \ {real}
    BY <2>1, LastElements
  <2>3. QED
    BY <2>2, QueuedElements
<1>2. /\ used \ {real} \subseteq used' /\ m \in used' /\ used' \subseteq used \cup {m}
      /\ real \in Locked \cup Pool => real \in used'
      /\ poolFree' \in [Session -> SUBSET Slot]
      /\ \A t \in open : poolFree'[t] \subseteq pooled[t] /\ poolFree'[t] \subseteq poolFree[t] \cup {real}
  BY <1>1, Returned
<1>3. m \notin Queued \cup Pool \cup Locked \cup held \cup receiving /\ m # real
  BY <1>1 DEF IpcInv, PoolsOK, QueueOK, ServerMessagesApart, Pool
<1>4. carries \in [Slot -> 0..MaxRequests] /\ real \in Slot /\ used \subseteq Slot
  BY <1>1, CarryType DEF IpcInv, IpcTypeOK, Carriage
<1>5. /\ carries' \in [Slot -> 0..MaxRequests] /\ carries'[m] = carries[real]
      /\ \A k \in Carriage : carries'[k] = carries[k]
  BY <1>3, <1>4, CarryType DEF Carriage
<1>6. IpcTypeOK'
  <2>1. hle' \in BOOLEAN
    BY DEF IpcInv, IpcTypeOK
  <2>2. used' \subseteq Slot /\ held' \subseteq Slot
    BY <1>2, <1>4 DEF IpcInv, IpcTypeOK
  <2>3. QED
    BY <2>1, <2>2, <1>1, <1>2, <1>5 DEF IpcInv, IpcTypeOK
<1>7. PoolsOK'
  <2>1. Locked \subseteq used'
    BY <1>2 DEF IpcInv, PoolsOK
  <2>2. ASSUME NEW t \in open PROVE pooled[t] \subseteq used' \ Locked
    BY <1>2 DEF IpcInv, PoolsOK, Pool
  <2>3. QED
    BY <2>1, <2>2, <1>2 DEF IpcInv, PoolsOK
<1>8. ServerMessagesApart'
  <2>1. held \cup receiving \subseteq used'
    BY <1>1, <1>2 DEF IpcInv, ServerMessagesApart
  <2>2. Pool' = Pool
    BY DEF Pool
  <2>3. QED
    BY <2>1, <2>2, <1>1, <1>2, <1>3 DEF IpcInv, ServerMessagesApart
<1>9. QueueOK'
  <2>1. \A k \in Queued' : /\ SessionOf(carries[k]) \in open /\ k \in used' /\ carries'[k] = carries[k]
                           /\ k # real
    BY <1>1, <1>2, <1>5 DEF IpcInv, QueueOK, Carriage
  <2>2. \A k \in Queued' : k \notin poolFree[SessionOf(carries[k])] => k \notin poolFree'[SessionOf(carries[k])]
    BY <2>1, <1>2
  <2>3. QED
    BY <2>1, <2>2, <1>1, QueueKept
<1>10. CarryOK'
  <2>1. Carriage' = (Carriage \ {real}) \cup {m} /\ Settled' = Settled /\ real \in Carriage /\ m \notin Carriage
    <3>1. real \notin held
      BY <1>1 DEF IpcInv, ServerMessagesApart
    <3>2. QED
      BY <3>1, <1>1, <1>3 DEF Carriage, Settled
  <2>2. \A k \in Carriage' : carries'[k] \in (1..Len(origin')) \ Settled'
    BY <2>1, <1>5, CarryType
  <2>3. \A k, j \in Carriage' : carries'[k] = carries'[j] => k = j
    BY <2>1, <1>5, CarryType
  <2>4. ASSUME NEW x \in (1..Len(origin')) \ Settled'
        PROVE  \E k \in Carriage' : carries'[k] = x
    <3>1. PICK k \in Carriage : carries[k] = x
      BY <2>1, CarryType
    <3>2. CASE k = real
      BY <3>1, <3>2, <2>1, <1>5
    <3>3. CASE k # real
      BY <3>1, <3>3, <2>1, <1>5
    <3>4. QED
      BY <3>2, <3>3
  <2>5. QED
    BY <2>1, <2>2, <2>3, <2>4, CarryType DEF CarryOK, Carriage
<1>11. SettledOnce' /\ AnsweredOnce'
  BY DEF IpcInv, SettledOnce, AnsweredOnce
<1>12. QED
  BY <1>6, <1>7, <1>8, <1>9, <1>10, <1>11 DEF IpcInv

LEMMA ServerReceiveInv == ASSUME IpcInv, ServerReceive PROVE IpcInv'
<1>1. PICK m \in Slot \ used :
        \/ /\ receiving' = {m} /\ used' = used \cup {m}
           /\ UNCHANGED <<carries, poolFree, delivered, held>>
        \/ /\ delivered # <<>>
           /\ carries' = [carries EXCEPT ![m] = carries[delivered[Len(delivered)]]]
           /\ SetSlotFree(SessionOf(carries[delivered[Len(delivered)]]), delivered[Len(delivered)],
                          used \cup {m}, poolFree)
           /\ delivered' = SubSeq(delivered, 1, Len(delivered) - 1)
           /\ held' = held \cup {m} /\ UNCHANGED receiving
  BY DEF ServerReceive, FirstFree
<1>2. UNCHANGED <<hle, open, pooled, deferred, origin, refused, dropped, answers, done, closes>>
  BY DEF ServerReceive
<1>3. QED
  BY <1>1, <1>2, ReceiveWaits, ReceiveAccepts

\* server_cancel, and steps that leave messages and requests alone.
LEMMA ServerCancelInv == ASSUME IpcInv, ServerCancel PROVE IpcInv'
<1>1. /\ receiving' = {} /\ closes' = closes + 1
      /\ UNCHANGED <<hle, used, carries, open, pooled, poolFree, delivered, held, deferred, origin,
                     refused, dropped, answers, done>>
  BY DEF ServerCancel
<1>2. IpcTypeOK'
  <2>1. hle' \in BOOLEAN
    BY <1>1 DEF IpcInv, IpcTypeOK
  <2>2. QED
    BY <2>1, <1>1 DEF IpcInv, IpcTypeOK, Request
<1>3. PoolsOK' /\ ServerMessagesApart' /\ SettledOnce' /\ AnsweredOnce'
  BY <1>1 DEF IpcInv, PoolsOK, ServerMessagesApart, Queued, Pool, SettledOnce, AnsweredOnce
<1>4. Queued' = Queued /\ Distinct(delivered') /\ Carriage' = Carriage /\ Settled' = Settled
  BY <1>1, QueuedElements DEF IpcInv, QueueOK, Distinct, Carriage, Settled
<1>5. QueueOK'
  <2>1. \A k \in Queued : SessionOf(carries[k]) \in open /\ k \in used
    BY DEF IpcInv, QueueOK
  <2>2. QED
    BY <2>1, <1>1, <1>4, QueueKept
<1>6. CarryOK'
  BY <1>1, <1>4 DEF IpcInv, CarryOK, Carriage
<1>7. QED
  BY <1>2, <1>3, <1>5, <1>6 DEF IpcInv

LEMMA MessageCompleteInv == ASSUME IpcInv, NEW m \in Slot, MessageComplete(m) PROVE IpcInv'
<1> DEFINE r == carries[m]
<1>1. /\ m \in held /\ answers' = [answers EXCEPT ![r] = IF origin[r][3] = "blind" THEN @ ELSE @ + 1]
      /\ done' = done \cup {r} /\ used' = used \ {m} /\ held' = held \ {m}
      /\ UNCHANGED <<hle, carries, open, pooled, poolFree, delivered, receiving, deferred, origin,
                     refused, dropped, closes>>
  BY DEF MessageComplete, Answer
<1>2. m \in Carriage /\ r \in (1..Len(origin)) \ Settled /\ r \in Request
  <2>1. m \in Carriage /\ r \in (1..Len(origin)) \ Settled
    BY <1>1, CarryType DEF Carriage
  <2>2. QED
    BY <2>1, CarryType, IpcAssumption DEF IpcInv, IpcTypeOK, Request
<1> HIDE DEF r
<1>3. m \notin Queued \cup Pool \cup Locked \cup receiving
  BY <1>1 DEF IpcInv, ServerMessagesApart
<1>4. IpcTypeOK'
  <2>1. hle' \in BOOLEAN
    BY <1>1 DEF IpcInv, IpcTypeOK
  <2>2. answers' \in [Request -> Nat] /\ done' \subseteq Request
    BY <1>1, <1>2 DEF IpcInv, IpcTypeOK
  <2>3. QED
    BY <2>1, <2>2, <1>1 DEF IpcInv, IpcTypeOK
<1>5. PoolsOK'
  BY <1>1, <1>3 DEF IpcInv, PoolsOK, Pool
<1>6. Queued' = Queued /\ Distinct(delivered') /\ Carriage' = Carriage \ {m}
        /\ Settled' = Settled \cup {r}
  BY <1>1, <1>3, QueuedElements DEF IpcInv, QueueOK, Distinct, Carriage, Settled
<1>7. ServerMessagesApart'
  BY <1>1, <1>3, <1>6 DEF IpcInv, ServerMessagesApart, Pool
<1>8. QueueOK'
  <2>1. \A k \in Queued : SessionOf(carries[k]) \in open /\ k \in used /\ k # m
    BY <1>3 DEF IpcInv, QueueOK
  <2>2. QED
    BY <2>1, <1>1, <1>6, QueueKept
<1>9. CarryOK'
  <2>1. \A k \in Carriage' : carries'[k] \in (1..Len(origin')) \ Settled'
    BY <1>1, <1>2, <1>6, CarryType DEF r
  <2>2. \A k, j \in Carriage' : carries'[k] = carries'[j] => k = j
    BY <1>1, <1>6, CarryType
  <2>3. ASSUME NEW x \in (1..Len(origin')) \ Settled'
        PROVE  \E k \in Carriage' : carries'[k] = x
    BY <1>1, <1>6, CarryType DEF r
  <2>4. QED
    BY <2>1, <2>2, <2>3, <1>1, <1>2, <1>6, CarryType DEF CarryOK, Carriage
<1>10. SettledOnce'
  BY <1>1, <1>2 DEF IpcInv, SettledOnce, Settled
<1>11. AnsweredOnce'
  <2>1. answers \in [Request -> Nat] /\ answers[r] = 0
    BY <1>2 DEF IpcInv, AnsweredOnce, IpcTypeOK, Settled
  <2>2. QED
    BY <2>1, <1>1 DEF IpcInv, AnsweredOnce
<1>12. QED
  BY <1>4, <1>5, <1>7, <1>8, <1>9, <1>10, <1>11 DEF IpcInv

LEMMA CompleteDeferredInv == ASSUME IpcInv, NEW r \in Request, CompleteDeferred(r) PROVE IpcInv'
<1>1. /\ r \in deferred /\ answers' = [answers EXCEPT ![r] = IF origin[r][3] = "blind" THEN @ ELSE @ + 1]
      /\ done' = done \cup {r} /\ deferred' = deferred \ {r}
      /\ UNCHANGED <<hle, used, carries, open, pooled, poolFree, delivered, receiving, held, origin,
                     refused, dropped, closes>>
  BY DEF CompleteDeferred, Answer
<1>2. IpcTypeOK'
  <2>1. hle' \in BOOLEAN
    BY <1>1 DEF IpcInv, IpcTypeOK
  <2>2. answers' \in [Request -> Nat] /\ done' \subseteq Request /\ deferred' \subseteq Request
    BY <1>1 DEF IpcInv, IpcTypeOK
  <2>3. QED
    BY <2>1, <2>2, <1>1 DEF IpcInv, IpcTypeOK
<1>3. PoolsOK' /\ ServerMessagesApart'
  BY <1>1 DEF IpcInv, PoolsOK, ServerMessagesApart, Queued, Pool
<1>4. Queued' = Queued /\ Distinct(delivered') /\ Carriage' = Carriage /\ Settled' = Settled
  BY <1>1, QueuedElements DEF IpcInv, QueueOK, Distinct, Carriage, Settled
<1>5. QueueOK'
  <2>1. \A k \in Queued : SessionOf(carries[k]) \in open /\ k \in used
    BY DEF IpcInv, QueueOK
  <2>2. QED
    BY <2>1, <1>1, <1>4, QueueKept
<1>6. CarryOK'
  BY <1>1, <1>4 DEF IpcInv, CarryOK, Carriage
<1>7. SettledOnce' /\ r \notin done
  BY <1>1 DEF IpcInv, SettledOnce
<1>8. AnsweredOnce'
  <2>1. answers \in [Request -> Nat] /\ answers[r] = 0
    BY <1>7 DEF IpcInv, AnsweredOnce, IpcTypeOK
  <2>2. QED
    BY <2>1, <1>1 DEF IpcInv, AnsweredOnce
<1>9. QED
  BY <1>2, <1>3, <1>5, <1>6, <1>7, <1>8 DEF IpcInv

-----------------------------------------------------------------------------
(***************************************************************************)
(* The invariants.                                                         *)
(***************************************************************************)
LEMMA IpcInitInv == IpcInit => IpcInv
<1> SUFFICES ASSUME IpcInit PROVE IpcInv
  OBVIOUS
<1>1. Queued = {} /\ Pool = {} /\ held = {} /\ receiving = {} /\ Settled = {} /\ Len(origin) = 0
  BY DEF IpcInit, Queued, Pool, Settled
<1>2. IpcTypeOK
  <2>1. hle \in BOOLEAN
    BY DEF IpcInit
  <2>2. /\ delivered \in Seq(Slot) /\ origin \in Seq(Client \X Session \X Kind)
        /\ Len(origin) <= MaxRequests /\ used \subseteq Slot
    BY LockedSlots, IpcAssumption DEF IpcInit
  <2>3. carries \in [Slot -> 0..MaxRequests]
    BY IpcAssumption DEF IpcInit
  <2>4. QED
    BY <2>1, <2>2, <2>3 DEF IpcInit, IpcTypeOK
<1>3. PoolsOK /\ ServerMessagesApart
  BY <1>1 DEF IpcInit, PoolsOK, ServerMessagesApart
<1>4. QueueOK /\ CarryOK /\ SettledOnce /\ AnsweredOnce
  BY <1>1 DEF IpcInit, QueueOK, CarryOK, SettledOnce, AnsweredOnce
<1>5. QED
  BY <1>2, <1>3, <1>4 DEF IpcInv

LEMMA IpcNextInv == IpcInv /\ [IpcNext]_ipcVars => IpcInv'
<1> SUFFICES ASSUME IpcInv, [IpcNext]_ipcVars PROVE IpcInv'
  OBVIOUS
<1>1. CASE UNCHANGED ipcVars
  <2>1. hle' \in BOOLEAN
    BY <1>1 DEF IpcInv, IpcTypeOK, ipcVars
  <2>2. IpcTypeOK'
    BY <2>1, <1>1 DEF IpcInv, IpcTypeOK, ipcVars
  <2>3. PoolsOK' /\ ServerMessagesApart' /\ CarryOK' /\ SettledOnce' /\ AnsweredOnce'
    BY <1>1 DEF IpcInv, PoolsOK, ServerMessagesApart, Queued, Pool, CarryOK, Settled, SettledOnce,
                AnsweredOnce, ipcVars
  <2>4. QueueOK'
    BY <1>1 DEF IpcInv, QueueOK, Queued, Lent, SessionOf, ClientOf, ipcVars
  <2>5. QED
    BY <2>2, <2>3, <2>4 DEF IpcInv
<1>2. QED
  BY <1>1, OpenSessionInv, CloseSessionInv, SendSyncInv, SendInv, SendRefusedInv, ServerReceiveInv,
     ServerCancelInv, MessageCompleteInv, CompleteDeferredInv DEF IpcNext

\* The inductive invariant: every reachable state of the message table, the pools, the
\* queue and the server satisfies it.
THEOREM IpcInvariant == IpcSpec => []IpcInv
  BY IpcInitInv, IpcNextInv, PTL DEF IpcSpec

\* create_msg never hands out a message the server program holds or waits with.
THEOREM MessagesApart == IpcSpec => []ServerMessagesApart
<1>1. IpcInv => ServerMessagesApart
  BY DEF IpcInv
<1>2. QED
  BY <1>1, IpcInvariant, PTL

\* A message in delivered_msgs stays its sender's until server::accept takes it.
THEOREM QueueSound == IpcSpec => []QueueIntact
<1>1. IpcInv => QueueIntact
  <2> SUFFICES ASSUME IpcInv PROVE QueueIntact
    OBVIOUS
  <2>1. ASSUME NEW m \in Queued
        PROVE  /\ m \in used
               /\ \A s \in open : m \notin poolFree[s]
               /\ m \in Locked \/ m \in pooled[SessionOf(carries[m])]
                    \/ AsyncSlots[SessionOf(carries[m])] = 0
    <3>1. m \in used /\ SessionOf(carries[m]) \in open /\ Lent(m, carries[m])
      BY DEF IpcInv, QueueOK
    <3>2. ClientOf(carries[m]) \in Client
      BY CarryType DEF Carriage, ClientOf
    <3>3. /\ \A s \in open : poolFree[s] \subseteq pooled[s] /\ pooled[s] \cap Locked = {}
          /\ \A s, t \in open : s # t => pooled[s] \cap pooled[t] = {}
      BY DEF IpcInv, PoolsOK
    <3>4. \/ m \in Locked
          \/ m \in pooled[SessionOf(carries[m])] \ poolFree[SessionOf(carries[m])]
          \/ AsyncSlots[SessionOf(carries[m])] = 0 /\ \A t \in open : m \notin pooled[t]
      BY <3>1, <3>2, LockedSlots DEF Lent
    <3>5. QED
      BY <3>1, <3>3, <3>4
  <2>2. QED
    BY <2>1 DEF IpcInv, QueueOK, QueueIntact
<1>2. QED
  BY <1>1, IpcInvariant, PTL

\* The status of a request is written once when the server completes it, never before
\* and never again, and not at all for a client that gave none.
THEOREM AnswersOnce == IpcSpec => []AnsweredOnce
<1>1. IpcInv => AnsweredOnce
  BY DEF IpcInv
<1>2. QED
  BY <1>1, IpcInvariant, PTL

-----------------------------------------------------------------------------
(***************************************************************************)
(* The messages implement RequestReply.  Under the invariant a request is  *)
(* in one phase only, so that the phase of a request that is seen in one   *)
(* place is that place.                                                    *)
(***************************************************************************)
PhasesApart == \A r \in Request, p \in Replies!Phase : InPhase(r, p) => PhaseOf(r) = p
SomePhase == \A r \in Request : \E p \in Replies!Phase : InPhase(r, p)

LEMMA FewCarriers ==
    ASSUME IpcInv, NEW r PROVE Cardinality(Carriers(held \cup Queued, r)) <= 1
<1>1. \A m, k \in Carriers(held \cup Queued, r) : m = k
  BY CarryType DEF Carriers, Carriage
<1>2. CASE Carriers(held \cup Queued, r) = {}
  BY <1>2, FS_EmptySet
<1>3. ASSUME NEW m \in Carriers(held \cup Queued, r)
      PROVE  Cardinality(Carriers(held \cup Queued, r)) <= 1
  <2>1. Carriers(held \cup Queued, r) = {m}
    BY <1>1
  <2>2. Cardinality({m}) = 1
    BY FS_Singleton
  <2>3. QED
    BY <2>1, <2>2
<1>4. QED
  BY <1>2, <1>3

LEMMA InOnePhase ==
    ASSUME IpcInv, NEW r \in Request, NEW p \in Replies!Phase, InPhase(r, p),
           NEW q \in Replies!Phase, InPhase(r, q)
    PROVE  p = q
<1>1. /\ Carriers(Queued, r) # {} => r \in (1..Len(origin)) \ Settled
      /\ Carriers(held, r) # {} => r \in (1..Len(origin)) \ Settled
      /\ Settled \subseteq 1..Len(origin) /\ Len(origin) \in Nat
  BY CarryType DEF Carriers, Carriage
<1>2. Carriers(Queued, r) = {} \/ Carriers(held, r) = {}
  <2>1. Queued \cap held = {}
    BY DEF IpcInv, ServerMessagesApart
  <2>2. QED
    BY <2>1, CarryType DEF Carriers, Carriage
<1>3. r > Len(origin) => r \notin 1..Len(origin)
  BY <1>1
<1>4. /\ done \cap (deferred \cup refused \cup dropped) = {}
      /\ deferred \cap (refused \cup dropped) = {} /\ refused \cap dropped = {}
      /\ done \cup deferred \cup refused \cup dropped = Settled
  BY DEF IpcInv, SettledOnce, Settled
<1>5. CASE p = "unsent"
  BY <1>1, <1>3, <1>4, <1>5 DEF InPhase, Replies!Phase
<1>6. CASE p = "refused"
  BY <1>1, <1>3, <1>4, <1>6 DEF InPhase, Replies!Phase
<1>7. CASE p = "waiting"
  BY <1>1, <1>2, <1>3, <1>4, <1>7 DEF InPhase, Replies!Phase
<1>8. CASE p = "taken"
  BY <1>1, <1>2, <1>3, <1>4, <1>8 DEF InPhase, Replies!Phase
<1>9. CASE p = "done"
  BY <1>1, <1>3, <1>4, <1>9 DEF InPhase, Replies!Phase
<1>10. CASE p = "dropped"
  BY <1>1, <1>3, <1>4, <1>10 DEF InPhase, Replies!Phase
<1>11. QED
  BY <1>5, <1>6, <1>7, <1>8, <1>9, <1>10 DEF Replies!Phase

LEMMA PhaseRead == IpcInv => PhasesApart
<1> SUFFICES ASSUME IpcInv, NEW r \in Request, NEW p \in Replies!Phase, InPhase(r, p)
             PROVE  PhaseOf(r) = p
  BY DEF PhasesApart
<1> DEFINE ps == {q \in {"unsent", "refused", "waiting", "taken", "done", "dropped"} : InPhase(r, q)}
<1>1. ps = {p}
  BY InOnePhase DEF Replies!Phase
<1>2. Cardinality({p}) = 1
  BY FS_Singleton
<1>3. Cardinality(Carriers(held \cup Queued, r)) <= 1
  BY FewCarriers
<1> HIDE DEF ps
<1>4. (CHOOSE q \in ps : TRUE) = p
  BY <1>1
<1>5. QED
  BY <1>1, <1>2, <1>3, <1>4 DEF PhaseOf, ps

LEMMA PhaseFound == IpcInv => SomePhase
<1> SUFFICES ASSUME IpcInv, NEW r \in Request PROVE \E p \in Replies!Phase : InPhase(r, p)
  BY DEF SomePhase
<1>1. CASE r \notin 1..Len(origin)
  <2>1. r > Len(origin)
    BY <1>1, CarryType, IpcAssumption DEF Request
  <2>2. InPhase(r, "unsent")
    BY <2>1 DEF InPhase
  <2>3. QED
    BY <2>2 DEF Replies!Phase
<1>2. CASE r \in Settled
  <2>1. InPhase(r, "refused") \/ InPhase(r, "taken") \/ InPhase(r, "done") \/ InPhase(r, "dropped")
    BY <1>2 DEF InPhase, Settled
  <2>2. QED
    BY <2>1 DEF Replies!Phase
<1>3. CASE r \in (1..Len(origin)) \ Settled
  <2>1. Carriers(Queued, r) # {} \/ Carriers(held, r) # {}
    BY <1>3, CarryType DEF Carriers, Carriage
  <2>2. InPhase(r, "waiting") \/ InPhase(r, "taken")
    BY <2>1 DEF InPhase
  <2>3. QED
    BY <2>2 DEF Replies!Phase
<1>4. QED
  BY <1>1, <1>2, <1>3

LEMMA PhaseReadNext == IpcInv' => PhasesApart'
  BY PhaseRead, PTL

\* Request x stays where it is.
Stays(x) ==
    /\ x > Len(origin) => x > Len(origin')
    /\ refused \subseteq refused' /\ done \subseteq done' /\ dropped \subseteq dropped'
    /\ x \in deferred => x \in deferred'
    /\ \A m \in Queued : carries[m] = x => m \in Queued' /\ carries'[m] = x
    /\ \A m \in held : carries[m] = x => m \in held' /\ carries'[m] = x

LEMMA PhaseKept ==
    ASSUME IpcInv, IpcInv', NEW x \in Request, Stays(x) PROVE PhaseOf(x)' = PhaseOf(x)
<1>1. PICK p \in Replies!Phase : InPhase(x, p)
  BY PhaseFound DEF SomePhase
<1>2. InPhase(x, p)'
  <2>1. Carriers(Queued, x) # {} => Carriers(Queued, x)' # {}
    BY DEF Carriers, Stays
  <2>2. Carriers(held, x) # {} => Carriers(held, x)' # {}
    BY DEF Carriers, Stays
  <2>3. QED
    BY <1>1, <2>1, <2>2 DEF InPhase, Stays, Replies!Phase
<1>3. QED
  BY <1>1, <1>2, PhaseRead, PhaseReadNext DEF PhasesApart

\* Request r goes from phase p to phase q and the others stay.
Moves(r, p, q) ==
    InPhase(r, p) /\ InPhase(r, q)' /\ \A x \in Request \ {r} : Stays(x)

LEMMA MoveStep ==
    ASSUME IpcInv, IpcInv', NEW r \in Request, NEW p, NEW q, <<p, q>> \in Replies!Step, Moves(r, p, q)
    PROVE  Replies!Next
<1>1. p \in Replies!Phase /\ q \in Replies!Phase
  BY DEF Replies!Step, Replies!Phase
<1>2. PhaseOf(r) = p /\ PhaseOf(r)' = q
  BY <1>1, PhaseRead, PhaseReadNext DEF PhasesApart, Moves
<1>3. \A x \in Request \ {r} : PhaseOf(x)' = PhaseOf(x)
  BY PhaseKept DEF Moves
<1>4. [x \in Request |-> PhaseOf(x)]' = [[x \in Request |-> PhaseOf(x)] EXCEPT ![r] = q]
  BY <1>2, <1>3
<1>5. QED
  BY <1>1, <1>2, <1>4 DEF Replies!Next

LEMMA StayStep ==
    ASSUME IpcInv, IpcInv', \A x \in Request : Stays(x)
    PROVE  UNCHANGED [r \in Request |-> PhaseOf(r)]
  BY PhaseKept

\* A request that is sent leaves "unsent"; the messages that carry others keep them.
LEMMA SendPhase ==
    ASSUME IpcInv, IpcInv', NEW c \in Client, NEW s \in open, NEW kind \in Kind, NEW m, NEW u, NEW p,
           Carrier(c, s, kind, m, u, p), Len(origin) < MaxRequests, SendMessage(c, s, kind, m, u, p)
    PROVE  Replies!Next
<1>0. PICK r : r = Len(origin) + 1
  OBVIOUS
<1>1. /\ origin' = Append(origin, <<c, s, kind>>) /\ UNCHANGED refused
      /\ Process(s, m, r, kind, u, p) \/ Deliver(s, m, r, u, p)
  BY <1>0 DEF SendMessage
<1>2. /\ m \in Slot /\ m \notin Queued \cup held \cup receiving /\ ProcessSlot \notin Carriage
      /\ Len(origin) \in Nat /\ r \in Request /\ Len(origin') = r /\ r > Len(origin) /\ r \notin Settled
      /\ carries \in [Slot -> 0..MaxRequests] /\ delivered \in Seq(Slot) /\ Carriage \subseteq Slot
      /\ ProcessSlot \in Slot /\ receiving \cap Carriage = {} /\ receiving \subseteq Slot
  <2>1. IpcTypeOK /\ s \in Session
    BY DEF IpcInv, IpcTypeOK
  <2>2. /\ Len(origin) \in Nat /\ r \in Request /\ Len(origin') = r /\ r \notin 1..Len(origin)
    BY <2>1, <1>0, <1>1, NewRequest
  <2>3. receiving \cap Carriage = {}
    BY DEF IpcInv, ServerMessagesApart, Carriage
  <2>4. QED
    BY <2>1, <2>2, <2>3, <1>0, Available, ProcessApart, CarryType, IpcAssumption DEF IpcTypeOK
<1>3. InPhase(r, "unsent") /\ \A x \in Request \ {r} : x > Len(origin) => x > Len(origin')
  BY <1>0, <1>2, IpcAssumption DEF InPhase, Request
<1>4. CASE Process(s, m, r, kind, u, p)
  <2>1. carries' = [carries EXCEPT ![m] = r, ![ProcessSlot] = r] /\ UNCHANGED <<delivered, held>>
    BY <1>4 DEF Process
  <2>2. Queued' = Queued /\ held' = held /\ \A k \in Carriage : carries'[k] = carries[k]
    BY <2>1, <1>2, QueuedElements DEF Carriage
  <2>3. /\ done \subseteq done' /\ deferred \subseteq deferred' /\ dropped \subseteq dropped'
        /\ r \in done' \/ r \in deferred' \/ r \in dropped'
    BY <1>4 DEF Process, Answer
  <2>4. \A x \in Request \ {r} : Stays(x)
    BY <1>1, <1>3, <2>2, <2>3 DEF Stays, Carriage
  <2>5. InPhase(r, "done")' \/ InPhase(r, "taken")' \/ InPhase(r, "dropped")'
    BY <2>3 DEF InPhase
  <2>6. \/ Moves(r, "unsent", "done") \/ Moves(r, "unsent", "taken") \/ Moves(r, "unsent", "dropped")
    BY <1>3, <2>4, <2>5 DEF Moves
  <2>7. QED
    BY <1>2, <2>6, MoveStep DEF Replies!Step
<1>5. CASE Deliver(s, m, r, u, p)
  <2>0. UNCHANGED <<deferred, dropped, done>>
    BY <1>5 DEF Deliver
  <2>1. CASE carries' = [carries EXCEPT ![m] = r] /\ delivered' = Append(delivered, m) /\ UNCHANGED held
    <3>1. Queued' = Queued \cup {m}
      BY <2>1, <1>2, AppendElements, QueuedElements
    <3>2. carries'[m] = r /\ \A k \in Carriage : carries'[k] = carries[k]
      BY <2>1, <1>2 DEF Carriage
    <3>3. \A x \in Request \ {r} : Stays(x)
      BY <1>1, <1>3, <2>0, <2>1, <3>1, <3>2 DEF Stays, Carriage
    <3>4. InPhase(r, "waiting")'
      BY <3>1, <3>2 DEF InPhase, Carriers
    <3>5. Moves(r, "unsent", "waiting")
      BY <1>3, <3>3, <3>4 DEF Moves
    <3>6. QED
      BY <1>2, <3>5, MoveStep DEF Replies!Step
  <2>2. ASSUME NEW dest \in receiving, carries' = [carries EXCEPT ![m] = r, ![dest] = r],
               held' = held \cup {dest}, UNCHANGED delivered
        PROVE  Replies!Next
    <3>1. Queued' = Queued
      BY <2>2, QueuedElements
    <3>2. carries'[dest] = r /\ \A k \in Carriage : carries'[k] = carries[k]
      BY <2>2, <1>2 DEF Carriage
    <3>3. \A x \in Request \ {r} : Stays(x)
      BY <1>1, <1>3, <2>0, <2>2, <3>1, <3>2 DEF Stays, Carriage
    <3>4. InPhase(r, "taken")'
      BY <2>2, <3>2 DEF InPhase, Carriers
    <3>5. Moves(r, "unsent", "taken")
      BY <1>3, <3>3, <3>4 DEF Moves
    <3>6. QED
      BY <1>2, <3>5, MoveStep DEF Replies!Step
  <2>3. QED
    BY <1>5, <2>1, <2>2 DEF Deliver
<1>6. QED
  BY <1>1, <1>4, <1>5

LEMMA SendSyncPhase ==
    ASSUME IpcInv, IpcInv', NEW c \in Client, NEW s \in Session, SendSync(c, s) PROVE Replies!Next
<1>1. Carrier(c, s, "sync", SyncSlot[c], used, poolFree) /\ s \in open /\ "sync" \in Kind
  BY DEF SendSync, Carrier, Kind
<1>2. QED
  BY <1>1, SendPhase DEF SendSync

LEMMA SendAsyncPhase ==
    ASSUME IpcInv, IpcInv', NEW c \in Client, NEW s \in Session, NEW kind \in {"async", "blind"},
           Send(c, s, kind)
    PROVE  Replies!Next
<1>1. kind \in Kind /\ s \in open /\ Len(origin) < MaxRequests
  BY DEF Send, Kind
<1>2. ASSUME AsyncSlots[s] = 0, NEW S \in FirstFree(1), NEW m \in S,
             SendMessage(c, s, kind, m, used \cup {m}, poolFree)
      PROVE  Replies!Next
  <2>1. Carrier(c, s, kind, m, used \cup {m}, poolFree)
    BY <1>2 DEF FirstFree, Carrier
  <2>2. QED
    BY <2>1, <1>1, <1>2, SendPhase
<1>3. ASSUME AsyncSlots[s] # 0, NEW m \in poolFree[s],
             SendMessage(c, s, kind, m, used, [poolFree EXCEPT ![s] = @ \ {m}])
      PROVE  Replies!Next
  <2>1. Carrier(c, s, kind, m, used, [poolFree EXCEPT ![s] = @ \ {m}])
    BY <1>3 DEF Carrier
  <2>2. QED
    BY <2>1, <1>1, <1>3, SendPhase
<1>4. QED
  BY <1>2, <1>3 DEF Send

LEMMA SendRefusedPhase ==
    ASSUME IpcInv, IpcInv', NEW c \in Client, NEW s \in Session, NEW kind \in {"async", "blind"},
           SendRefused(c, s, kind)
    PROVE  Replies!Next
<1>0. PICK r : r = Len(origin) + 1
  OBVIOUS
<1>1. /\ origin' = Append(origin, <<c, s, kind>>) /\ Len(origin) < MaxRequests /\ refused' = refused \cup {r}
      /\ UNCHANGED <<carries, delivered, held, deferred, dropped, done>>
  BY <1>0 DEF SendRefused
<1>2. Len(origin) \in Nat /\ r \in Request /\ Len(origin') = r /\ IpcTypeOK /\ kind \in Kind
  BY <1>0, <1>1, NewRequest DEF IpcInv, Kind
<1>3. InPhase(r, "unsent") /\ \A x \in Request \ {r} : x > Len(origin) => x > Len(origin')
  BY <1>0, <1>2, IpcAssumption DEF InPhase, Request
<1>4. InPhase(r, "refused")'
  BY <1>1 DEF InPhase
<1>5. \A x \in Request \ {r} : Stays(x)
  BY <1>1, <1>3, QueuedElements DEF Stays
<1>6. Moves(r, "unsent", "refused")
  BY <1>3, <1>4, <1>5 DEF Moves
<1>7. QED
  BY <1>2, <1>6, MoveStep DEF Replies!Step

\* A receive that waits changes no request; one that accepts takes the newest.
LEMMA ServerReceivePhase ==
    ASSUME IpcInv, IpcInv', ServerReceive
    PROVE  Replies!Next \/ UNCHANGED [r \in Request |-> PhaseOf(r)]
<1>1. PICK m \in Slot \ used :
        \/ UNCHANGED <<carries, delivered, held>>
        \/ /\ delivered # <<>>
           /\ carries' = [carries EXCEPT ![m] = carries[delivered[Len(delivered)]]]
           /\ delivered' = SubSeq(delivered, 1, Len(delivered) - 1)
           /\ held' = held \cup {m}
  BY DEF ServerReceive, FirstFree
<1>2. UNCHANGED <<deferred, origin, refused, dropped, done>>
  BY DEF ServerReceive
<1>3. CASE UNCHANGED <<carries, delivered, held>>
  <2>1. \A x \in Request : Stays(x)
    BY <1>2, <1>3, QueuedElements DEF Stays
  <2>2. QED
    BY <2>1, StayStep
<1>4. CASE /\ delivered # <<>> /\ held' = held \cup {m}
           /\ carries' = [carries EXCEPT ![m] = carries[delivered[Len(delivered)]]]
           /\ delivered' = SubSeq(delivered, 1, Len(delivered) - 1)
  <2>0. PICK real, r : real = delivered[Len(delivered)] /\ r = carries[real]
    OBVIOUS
  <2>1. real \in Queued /\ Queued' = Queued \ {real}
    <3>1. delivered \in Seq(Slot) /\ Distinct(delivered)
      BY DEF IpcInv, IpcTypeOK, QueueOK, Distinct
    <3>2. real \in Elements(delivered) /\ Elements(delivered') = Elements(delivered) \ {real}
      BY <3>1, <1>4, <2>0, LastElements
    <3>3. QED
      BY <3>2, QueuedElements
  <2>2. r \in Request /\ carries \in [Slot -> 0..MaxRequests] /\ Carriage \subseteq Slot /\ m \notin Carriage
    <3>1. r \in 1..Len(origin) /\ Len(origin) \in Nat /\ Carriage \subseteq Slot
      BY <2>0, <2>1, CarryType DEF Carriage
    <3>2. Len(origin) <= MaxRequests /\ MaxRequests \in Nat /\ carries \in [Slot -> 0..MaxRequests]
      BY IpcAssumption DEF IpcInv, IpcTypeOK
    <3>3. m \notin Carriage
      BY DEF IpcInv, QueueOK, ServerMessagesApart, Carriage
    <3>4. QED
      BY <3>1, <3>2, <3>3 DEF Request
  <2>3. carries'[m] = r /\ \A k \in Carriage : carries'[k] = carries[k]
    BY <1>4, <2>0, <2>2
  <2>4. InPhase(r, "waiting") /\ InPhase(r, "taken")'
    <3>1. real \in Carriers(Queued, r) /\ m \in Carriers(held, r)'
      BY <1>4, <2>0, <2>1, <2>3 DEF Carriers
    <3>2. QED
      BY <3>1 DEF InPhase
  <2>5. \A x \in Request \ {r} : Stays(x)
    BY <1>2, <1>4, <2>0, <2>1, <2>3 DEF Stays, Carriage
  <2>6. Moves(r, "waiting", "taken")
    BY <2>4, <2>5 DEF Moves
  <2>7. QED
    BY <2>2, <2>6, MoveStep DEF Replies!Step
<1>5. QED
  BY <1>1, <1>3, <1>4

LEMMA MessageCompletePhase ==
    ASSUME IpcInv, IpcInv', NEW m \in Slot, MessageComplete(m) PROVE Replies!Next
<1>0. PICK r : r = carries[m]
  OBVIOUS
<1>1. /\ m \in held /\ done' = done \cup {r} /\ held' = held \ {m}
      /\ UNCHANGED <<carries, delivered, deferred, origin, refused, dropped>>
  BY <1>0 DEF MessageComplete, Answer
<1>2. r \in Request
  <2>1. r \in 1..Len(origin) /\ Len(origin) \in Nat
    BY <1>0, <1>1, CarryType DEF Carriage
  <2>2. QED
    BY <2>1, IpcAssumption DEF IpcInv, IpcTypeOK, Request
<1>3. InPhase(r, "taken") /\ InPhase(r, "done")'
  BY <1>0, <1>1 DEF InPhase, Carriers
<1>4. \A x \in Request \ {r} : Stays(x)
  BY <1>0, <1>1, QueuedElements DEF Stays
<1>5. Moves(r, "taken", "done")
  BY <1>3, <1>4 DEF Moves
<1>6. QED
  BY <1>2, <1>5, MoveStep DEF Replies!Step

LEMMA CompleteDeferredPhase ==
    ASSUME IpcInv, IpcInv', NEW r \in Request, CompleteDeferred(r) PROVE Replies!Next
<1>1. /\ r \in deferred /\ done' = done \cup {r} /\ deferred' = deferred \ {r}
      /\ UNCHANGED <<carries, delivered, held, origin, refused, dropped>>
  BY DEF CompleteDeferred, Answer
<1>2. InPhase(r, "taken") /\ InPhase(r, "done")'
  BY <1>1 DEF InPhase
<1>3. \A x \in Request \ {r} : Stays(x)
  BY <1>1, QueuedElements DEF Stays
<1>4. Moves(r, "taken", "done")
  BY <1>2, <1>3 DEF Moves
<1>5. QED
  BY <1>4, MoveStep DEF Replies!Step

LEMMA IpcInitPhase == IpcInit => Replies!Init
<1> SUFFICES ASSUME IpcInit PROVE \A r \in Request : PhaseOf(r) = "unsent"
  BY DEF Replies!Init
<1>1. \A r \in Request : InPhase(r, "unsent")
  BY IpcAssumption DEF IpcInit, InPhase, Request
<1>2. QED
  BY <1>1, IpcInitInv, PhaseRead DEF PhasesApart, Replies!Phase

LEMMA IpcNextPhase ==
    IpcInv /\ IpcInv' /\ [IpcNext]_ipcVars => [Replies!Next]_(Replies!replyVars)
<1> SUFFICES ASSUME IpcInv, IpcInv', [IpcNext]_ipcVars
             PROVE  Replies!Next \/ UNCHANGED [r \in Request |-> PhaseOf(r)]
  BY DEF Replies!replyVars
<1>1. CASE UNCHANGED <<carries, delivered, held, deferred, origin, refused, dropped, done>>
  <2>1. \A x \in Request : Stays(x)
    BY <1>1, QueuedElements DEF Stays
  <2>2. QED
    BY <2>1, StayStep
<1>2. ASSUME NEW s \in Session, OpenSession(s) \/ CloseSession(s)
      PROVE  UNCHANGED <<carries, delivered, held, deferred, origin, refused, dropped, done>>
  BY <1>2 DEF OpenSession, CloseSession
<1>3. ASSUME ServerCancel \/ UNCHANGED ipcVars
      PROVE  UNCHANGED <<carries, delivered, held, deferred, origin, refused, dropped, done>>
  BY <1>3 DEF ServerCancel, ipcVars
<1>4. QED
  BY <1>1, <1>2, <1>3, SendSyncPhase, SendAsyncPhase, SendRefusedPhase, ServerReceivePhase,
     MessageCompletePhase, CompleteDeferredPhase DEF IpcNext

\* Whatever the sizes of the pools and the table: no request that session::send took is
\* lost, received twice or completed twice, and each goes through its phases in order.
THEOREM IpcRefines == IpcSpec => ImplementsRequestReply
<1>1. IpcInv /\ [IpcNext]_ipcVars => IpcInv'
  BY IpcNextInv
<1>2. QED
  BY <1>1, IpcInitPhase, IpcNextPhase, IpcInvariant, PTL DEF IpcSpec, ImplementsRequestReply, Replies!Spec
=============================================================================
