--------------------------- MODULE SchedulerProofs --------------------------
(***************************************************************************)
(* Facts about the ready queue's operations, for every set of threads and  *)
(* every set of levels: queueing an unlinked thread and unlinking a linked *)
(* one keep the rings well linked and touch nobody else's membership; and  *)
(* what a turn of the main loop does to the rings, whatever kernel objects *)
(* the threads wait on.                                                    *)
(***************************************************************************)
EXTENDS Scheduler, SequenceFacts, FiniteSetTheorems, TLAPS

\* queue_thread_ready returns a queue of the same type: the first thread of a
\* non-empty ring has a predecessor.
LEMMA QueueType ==
    ASSUME NEW q \in ReadyQueues, NEW pri \in [Thread -> Level], LinksOK(q, pri),
           NEW t \in Thread, NEW p \in Level
    PROVE  QueueThreadReady(q, t, p) \in ReadyQueues
BY NilAssumption DEF QueueThreadReady, ReadyQueues, ThreadPtr, LinksOK

\* Appending an unlinked thread to its level's ring keeps neighbours consistent.
LEMMA QueueLinks ==
    ASSUME NEW q \in ReadyQueues, NEW pri \in [Thread -> Level], LinksOK(q, pri),
           NEW t \in Thread, ~Linked(q, t)
    PROVE  LinksOK(QueueThreadReady(q, t, pri[t]), pri)
<1> DEFINE p == pri[t]
           first == q.readys[p]
           last == q.previous[first]
           r == QueueThreadReady(q, t, p)
<1>1. CASE first = Nil
  BY <1>1, NilAssumption DEF QueueThreadReady, ReadyQueues, ThreadPtr, LinksOK, Linked
<1>2. CASE first # Nil
  <2>1. first \in Thread /\ last \in Thread /\ first # t /\ last # t /\ p \in Level
    BY <1>2, NilAssumption DEF ReadyQueues, ThreadPtr, LinksOK, Linked
  <2>2. r.next = [q.next EXCEPT ![t] = first, ![last] = t]
        /\ r.previous = [q.previous EXCEPT ![t] = last, ![first] = t]
        /\ r.readys = q.readys /\ r.mask = q.mask
    BY <1>2 DEF QueueThreadReady
  <2>4. /\ q.next[last] = first /\ pri[first] = p /\ pri[last] = p /\ q.next[first] # Nil
        /\ first = q.readys[p] /\ last = q.previous[first] /\ p = pri[t]
    BY <1>2, <2>1, NilAssumption DEF LinksOK
  <2>5. q.next \in [Thread -> ThreadPtr] /\ q.previous \in [Thread -> ThreadPtr]
    BY DEF ReadyQueues
  <2>6. q.next[t] = Nil /\ q.previous[t] = Nil
    BY DEF Linked
  <2> HIDE DEF r, first, last, p
  <2>3. /\ \A u \in Thread : r.next[u] = IF u = t THEN first ELSE IF u = last THEN t ELSE q.next[u]
        /\ \A u \in Thread : r.previous[u] = IF u = t THEN last ELSE IF u = first THEN t ELSE q.previous[u]
    BY <2>1, <2>2, <2>5
  <2>a. r.next[t] = first /\ r.previous[t] = last /\ r.next[last] = t /\ r.previous[first] = t
    BY <2>1, <2>3
  <2>b. /\ \A u \in Thread : q.next[u] = Nil <=> q.previous[u] = Nil
        /\ q.next[last] # Nil /\ t # Nil /\ first # Nil /\ last # Nil
    BY <2>1, <2>4, NilAssumption DEF LinksOK
  <2>c. q.previous[first] = last /\ pri[t] = pri[last] /\ pri[t] = pri[first]
    BY <2>4
  <2>7. ASSUME NEW u \in Thread PROVE r.next[u] = Nil <=> r.previous[u] = Nil
    <3>1. r.next[u] = IF u = t THEN first ELSE IF u = last THEN t ELSE q.next[u]
      BY <2>3
    <3>2. r.previous[u] = IF u = t THEN last ELSE IF u = first THEN t ELSE q.previous[u]
      BY <2>3
    <3>3. q.next[u] = Nil <=> q.previous[u] = Nil
      BY <2>b
    <3>. QED BY <2>b, <2>c, <3>1, <3>2, <3>3
  <2>8. ASSUME NEW u \in Thread, r.next[u] # Nil
        PROVE  /\ r.previous[r.next[u]] = u
               /\ r.next[r.previous[u]] = u
               /\ pri[r.next[u]] = pri[u]
               /\ pri[r.previous[u]] = pri[u]
               /\ r.readys[pri[u]] # Nil
    <3>1. CASE u = t
      BY <1>2, <2>1, <2>2, <2>3, <2>4, <3>1
    <3>2. CASE u # t
      <4>1. q.next[u] # Nil
        BY <2>1, <2>3, <2>4, <2>8, <3>2, NilAssumption
      <4>2. /\ q.previous[q.next[u]] = u /\ q.next[q.previous[u]] = u
            /\ pri[q.next[u]] = pri[u] /\ pri[q.previous[u]] = pri[u]
            /\ q.readys[pri[u]] # Nil /\ q.previous[u] # Nil
        BY <4>1 DEF LinksOK
      <4>3. q.next[u] \in Thread /\ q.previous[u] \in Thread /\ q.next[u] # t /\ q.previous[u] # t
        BY <2>5, <2>6, <4>1, <4>2, NilAssumption DEF ThreadPtr
      <4>4. CASE u = last
        <5>1. r.next[u] = t /\ r.previous[t] = u /\ pri[t] = pri[u]
          BY <2>a, <2>c, <4>4
        <5>2. CASE u = first
          <6>1. r.previous[u] = t /\ r.next[t] = u /\ r.readys[pri[u]] # Nil
            BY <2>2, <2>a, <4>2, <5>2
          <6>. QED BY <5>1, <6>1
        <5>3. CASE u # first
          <6>1. r.previous[u] = q.previous[u]
            BY <2>3, <3>2, <5>3
          <6>2. q.previous[u] # last
            BY <2>4, <4>2, <4>4, <5>3
          <6>. QED BY <2>2, <2>3, <4>2, <4>3, <5>1, <6>1, <6>2
        <5>. QED BY <5>2, <5>3
      <4>5. CASE u # last
        <5>1. r.next[u] = q.next[u] /\ q.next[u] # first
          BY <2>3, <2>4, <3>2, <4>2, <4>5
        <5>2. r.previous[r.next[u]] = u /\ pri[r.next[u]] = pri[u]
          BY <2>3, <4>2, <4>3, <5>1
        <5>3. r.next[r.previous[u]] = u /\ pri[r.previous[u]] = pri[u]
          BY <2>1, <2>3, <2>4, <3>2, <4>2, <4>3
        <5>. QED BY <2>2, <4>2, <5>2, <5>3
      <4>. QED BY <4>4, <4>5
    <3>. QED BY <3>1, <3>2, ZenonT(40)
  <2>9. ASSUME NEW x \in Level, r.readys[x] # Nil
        PROVE  r.next[r.readys[x]] # Nil /\ pri[r.readys[x]] = x
    <3>1. q.readys[x] \in Thread /\ q.next[q.readys[x]] # Nil /\ pri[q.readys[x]] = x
      BY <2>2, <2>9 DEF LinksOK, ReadyQueues, ThreadPtr
    <3>. QED BY <2>1, <2>2, <2>3, <3>1, NilAssumption
  <2>10. r.mask = {x \in Level : r.readys[x] # Nil}
    BY <2>2 DEF LinksOK
  <2>11. LinksOK(r, pri)
    BY <2>7, <2>8, <2>9, <2>10 DEF LinksOK
  <2>. QED BY <2>11 DEF r, p
<1>. QED BY <1>1, <1>2

\* Queueing links the thread and no other.
LEMMA QueueLinked ==
    ASSUME NEW q \in ReadyQueues, NEW pri \in [Thread -> Level], LinksOK(q, pri),
           NEW t \in Thread, NEW p \in Level, NEW u \in Thread
    PROVE  Linked(QueueThreadReady(q, t, p), u) <=> u = t \/ Linked(q, u)
BY NilAssumption DEF QueueThreadReady, ReadyQueues, ThreadPtr, LinksOK, Linked

\* Appending an unlinked thread leaves one ring per level: a set closed under
\* the new successors is, without the thread, closed under the old ones.
LEMMA QueueOneRing ==
    ASSUME NEW q \in ReadyQueues, NEW pri \in [Thread -> Level], RingsOK(q, pri),
           NEW t \in Thread, ~Linked(q, t)
    PROVE  OneRing(QueueThreadReady(q, t, pri[t]), pri)
<1> DEFINE r == QueueThreadReady(q, t, pri[t])
           first == q.readys[pri[t]]
           last == q.previous[first]
<1>0. LinksOK(q, pri) /\ OneRing(q, pri)
  BY DEF RingsOK
<1> SUFFICES ASSUME NEW p \in Level, NEW S \in SUBSET OnLevel(r, pri, p),
                    S # {}, \A u \in S : r.next[u] \in S
             PROVE  S = OnLevel(r, pri, p)
  BY DEF OneRing
<1> DEFINE T == S \ {t}
<1>a. \A u \in Thread : Linked(r, u) <=> u = t \/ Linked(q, u)
  BY <1>0, QueueLinked
<1>1. S \subseteq Thread /\ T \subseteq OnLevel(q, pri, p)
  BY <1>a DEF OnLevel
<1>b. ASSUME NEW u \in Thread, u # t
      PROVE  r.next[u] = IF first # Nil /\ u = last THEN t ELSE q.next[u]
  BY <1>0, <1>b, NilAssumption DEF QueueThreadReady, ReadyQueues, ThreadPtr, LinksOK
<1>c. first # Nil => r.next[t] = first /\ first \in Thread /\ first # t /\ last \in Thread /\ last # t
                     /\ q.next[last] = first /\ pri[first] = pri[t] /\ pri[last] = pri[t]
                     /\ Linked(q, first) /\ Linked(q, last)
  BY <1>0, NilAssumption DEF QueueThreadReady, ReadyQueues, ThreadPtr, LinksOK, Linked
<1>2. CASE T = {}
  <2>1. S = {t} /\ p = pri[t]
    BY <1>2 DEF OnLevel
  <2>2. first = Nil
    BY <2>1, <1>c
  <2>3. \A u \in Thread : Linked(q, u) => pri[u] # pri[t]
    BY <1>0, <2>2, NilAssumption DEF LinksOK, Linked
  <2>. QED BY <1>a, <2>1, <2>3 DEF OnLevel
<1>3. CASE T # {}
  <2>1. ASSUME NEW u \in T PROVE q.next[u] \in T
    <3>1. u \in Thread /\ u # t /\ q.next[u] # t
      BY <1>0, <1>1, NilAssumption DEF LinksOK, Linked, OnLevel
    <3>2. CASE first # Nil /\ u = last
      BY <3>1, <3>2, <1>b, <1>c, <2>1
    <3>3. CASE ~(first # Nil /\ u = last)
      BY <3>1, <3>3, <1>b, <2>1
    <3>. QED BY <3>2, <3>3
  <2>2. T = OnLevel(q, pri, p)
    BY <1>0, <1>1, <1>3, <2>1 DEF OneRing
  <2>3. p = pri[t] => t \in S
    <3>1. SUFFICES ASSUME p = pri[t] PROVE t \in S
      OBVIOUS
    <3>2. first # Nil
      BY <3>1, <2>2, <1>3, <1>0 DEF LinksOK, OnLevel, Linked
    <3>3. last \in S
      BY <3>1, <3>2, <1>c, <2>2 DEF OnLevel
    <3>. QED BY <3>2, <3>3, <1>b, <1>c
  <2>. QED BY <1>a, <1>1, <2>2, <2>3 DEF OnLevel
<1>. QED BY <1>2, <1>3

\* dequeue_thread_from_ready returns a queue of the same type.
LEMMA DequeueType ==
    ASSUME NEW q \in ReadyQueues, NEW t \in Thread, NEW p \in Level
    PROVE  DequeueThreadFromReady(q, t, p) \in ReadyQueues
BY NilAssumption DEF DequeueThreadFromReady, DequeueFaults, ReadyQueues, ThreadPtr

\* A linked thread's neighbours are threads, its level is marked non-empty, and
\* if it is its own neighbour it is the level's only thread.
LEMMA LinkedFacts ==
    ASSUME NEW q \in ReadyQueues, NEW pri \in [Thread -> Level], RingsOK(q, pri),
           NEW t \in Thread, Linked(q, t)
    PROVE  /\ pri[t] \in q.mask /\ ~DequeueFaults(q, t, pri[t])
           /\ q.next[t] \in Thread /\ q.previous[t] \in Thread
           /\ q.next[t] = t <=> q.previous[t] = t
           /\ q.readys[pri[t]] \in OnLevel(q, pri, pri[t])
           /\ q.next[t] = t => OnLevel(q, pri, pri[t]) = {t}
<1>0. LinksOK(q, pri) /\ OneRing(q, pri)
  BY DEF RingsOK
<1>1. /\ pri[t] \in q.mask /\ ~DequeueFaults(q, t, pri[t])
      /\ q.next[t] \in Thread /\ q.previous[t] \in Thread
      /\ q.next[t] = t <=> q.previous[t] = t
      /\ q.readys[pri[t]] \in OnLevel(q, pri, pri[t])
  BY <1>0, NilAssumption DEF ReadyQueues, ThreadPtr, LinksOK, Linked, DequeueFaults, OnLevel
<1>2. ASSUME q.next[t] = t PROVE OnLevel(q, pri, pri[t]) = {t}
  <2>1. {t} \in SUBSET OnLevel(q, pri, pri[t]) /\ {t} # {} /\ \A u \in {t} : q.next[u] \in {t}
    BY <1>2 DEF OnLevel
  <2>2. pri[t] \in Level
    OBVIOUS
  <2>. QED BY <1>0, <2>1, <2>2 DEF OneRing
<1>. QED BY <1>1, <1>2

\* Unlinking a linked thread keeps neighbours consistent.
LEMMA DequeueLinks ==
    ASSUME NEW q \in ReadyQueues, NEW pri \in [Thread -> Level], RingsOK(q, pri),
           NEW t \in Thread, Linked(q, t)
    PROVE  LinksOK(DequeueThreadFromReady(q, t, pri[t]), pri)
<1> DEFINE p == pri[t]
           n == q.next[t]
           v == q.previous[t]
           r == DequeueThreadFromReady(q, t, p)
<1>0. LinksOK(q, pri)
  BY DEF RingsOK
<1>1. /\ p \in Level /\ p \in q.mask /\ n \in Thread /\ v \in Thread /\ ~DequeueFaults(q, t, p)
      /\ n = t <=> v = t
  BY LinkedFacts
<1>2. CASE n = t
  <2>1. /\ r.readys = [q.readys EXCEPT ![p] = Nil] /\ r.mask = q.mask \ {p}
        /\ r.next = [q.next EXCEPT ![t] = Nil] /\ r.previous = [q.previous EXCEPT ![t] = Nil]
    BY <1>1, <1>2 DEF DequeueThreadFromReady
  <2>2. \A u \in Thread : Linked(q, u) /\ u # t => pri[u] # p
    BY <1>2, LinkedFacts DEF OnLevel
  <2>3. \A u \in Thread : u # t /\ q.next[u] # Nil => q.next[u] # t /\ q.previous[u] # t
    BY <1>0, <1>1, <1>2 DEF LinksOK
  <2>4. /\ \A u \in Thread : r.next[u] = IF u = t THEN Nil ELSE q.next[u]
        /\ \A u \in Thread : r.previous[u] = IF u = t THEN Nil ELSE q.previous[u]
        /\ \A x \in Level : r.readys[x] = IF x = p THEN Nil ELSE q.readys[x]
    BY <2>1, <1>1 DEF ReadyQueues
  <2> HIDE DEF r
  <2>5. LinksOK(r, pri)
    BY <1>0, <1>1, <2>1, <2>2, <2>3, <2>4, NilAssumption DEF LinksOK, Linked, ReadyQueues, ThreadPtr
  <2>. QED BY <2>5 DEF r
<1>3. CASE n # t
  <2>1. /\ r.readys = IF q.readys[p] = t THEN [q.readys EXCEPT ![p] = n] ELSE q.readys
        /\ r.mask = q.mask
        /\ r.next = [q.next EXCEPT ![v] = n, ![t] = Nil]
        /\ r.previous = [q.previous EXCEPT ![n] = v, ![t] = Nil]
    BY <1>1, <1>3 DEF DequeueThreadFromReady
  <2>2. /\ q.next \in [Thread -> ThreadPtr] /\ q.previous \in [Thread -> ThreadPtr]
        /\ q.readys \in [Level -> ThreadPtr]
    BY DEF ReadyQueues
  <2>3. /\ q.previous[n] = t /\ q.next[v] = t /\ pri[n] = p /\ pri[v] = p /\ p = pri[t]
        /\ q.next[n] # Nil /\ q.previous[v] # Nil /\ v # t /\ n = q.next[t] /\ v = q.previous[t]
        /\ q.readys[p] # Nil
    BY <1>0, <1>1, <1>3, NilAssumption DEF LinksOK
  <2> HIDE DEF r, n, v, p
  <2>4. /\ \A u \in Thread : r.next[u] = IF u = t THEN Nil ELSE IF u = v THEN n ELSE q.next[u]
        /\ \A u \in Thread : r.previous[u] = IF u = t THEN Nil ELSE IF u = n THEN v ELSE q.previous[u]
        /\ \A x \in Level : r.readys[x] = IF x = p /\ q.readys[p] = t THEN n ELSE q.readys[x]
    BY <1>1, <1>3, <2>1, <2>2, <2>3
  <2>5. \A u \in Thread : r.next[u] = Nil <=> r.previous[u] = Nil
    BY <1>0, <1>1, <2>3, <2>4, NilAssumption DEF LinksOK
  <2>6. ASSUME NEW u \in Thread, r.next[u] # Nil
        PROVE  /\ r.previous[r.next[u]] = u
               /\ r.next[r.previous[u]] = u
               /\ pri[r.next[u]] = pri[u]
               /\ pri[r.previous[u]] = pri[u]
               /\ r.readys[pri[u]] # Nil
    <3>1. u # t /\ q.next[u] # Nil
      BY <2>3, <2>4, <2>6, NilAssumption
    <3>2. /\ q.previous[q.next[u]] = u /\ q.next[q.previous[u]] = u
          /\ pri[q.next[u]] = pri[u] /\ pri[q.previous[u]] = pri[u]
          /\ q.readys[pri[u]] # Nil /\ q.previous[u] # Nil /\ pri[u] \in Level
      BY <1>0, <3>1 DEF LinksOK
    <3>3. q.next[u] \in Thread /\ q.previous[u] \in Thread
      BY <2>2, <3>1, <3>2 DEF ThreadPtr
    <3>4. r.readys[pri[u]] # Nil
      BY <1>1, <2>4, <3>2, NilAssumption
    <3>5. r.previous[r.next[u]] = u /\ pri[r.next[u]] = pri[u]
      BY <1>1, <1>3, <2>3, <2>4, <3>1, <3>2, <3>3
    <3>6. r.next[r.previous[u]] = u /\ pri[r.previous[u]] = pri[u]
      BY <1>1, <1>3, <2>3, <2>4, <3>1, <3>2, <3>3
    <3>. QED BY <3>4, <3>5, <3>6
  <2>7. ASSUME NEW x \in Level, r.readys[x] # Nil
        PROVE  r.next[r.readys[x]] # Nil /\ pri[r.readys[x]] = x
    <3>1. CASE x = p /\ q.readys[p] = t
      BY <1>1, <1>3, <2>3, <2>4, <3>1, NilAssumption
    <3>2. CASE ~(x = p /\ q.readys[p] = t)
      <4>1. q.readys[x] \in Thread /\ q.next[q.readys[x]] # Nil /\ pri[q.readys[x]] = x
        BY <1>0, <2>2, <2>4, <2>7, <3>2 DEF LinksOK, ThreadPtr
      <4>. QED BY <1>1, <2>3, <2>4, <3>2, <4>1, NilAssumption
    <3>. QED BY <3>1, <3>2
  <2>8. r.mask = {x \in Level : r.readys[x] # Nil}
    BY <1>0, <1>1, <2>1, <2>3, <2>4, NilAssumption DEF LinksOK
  <2>9. LinksOK(r, pri)
    BY <2>5, <2>6, <2>7, <2>8 DEF LinksOK
  <2>. QED BY <2>9 DEF r, p
<1>. QED BY <1>2, <1>3

\* Unlinking unlinks the thread and no other.
LEMMA DequeueLinked ==
    ASSUME NEW q \in ReadyQueues, NEW pri \in [Thread -> Level], RingsOK(q, pri),
           NEW t \in Thread, Linked(q, t), NEW u \in Thread
    PROVE  Linked(DequeueThreadFromReady(q, t, pri[t]), u) <=> u # t /\ Linked(q, u)
<1>0. LinksOK(q, pri)
  BY DEF RingsOK
<1>1. /\ pri[t] \in q.mask /\ ~DequeueFaults(q, t, pri[t])
      /\ q.next[t] \in Thread /\ q.previous[t] \in Thread
      /\ q.next[t] = t <=> q.previous[t] = t
  BY LinkedFacts
<1>. QED BY <1>0, <1>1, NilAssumption DEF DequeueThreadFromReady, ReadyQueues, ThreadPtr, LinksOK, Linked

\* Unlinking leaves one ring per level: a set closed under the new successors
\* becomes closed under the old ones when the thread joins its predecessor.
LEMMA DequeueOneRing ==
    ASSUME NEW q \in ReadyQueues, NEW pri \in [Thread -> Level], RingsOK(q, pri),
           NEW t \in Thread, Linked(q, t)
    PROVE  OneRing(DequeueThreadFromReady(q, t, pri[t]), pri)
<1> DEFINE r == DequeueThreadFromReady(q, t, pri[t])
           n == q.next[t]
           v == q.previous[t]
<1>0. LinksOK(q, pri) /\ OneRing(q, pri)
  BY DEF RingsOK
<1>1. /\ pri[t] \in q.mask /\ ~DequeueFaults(q, t, pri[t]) /\ n \in Thread /\ v \in Thread
      /\ n = t <=> v = t
  BY LinkedFacts
<1> SUFFICES ASSUME NEW p \in Level, NEW S \in SUBSET OnLevel(r, pri, p),
                    S # {}, \A u \in S : r.next[u] \in S
             PROVE  S = OnLevel(r, pri, p)
  BY DEF OneRing
<1>2. \A u \in Thread : Linked(r, u) <=> u # t /\ Linked(q, u)
  BY DequeueLinked
<1>3. S \subseteq OnLevel(q, pri, p) /\ t \notin S /\ OnLevel(r, pri, p) = OnLevel(q, pri, p) \ {t}
  BY <1>2 DEF OnLevel
<1>4. \A u \in Thread : u # t => r.next[u] = IF u = v THEN n ELSE q.next[u]
  BY <1>0, <1>1 DEF DequeueThreadFromReady, ReadyQueues, LinksOK
<1>5. q.next[v] = t /\ pri[v] = pri[t] /\ \A u \in Thread : q.next[u] = t => u = v
  BY <1>0, <1>1, NilAssumption DEF LinksOK
<1>6. CASE v \in S
  <2> DEFINE T == S \cup {t}
  <2>1. pri[t] = p
    BY <1>3, <1>5, <1>6 DEF OnLevel
  <2>2. T \in SUBSET OnLevel(q, pri, p)
    BY <1>3, <2>1 DEF OnLevel
  <2>3. n \in S
    BY <1>1, <1>3, <1>4, <1>6
  <2>4. \A u \in T : q.next[u] \in T
    BY <1>3, <1>4, <1>5, <2>3 DEF OnLevel
  <2>5. T = OnLevel(q, pri, p)
    BY <1>0, <2>2, <2>4 DEF OneRing
  <2>. QED BY <1>3, <2>5
<1>7. CASE v \notin S
  <2>1. \A u \in S : q.next[u] \in S
    BY <1>3, <1>4, <1>7 DEF OnLevel
  <2>2. S = OnLevel(q, pri, p)
    BY <1>0, <1>3, <2>1 DEF OneRing
  <2>. QED BY <1>3, <2>2
<1>. QED BY <1>6, <1>7

\* The ready queue stays sound when an unlinked thread is queued...
LEMMA QueueRings ==
    ASSUME NEW q \in ReadyQueues, NEW pri \in [Thread -> Level], RingsOK(q, pri),
           NEW t \in Thread, ~Linked(q, t)
    PROVE  RingsOK(QueueThreadReady(q, t, pri[t]), pri)
BY QueueLinks, QueueOneRing DEF RingsOK

\* ... and when a linked thread is unlinked.
LEMMA DequeueRings ==
    ASSUME NEW q \in ReadyQueues, NEW pri \in [Thread -> Level], RingsOK(q, pri),
           NEW t \in Thread, Linked(q, t)
    PROVE  RingsOK(DequeueThreadFromReady(q, t, pri[t]), pri)
BY DequeueLinks, DequeueOneRing DEF RingsOK

\* Moving a ring's head on by one thread leaves the rings as they are.
LEMMA RotateRings ==
    ASSUME NEW q \in ReadyQueues, NEW pri \in [Thread -> Level], RingsOK(q, pri),
           NEW t \in Thread, Linked(q, t)
    PROVE  /\ RotateReady(q, t, pri[t]) \in ReadyQueues
           /\ RingsOK(RotateReady(q, t, pri[t]), pri)
           /\ \A u \in Thread : Linked(RotateReady(q, t, pri[t]), u) <=> Linked(q, u)
<1> DEFINE r == RotateReady(q, t, pri[t])
<1>0. LinksOK(q, pri) /\ OneRing(q, pri)
  BY DEF RingsOK
<1>1. q.next[t] \in Thread /\ pri[q.next[t]] = pri[t] /\ q.next[q.next[t]] # Nil
  BY <1>0, NilAssumption DEF LinksOK, Linked, ReadyQueues, ThreadPtr
<1>2. /\ r.readys = [q.readys EXCEPT ![pri[t]] = q.next[t]] /\ r.mask = q.mask
      /\ r.next = q.next /\ r.previous = q.previous /\ r \in ReadyQueues
  BY <1>1 DEF RotateReady, ReadyQueues, ThreadPtr
<1>3. LinksOK(r, pri)
  BY <1>0, <1>1, <1>2, NilAssumption DEF LinksOK, Linked, ReadyQueues, ThreadPtr
<1>4. OneRing(r, pri)
  BY <1>0, <1>2 DEF OneRing, OnLevel, Linked
<1>. QED BY <1>2, <1>3, <1>4 DEF RingsOK, Linked

\* An unlinked thread's priority may change without touching the rings.
LEMMA RepriorRings ==
    ASSUME NEW q \in ReadyQueues, NEW pri \in [Thread -> Level], RingsOK(q, pri),
           NEW t \in Thread, ~Linked(q, t), NEW p \in Level
    PROVE  RingsOK(q, [pri EXCEPT ![t] = p])
<1> DEFINE new == [pri EXCEPT ![t] = p]
<1>0. LinksOK(q, pri) /\ OneRing(q, pri)
  BY DEF RingsOK
<1>1. \A u \in Thread : u # t => new[u] = pri[u]
  OBVIOUS
<1>2. \A u \in Thread : q.next[u] # t /\ q.previous[u] # t
  BY <1>0, NilAssumption DEF LinksOK, Linked
<1>3. LinksOK(q, new)
  BY <1>0, <1>1, <1>2, NilAssumption DEF LinksOK, Linked, ReadyQueues, ThreadPtr
<1>4. \A x \in Level : OnLevel(q, new, x) = OnLevel(q, pri, x)
  BY <1>1 DEF OnLevel
<1>5. OneRing(q, new)
  BY <1>0, <1>4 DEF OneRing
<1>. QED BY <1>3, <1>5 DEF RingsOK

\* A non-empty set of levels has a highest member, which Highest returns.
LEMMA HighestIn ==
    ASSUME NEW S \in SUBSET (0..63), S # {}
    PROVE  Highest(S) \in S /\ \A p \in S : p <= Highest(S)
<1> DEFINE below == {k \in Nat : k <= 63 /\ 63 - k \in S}
           R == OpToRel(<, Nat)
<1>1. below \subseteq Nat /\ below # {}
  <2>1. PICK p \in S : TRUE
    OBVIOUS
  <2>2. 63 - p \in below
    OBVIOUS
  <2>. QED BY <2>2
<1>2. PICK m \in below : \A k \in below : <<k, m>> \notin R
  <2> HIDE DEF below
  <2>. QED BY <1>1, NatLessThanWellFounded, WFMin
<1>3. \A k \in below : m <= k
  <2>1. \A k \in below : ~(k < m)
    BY <1>1, <1>2 DEF OpToRel
  <2>. QED BY <1>1, <2>1
<1>4. \A p \in S : 63 - p \in below /\ p \in 0..63
  OBVIOUS
<1>5. 63 - m \in S /\ m \in 0..63
  OBVIOUS
<1>6. ASSUME NEW p \in S PROVE p <= 63 - m
  <2>1. m <= 63 - p /\ p \in 0..63
    BY <1>3, <1>4
  <2> HIDE DEF below
  <2>. QED BY <1>5, <2>1
<1>. QED BY <1>5, <1>6 DEF Highest

\* next_ready_thread finds a linked thread whose level is the highest of its
\* mask word, unless no thread is ready.
LEMMA NextReadyFacts ==
    ASSUME NEW q \in ReadyQueues, NEW pri \in [Thread -> Level], RingsOK(q, pri),
           NEW t, t = NextReadyThread(q)
    PROVE  t = Nil \/ (t \in Thread /\ Linked(q, t))
<1> DEFINE low == {p \in q.mask : p < 32}
<1>1. q.mask \in SUBSET (0..63) /\ low \in SUBSET (0..63)
  BY LevelAssumption DEF ReadyQueues
<1>2. \A p \in q.mask : q.readys[p] \in Thread /\ Linked(q, q.readys[p])
  BY NilAssumption DEF RingsOK, LinksOK, ReadyQueues, ThreadPtr, Linked
<1>3. low # {} => Highest(low) \in q.mask
  BY <1>1, HighestIn
<1>4. q.mask # {} => Highest(q.mask) \in q.mask
  BY <1>1, HighestIn
<1>. QED BY <1>2, <1>3, <1>4 DEF NextReadyThread

\* As long as no level is above 31 it is a foremost one, and none is found only if
\* no thread is ready.
LEMMA NextReadyHighest ==
    ASSUME NEW q \in ReadyQueues, NEW pri \in [Thread -> Level], RingsOK(q, pri), \A u \in Thread : pri[u] < 32,
           NEW t, t = NextReadyThread(q), NEW u \in Thread, Linked(q, u)
    PROVE  t \in Thread /\ pri[u] <= pri[t]
<1>1. q.mask \in SUBSET (0..63)
  BY LevelAssumption DEF ReadyQueues
<1>2. pri[u] \in q.mask
  BY DEF RingsOK, LinksOK, Linked
<1>3. \A p \in q.mask : q.readys[p] \in Thread /\ pri[q.readys[p]] = p
  BY NilAssumption DEF RingsOK, LinksOK, ReadyQueues, ThreadPtr
<1>4. \A p \in q.mask : p < 32
  BY <1>3
<1>5. PICK h : h = Highest(q.mask) /\ h \in q.mask /\ \A p \in q.mask : p <= h
  BY <1>1, <1>2, HighestIn
<1>6. {p \in q.mask : p < 32} = q.mask
  BY <1>4
<1>7. t = q.readys[h]
  BY <1>2, <1>5, <1>6 DEF NextReadyThread
<1>. QED BY <1>2, <1>3, <1>5, <1>7

\* An empty queue is sound.
LEMMA EmptyRings ==
    ASSUME NEW pri \in [Thread -> Level]
    PROVE  EmptyQueue \in ReadyQueues /\ RingsOK(EmptyQueue, pri) /\ \A t \in Thread : ~Linked(EmptyQueue, t)
<1>1. EmptyQueue \in ReadyQueues /\ LinksOK(EmptyQueue, pri) /\ \A t \in Thread : ~Linked(EmptyQueue, t)
  BY DEF EmptyQueue, ReadyQueues, ThreadPtr, LinksOK, Linked
<1>2. \A p \in Level : OnLevel(EmptyQueue, pri, p) = {}
  BY <1>1 DEF OnLevel
<1>3. OneRing(EmptyQueue, pri)
  BY <1>2 DEF OneRing
<1>. QED BY <1>1, <1>3 DEF RingsOK

\* Unlinking a thread that is on no ring changes nothing; in any case the thread is
\* off the rings afterwards and the others are where they were.
LEMMA UnlinkRings ==
    ASSUME NEW q \in ReadyQueues, NEW pri \in [Thread -> Level], RingsOK(q, pri), NEW t \in Thread,
           NEW r, r = DequeueThreadFromReady(q, t, pri[t])
    PROVE  r \in ReadyQueues /\ RingsOK(r, pri) /\ \A u \in Thread : Linked(r, u) <=> u # t /\ Linked(q, u)
<1>1. CASE Linked(q, t)
  BY <1>1, DequeueType, DequeueRings, DequeueLinked
<1>2. CASE ~Linked(q, t)
  <2>1. r = q
    BY <1>2 DEF DequeueThreadFromReady, DequeueFaults, Linked
  <2>. QED BY <2>1, <1>2
<1>. QED BY <1>1, <1>2

\* Appending an unlinked thread links it and leaves the others where they were.
LEMMA LinkRings ==
    ASSUME NEW q \in ReadyQueues, NEW pri \in [Thread -> Level], RingsOK(q, pri),
           NEW t \in Thread, ~Linked(q, t), NEW r, r = QueueThreadReady(q, t, pri[t])
    PROVE  r \in ReadyQueues /\ RingsOK(r, pri) /\ \A u \in Thread : Linked(r, u) <=> u = t \/ Linked(q, u)
<1>1. LinksOK(q, pri) /\ pri[t] \in Level
  BY DEF RingsOK
<1>. QED BY <1>1, QueueType, QueueRings, QueueLinked

\* A thread's level changes: if it is linked it moves to the ring of its new level.
LEMMA RequeueRings ==
    ASSUME NEW q \in ReadyQueues, NEW pri \in [Thread -> Level], RingsOK(q, pri),
           NEW t \in Thread, NEW level \in Level, NEW after, after = [pri EXCEPT ![t] = level],
           NEW r, r = IF Linked(q, t)
                      THEN QueueThreadReady(DequeueThreadFromReady(q, t, pri[t]), t, level) ELSE q
    PROVE  /\ r \in ReadyQueues /\ after \in [Thread -> Level] /\ RingsOK(r, after)
           /\ \A u \in Thread : Linked(r, u) <=> Linked(q, u)
<1>1. after \in [Thread -> Level] /\ after[t] = level
  OBVIOUS
<1>2. CASE ~Linked(q, t)
  BY <1>1, <1>2, RepriorRings
<1>3. CASE Linked(q, t)
  <2> DEFINE without == DequeueThreadFromReady(q, t, pri[t])
  <2>1. /\ without \in ReadyQueues /\ RingsOK(without, pri)
        /\ \A u \in Thread : Linked(without, u) <=> u # t /\ Linked(q, u)
    BY UnlinkRings
  <2> HIDE DEF without
  <2>2. RingsOK(without, after) /\ ~Linked(without, t)
    BY <2>1, RepriorRings
  <2>3. r = QueueThreadReady(without, t, after[t])
    BY <1>1, <1>3 DEF without
  <2>4. r \in ReadyQueues /\ RingsOK(r, after) /\ \A u \in Thread : Linked(r, u) <=> u = t \/ Linked(without, u)
    BY <1>1, <2>1, <2>2, <2>3, LinkRings
  <2>. QED BY <1>1, <1>3, <2>1, <2>4
<1>. QED BY <1>2, <1>3

-----------------------------------------------------------------------------
\* Whichever of its three ways reschedule takes, the rings stay sound, the same threads
\* are on them, and the thread switched to is one of those.
LEMMA RescheduleRings ==
    ASSUME readyQ \in ReadyQueues, real_priority \in [Thread -> Level], RingsOK(readyQ, real_priority),
           time \in [Thread -> 0..TimeSlice], crr_thread \in ThreadPtr, NEW left, Reschedule(left)
    PROVE  /\ readyQ' \in ReadyQueues /\ RingsOK(readyQ', real_priority)
           /\ time' \in [Thread -> 0..TimeSlice]
           /\ \A u \in Thread : Linked(readyQ', u) <=> Linked(readyQ, u)
           /\ \E newt \in ThreadPtr : SwitchContext(newt) /\ (newt # Nil => Linked(readyQ, newt))
<1> DEFINE ticked == Ticked(left)
           first  == NextReadyThread(readyQ)
           pri    == real_priority
<1>1. LinksOK(readyQ, pri)
  BY DEF RingsOK
<1>2. first = Nil \/ (first \in Thread /\ Linked(readyQ, first))
  BY <1>1, NextReadyFacts
<1>3. ticked \in [Thread -> 0..TimeSlice]
  BY TimeSliceAssumption DEF Ticked, TicksLeft, Reschedule, ThreadPtr
<1>4. RunFirst(ticked, first) \/ RotateFirst(ticked, first) \/ RunBelow(ticked, first)
  BY DEF Reschedule
<1> HIDE DEF ticked, first
<1>5. CASE RunFirst(ticked, first)
  BY <1>2, <1>3, <1>5 DEF RunFirst, ThreadPtr
<1>6. CASE RotateFirst(ticked, first)
  <2>1. /\ first \in Thread /\ Linked(readyQ, first)
        /\ readyQ' = RotateReady(readyQ, first, pri[first])
        /\ time' \in [Thread -> 0..TimeSlice]
        /\ SwitchContext(readyQ.next[first])
    BY <1>2, <1>3, <1>6, TimeSliceAssumption DEF RotateFirst
  <2>2. /\ readyQ' \in ReadyQueues /\ RingsOK(readyQ', pri)
        /\ \A u \in Thread : Linked(readyQ', u) <=> Linked(readyQ, u)
    BY <1>1, <2>1, RotateRings
  <2>3. readyQ.next[first] \in Thread /\ Linked(readyQ, readyQ.next[first])
    BY <1>1, <2>1, NilAssumption DEF LinksOK, Linked, ReadyQueues, ThreadPtr
  <2>. QED BY <2>1, <2>2, <2>3 DEF ThreadPtr
<1>7. CASE RunBelow(ticked, first)
  <2> DEFINE without == DequeueThreadFromReady(readyQ, first, pri[first])
             newt    == NextReadyThread(without)
  <2>1. /\ first \in Thread /\ Linked(readyQ, first)
        /\ readyQ' = QueueThreadReady(without, first, pri[first])
        /\ time' \in [Thread -> 0..TimeSlice]
        /\ SwitchContext(newt)
    BY <1>2, <1>3, <1>7, TimeSliceAssumption DEF RunBelow
  <2>2. /\ without \in ReadyQueues /\ RingsOK(without, pri)
        /\ \A u \in Thread : Linked(without, u) <=> u # first /\ Linked(readyQ, u)
    BY <2>1, UnlinkRings
  <2> HIDE DEF without
  <2>3. newt = Nil \/ (newt \in Thread /\ Linked(without, newt))
    BY <2>2, NextReadyFacts
  <2> HIDE DEF newt
  <2>4. /\ readyQ' \in ReadyQueues /\ RingsOK(readyQ', pri)
        /\ \A u \in Thread : Linked(readyQ', u) <=> u = first \/ Linked(without, u)
    BY <2>1, <2>2, LinkRings
  <2>. QED BY <2>1, <2>2, <2>3, <2>4 DEF ThreadPtr
<1>. QED BY <1>4, <1>5, <1>6, <1>7

-----------------------------------------------------------------------------
(***************************************************************************)
(* The rings as sequences.  Ring walks a level from its first thread for   *)
(* as many steps as the level has threads; because the threads of a level  *)
(* form one ring the walk meets each of them once, and no other sequence   *)
(* lists them that way.  So what an operation does to a ring is shown by   *)
(* checking that the changed sequence lists the changed ring.              *)
(***************************************************************************)
\* s lists the threads of level p once each, the first one first and each one's
\* successor next.
Lists(s, q, pri, p) ==
    /\ s \in Seq(Thread)
    /\ \A i \in 1..Len(s) : s[i] \in OnLevel(q, pri, p)
    /\ \A t \in OnLevel(q, pri, p) : \E i \in 1..Len(s) : s[i] = t
    /\ \A i, j \in 1..Len(s) : s[i] = s[j] => i = j
    /\ Len(s) > 0 => s[1] = q.readys[p]
    /\ \A i \in 1..(Len(s) - 1) : s[i + 1] = q.next[s[i]]

\* The walk that Ring takes: at[i] is met at its i-th step.
IsWalk(at, n, q, p) == at = [i \in 1..n |-> IF i = 1 THEN q.readys[p] ELSE q.next[at[i - 1]]]

\* The successor of a thread on a level is on that level.
LEMMA NextOnLevel ==
    ASSUME NEW q \in ReadyQueues, NEW pri \in [Thread -> Level], LinksOK(q, pri), NEW p \in Level
    PROVE  /\ \A t \in OnLevel(q, pri, p) :
                  /\ q.next[t] \in OnLevel(q, pri, p) /\ q.previous[t] \in OnLevel(q, pri, p)
                  /\ q.previous[q.next[t]] = t /\ q.next[q.previous[t]] = t
           /\ OnLevel(q, pri, p) # {} <=> q.readys[p] # Nil
           /\ OnLevel(q, pri, p) # {} => q.readys[p] \in OnLevel(q, pri, p)
<1>1. ASSUME NEW t \in OnLevel(q, pri, p)
      PROVE  /\ q.next[t] \in OnLevel(q, pri, p) /\ q.previous[t] \in OnLevel(q, pri, p)
             /\ q.previous[q.next[t]] = t /\ q.next[q.previous[t]] = t /\ q.readys[p] # Nil
  <2>1. t \in Thread /\ q.next[t] # Nil /\ q.previous[t] # Nil /\ pri[t] = p
    BY DEF OnLevel, Linked, LinksOK
  <2>2. q.next[t] \in Thread /\ q.previous[t] \in Thread
    BY <2>1 DEF ReadyQueues, ThreadPtr
  <2>3. /\ q.previous[q.next[t]] = t /\ q.next[q.previous[t]] = t
        /\ pri[q.next[t]] = p /\ pri[q.previous[t]] = p /\ q.readys[p] # Nil
    BY <2>1 DEF LinksOK
  <2>. QED BY <2>1, <2>2, <2>3, NilAssumption DEF OnLevel, Linked
<1>2. q.readys[p] # Nil => q.readys[p] \in OnLevel(q, pri, p)
  BY DEF LinksOK, OnLevel, Linked, ReadyQueues, ThreadPtr
<1>. QED BY <1>1, <1>2

\* The walk exists, and all of it is on the level.
LEMMA WalkExists ==
    ASSUME NEW q \in ReadyQueues, NEW pri \in [Thread -> Level], LinksOK(q, pri), NEW p \in Level,
           NEW n \in Nat, n > 0 => OnLevel(q, pri, p) # {}
    PROVE  \E at : IsWalk(at, n, q, p)
<1> DEFINE S == OnLevel(q, pri, p)
<1>1. CASE n = 0
  <2> DEFINE at == [i \in 1..n |-> Nil]
  <2>1. at = [i \in 1..n |-> IF i = 1 THEN q.readys[p] ELSE q.next[at[i - 1]]]
    BY <1>1
  <2>. QED BY <2>1 DEF IsWalk
<1>2. CASE n # 0
  <2>1. S # {} /\ q.readys[p] \in S /\ n - 1 \in Nat /\ \A t \in S : q.next[t] \in S
    BY <1>2, NextOnLevel
  <2> DEFINE h == [x \in (1..(n - 1)) \X S |-> q.next[x[2]]]
  <2> HIDE DEF S
  <2>2. h \in [(1..(n - 1)) \X S -> S]
    BY <2>1
  <2>a. \A i \in 1..(n - 1), t \in S : h[<<i, t>>] = q.next[t]
    OBVIOUS
  <2> HIDE DEF h
  <2>3. PICK g \in [0..(n - 1) -> S] : IsLoop(g, n - 1, q.readys[p], h)
    BY <2>1, <2>2, LoopExists
  <2> DEFINE at == [i \in 1..n |-> g[i - 1]]
  <2>4. ASSUME NEW i \in 1..n PROVE at[i] = IF i = 1 THEN q.readys[p] ELSE q.next[at[i - 1]]
    <3>1. i - 1 \in 0..(n - 1) /\ (i - 1 = 0 <=> i = 1)
      OBVIOUS
    <3>2. g[i - 1] = IF i - 1 = 0 THEN q.readys[p] ELSE h[<<i - 1, g[(i - 1) - 1]>>]
      BY <2>3, <3>1 DEF IsLoop
    <3>3. CASE i = 1
      BY <3>1, <3>2, <3>3
    <3>4. CASE i # 1
      <4>1. i - 1 \in 1..(n - 1) /\ (i - 1) - 1 \in 0..(n - 1) /\ i - 1 \in 1..n
        BY <3>4
      <4>2. g[(i - 1) - 1] \in S
        BY <4>1
      <4>3. at[i - 1] = g[(i - 1) - 1] /\ at[i] = g[i - 1]
        BY <4>1
      <4>. QED BY <2>a, <3>1, <3>2, <3>4, <4>1, <4>2, <4>3
    <3>. QED BY <3>3, <3>4
  <2>5. at = [i \in 1..n |-> IF i = 1 THEN q.readys[p] ELSE q.next[at[i - 1]]]
    BY <2>4, Zenon
  <2>. QED BY <2>5 DEF IsWalk
<1>. QED BY <1>1, <1>2

\* Ring is such a walk.
LEMMA RingIsWalk ==
    ASSUME NEW q \in ReadyQueues, NEW pri \in [Thread -> Level], LinksOK(q, pri), NEW p \in Level,
           NEW n \in Nat, n = Cardinality(OnLevel(q, pri, p)), n > 0 => OnLevel(q, pri, p) # {},
           NEW s, s = Ring(q, pri, p)
    PROVE  IsWalk(s, n, q, p)
<1> DEFINE at == CHOOSE at : at = [i \in 1..n |-> IF i = 1 THEN q.readys[p] ELSE q.next[at[i - 1]]]
<1>1. at = [i \in 1..n |-> IF i = 1 THEN q.readys[p] ELSE q.next[at[i - 1]]]
  <2>1. \E f : f = [i \in 1..n |-> IF i = 1 THEN q.readys[p] ELSE q.next[f[i - 1]]]
    BY WalkExists DEF IsWalk
  <2>. QED BY <2>1, Zenon
<1>2. s = [i \in 1..n |-> at[i]]
  BY DEF Ring
<1> HIDE DEF at
<1>3. s = at
  BY <1>1, <1>2
<1>. QED BY <1>1, <1>3 DEF IsWalk

\* A walk of as many steps as there are threads on the level meets none twice: else
\* what it met first would come back, and fewer threads would close a ring.
LEMMA WalkOnce ==
    ASSUME NEW q \in ReadyQueues, NEW pri \in [Thread -> Level], RingsOK(q, pri), NEW p \in Level,
           IsFiniteSet(Thread), NEW n \in Nat, n = Cardinality(OnLevel(q, pri, p)),
           NEW s, IsWalk(s, n, q, p), \A i \in 1..n : s[i] \in OnLevel(q, pri, p),
           NEW i \in 1..n, NEW j \in 1..n, s[i] = s[j], i < j
    PROVE  FALSE
<1>0. LinksOK(q, pri) /\ OneRing(q, pri)
  BY DEF RingsOK
<1>1. \A k \in 1..n : k # 1 => k - 1 \in 1..n /\ s[k] = q.next[s[k - 1]]
  BY DEF IsWalk
<1>2. \A k \in 1..n : k # 1 => s[k - 1] = q.previous[s[k]]
  BY <1>0, <1>1, NextOnLevel
<1> DEFINE Early == {k \in 1..n : \E l \in 1..n : k < l /\ s[k] = s[l]}
<1>3. i \in Early /\ Early \in SUBSET Nat
  OBVIOUS
<1>4. PICK k \in Early : \A m \in Early : k <= m
  <2> HIDE DEF Early
  <2>. QED BY <1>3, LeastNat
<1>5. PICK l \in 1..n : k < l /\ s[k] = s[l] /\ k \in 1..n
  OBVIOUS
<1>6. k = 1
  <2> SUFFICES ASSUME k # 1 PROVE FALSE
    OBVIOUS
  <2>1. k - 1 \in 1..n /\ l - 1 \in 1..n /\ k - 1 < l - 1 /\ l # 1 /\ ~(k <= k - 1)
    BY <1>5
  <2>2. s[k - 1] = s[l - 1]
    BY <1>2, <1>5, <2>1
  <2>3. k - 1 \in Early
    BY <2>1, <2>2
  <2>. QED BY <1>4, <2>1, <2>3
<1> HIDE DEF Early
<1>7. PICK m \in Nat : m = l - 1 /\ m < n /\ m >= 1
  BY <1>5, <1>6
<1> DEFINE T == {s[x] : x \in 1..m}
           f == [x \in 1..m |-> s[x]]
<1>8. T \in SUBSET OnLevel(q, pri, p) /\ T # {}
  <2>1. \A x \in 1..m : x \in 1..n
    BY <1>7
  <2>2. 1 \in 1..m
    BY <1>7
  <2>. QED BY <2>1, <2>2
<1>9. \A t \in T : q.next[t] \in T
  <2>1. SUFFICES ASSUME NEW x \in 1..m PROVE q.next[s[x]] \in T
    OBVIOUS
  <2>2. x + 1 \in 1..n /\ x + 1 # 1 /\ (x + 1) - 1 = x
    BY <1>7
  <2>3. s[x + 1] = q.next[s[x]]
    BY <1>1, <2>2
  <2>4. CASE x = m
    <3>1. x + 1 = l /\ 1 \in 1..m
      BY <1>5, <1>7, <2>4
    <3>2. s[x + 1] = s[1]
      BY <1>5, <1>6, <3>1
    <3>. QED BY <2>3, <3>1, <3>2
  <2>5. CASE x # m
    <3>1. x + 1 \in 1..m
      BY <1>7, <2>5
    <3>. QED BY <2>3, <3>1
  <2>. QED BY <2>4, <2>5
<1>10. T = OnLevel(q, pri, p)
  BY <1>0, <1>8, <1>9 DEF OneRing
<1>11. f \in Surjection(1..m, T)
  BY DEF Surjection
<1>12. Cardinality(T) <= m
  <2> HIDE DEF T, f
  <2>1. ExistsSurjection(1..m, T)
    BY <1>11 DEF ExistsSurjection
  <2>. QED BY <2>1, FS_SurjCardinalityBound
<1>. QED BY <1>7, <1>10, <1>12

\* The ring of a level, walked from its first thread, lists the level's threads.
LEMMA RingLists ==
    ASSUME NEW q \in ReadyQueues, NEW pri \in [Thread -> Level], RingsOK(q, pri), NEW p \in Level,
           IsFiniteSet(Thread)
    PROVE  Lists(Ring(q, pri, p), q, pri, p)
<1>0. LinksOK(q, pri)
  BY DEF RingsOK
<1>s. PICK s : s = Ring(q, pri, p)
  OBVIOUS
<1>S. PICK S : S = OnLevel(q, pri, p) /\ S \in SUBSET Thread
  BY DEF OnLevel
<1>1. IsFiniteSet(S)
  BY <1>S, FS_Subset
<1>2. PICK n \in Nat : n = Cardinality(S)
  BY <1>1, FS_CardinalityType
<1>3. n > 0 => S # {}
  BY <1>1, <1>2, FS_EmptySet
<1>4. IsWalk(s, n, q, p)
  BY <1>0, <1>s, <1>S, <1>2, <1>3, RingIsWalk
<1>5. /\ \A i \in 1..n : s[i] = IF i = 1 THEN q.readys[p] ELSE q.next[s[i - 1]]
      /\ DOMAIN s = 1..n /\ s = [i \in 1..n |-> s[i]]
  BY <1>4 DEF IsWalk
<1>6. /\ \A t \in S : q.next[t] \in S
      /\ S # {} => q.readys[p] \in S
  BY <1>0, <1>S, NextOnLevel
<1>7. \A i \in 1..n : s[i] \in S
  <2> DEFINE P == {i \in 0..n : i # 0 => s[i] \in S}
  <2>1. 0 \in P
    OBVIOUS
  <2>2. ASSUME NEW i \in 1..n, i - 1 \in P PROVE i \in P
    <3>1. CASE i = 1
      BY <1>3, <1>5, <1>6, <3>1
    <3>2. CASE i # 1
      <4>1. i - 1 # 0 /\ i \in 0..n
        BY <3>2
      <4>2. s[i - 1] \in S
        BY <2>2, <4>1
      <4>3. s[i] = q.next[s[i - 1]]
        BY <1>5, <3>2
      <4>. QED BY <1>6, <4>1, <4>2, <4>3
    <3>. QED BY <3>1, <3>2
  <2>3. P \in SUBSET (0..n)
    OBVIOUS
  <2>4. P = 0..n
    <3> HIDE DEF P
    <3>. QED BY <2>1, <2>2, <2>3, UpTo
  <2>. QED BY <2>4
<1>8. s \in Seq(Thread) /\ Len(s) = n
  BY <1>S, <1>5, <1>7
<1>9. ASSUME NEW i \in 1..n, NEW j \in 1..n, s[i] = s[j] PROVE i = j
  <2>1. ~(i < j)
    BY <1>S, <1>2, <1>4, <1>7, <1>9, WalkOnce
  <2>2. ~(j < i)
    BY <1>S, <1>2, <1>4, <1>7, <1>9, WalkOnce
  <2>. QED BY <2>1, <2>2
<1>10. \A t \in S : \E i \in 1..n : s[i] = t
  <2>1. s \in [1..n -> S]
    BY <1>5, <1>7
  <2>2. s \in Injection(1..n, S)
    BY <2>1, <1>9 DEF Injection, IsInjective
  <2>3. Cardinality(1..n) = n
    <3>1. Cardinality(1..n) = IF 1 > n THEN 0 ELSE n - 1 + 1
      BY FS_Interval
    <3>. QED BY <3>1
  <2>4. s \in Surjection(1..n, S)
    BY <1>1, <1>2, <2>2, <2>3, FS_Injection
  <2>. QED BY <2>4 DEF Surjection
<1>11. n > 0 => s[1] = q.readys[p]
  BY <1>5
<1>12. \A i \in 1..(n - 1) : s[i + 1] = q.next[s[i]]
  <2>1. \A i \in 1..(n - 1) : i + 1 \in 1..n /\ i + 1 # 1 /\ (i + 1) - 1 = i
    OBVIOUS
  <2>. QED BY <1>5, <2>1
<1>13. Lists(s, q, pri, p)
  BY <1>S, <1>7, <1>8, <1>9, <1>10, <1>11, <1>12 DEF Lists
<1>. QED BY <1>s, <1>13

\* There is one such list.
LEMMA OneList ==
    ASSUME NEW q, NEW pri, NEW p, NEW s, NEW r, Lists(s, q, pri, p), Lists(r, q, pri, p)
    PROVE  s = r
<1>S. PICK S : S = OnLevel(q, pri, p)
  OBVIOUS
<1>1. PICK m \in Nat, n \in Nat : m = Len(s) /\ n = Len(r)
  BY DEF Lists
<1>a. s \in Seq(Thread) /\ r \in Seq(Thread)
  BY DEF Lists
<1>b. /\ \A i \in 1..m : s[i] \in S
      /\ \A t \in S : \E i \in 1..m : s[i] = t
      /\ \A i, j \in 1..m : s[i] = s[j] => i = j
  BY <1>S, <1>1 DEF Lists
<1>c. /\ \A i \in 1..n : r[i] \in S
      /\ \A t \in S : \E i \in 1..n : r[i] = t
      /\ \A i, j \in 1..n : r[i] = r[j] => i = j
  BY <1>S, <1>1 DEF Lists
<1>2. m = n
  <2> DEFINE f == [i \in 1..m |-> s[i]]
             g == [i \in 1..n |-> r[i]]
  <2>1. f \in Bijection(1..m, S)
    BY <1>b DEF Bijection, Injection, IsInjective, Surjection
  <2>2. g \in Bijection(1..n, S)
    BY <1>c DEF Bijection, Injection, IsInjective, Surjection
  <2>3. Cardinality(S) = m /\ Cardinality(S) = n
    BY <2>1, <2>2, FS_CountingElements DEF ExistsBijection
  <2>. QED BY <2>3
<1>3. /\ n > 0 => s[1] = r[1]
      /\ \A i \in 1..(n - 1) : s[i + 1] = q.next[s[i]] /\ r[i + 1] = q.next[r[i]]
  BY <1>1, <1>2 DEF Lists
<1>4. \A i \in 1..n : s[i] = r[i]
  <2> DEFINE P == {i \in 0..n : i # 0 => s[i] = r[i]}
  <2>1. 0 \in P /\ P \in SUBSET (0..n)
    OBVIOUS
  <2>2. ASSUME NEW i \in 1..n, i - 1 \in P PROVE i \in P
    <3>1. CASE i = 1
      BY <1>3, <3>1
    <3>2. CASE i # 1
      <4>1. i - 1 # 0 /\ i - 1 \in 1..(n - 1) /\ (i - 1) + 1 = i /\ i \in 0..n
        BY <3>2
      <4>2. s[i - 1] = r[i - 1]
        BY <2>2, <4>1
      <4>3. s[i] = q.next[s[i - 1]] /\ r[i] = q.next[r[i - 1]]
        BY <1>3, <4>1
      <4>. QED BY <4>1, <4>2, <4>3
    <3>. QED BY <3>1, <3>2
  <2>4. P = 0..n
    <3> HIDE DEF P
    <3>. QED BY <2>1, <2>2, UpTo
  <2>. QED BY <2>4
<1>. QED BY <1>a, <1>1, <1>2, <1>4, SeqEqual

\* Behind the last thread of the list the ring goes on with the first.
LEMMA ListCloses ==
    ASSUME NEW q \in ReadyQueues, NEW pri \in [Thread -> Level], LinksOK(q, pri), NEW p \in Level,
           NEW s, Lists(s, q, pri, p), NEW n \in Nat, n = Len(s), n > 0
    PROVE  q.next[s[n]] = s[1] /\ s[n] = q.previous[s[1]] /\ s[1] = q.readys[p]
<1>S. PICK S : S = OnLevel(q, pri, p)
  OBVIOUS
<1>1. /\ \A i \in 1..n : s[i] \in S
      /\ \A t \in S : \E i \in 1..n : s[i] = t
      /\ \A i, j \in 1..n : s[i] = s[j] => i = j
      /\ \A i \in 1..(n - 1) : s[i + 1] = q.next[s[i]]
      /\ s[1] = q.readys[p]
  BY <1>S DEF Lists
<1>2. 1 \in 1..n /\ n \in 1..n
  OBVIOUS
<1>3. \A t \in S : q.previous[t] \in S /\ q.next[q.previous[t]] = t
  BY <1>S, NextOnLevel
<1>4. PICK k \in 1..n : s[k] = q.previous[s[1]]
  BY <1>1, <1>2, <1>3
<1>5. q.next[s[k]] = s[1]
  BY <1>1, <1>2, <1>3, <1>4
<1>6. k = n
  <2> SUFFICES ASSUME k # n PROVE FALSE
    OBVIOUS
  <2>1. k \in 1..(n - 1) /\ k + 1 \in 1..n /\ k + 1 # 1
    OBVIOUS
  <2>2. s[k + 1] = s[1]
    BY <1>1, <1>5, <2>1
  <2>. QED BY <1>1, <1>2, <2>1, <2>2
<1>. QED BY <1>1, <1>4, <1>5, <1>6

\* A level whose threads, first thread and successors are as before is listed as before.
LEMMA SameRing ==
    ASSUME NEW q \in ReadyQueues, NEW pri \in [Thread -> Level], RingsOK(q, pri), NEW p \in Level,
           NEW r \in ReadyQueues, NEW new \in [Thread -> Level], RingsOK(r, new), IsFiniteSet(Thread),
           OnLevel(r, new, p) = OnLevel(q, pri, p), r.readys[p] = q.readys[p],
           \A u \in OnLevel(q, pri, p) : r.next[u] = q.next[u]
    PROVE  Ring(r, new, p) = Ring(q, pri, p)
<1>s. PICK s, v : s = Ring(q, pri, p) /\ v = Ring(r, new, p)
  OBVIOUS
<1>1. Lists(s, q, pri, p) /\ Lists(v, r, new, p)
  BY <1>s, RingLists
<1>2. Lists(s, r, new, p)
  <2>1. \A i \in 1..(Len(s) - 1) : i \in 1..Len(s)
    BY <1>1 DEF Lists
  <2>. QED BY <1>1, <2>1 DEF Lists
<1>3. s = v
  BY <1>1, <1>2, OneList
<1>. QED BY <1>s, <1>3

\* queue_thread_ready puts an unlinked thread at the end of its level's ring, and the
\* rings of the other levels are as they were.
LEMMA QueueAppends ==
    ASSUME NEW q \in ReadyQueues, NEW pri \in [Thread -> Level], RingsOK(q, pri), IsFiniteSet(Thread),
           NEW t \in Thread, ~Linked(q, t), NEW r, r = QueueThreadReady(q, t, pri[t]), NEW p \in Level
    PROVE  Ring(r, pri, p) = IF p = pri[t] THEN Append(Ring(q, pri, p), t) ELSE Ring(q, pri, p)
<1>0. LinksOK(q, pri)
  BY DEF RingsOK
<1>1. r \in ReadyQueues /\ RingsOK(r, pri) /\ \A u \in Thread : Linked(r, u) <=> u = t \/ Linked(q, u)
  BY LinkRings
<1>2. PICK first : first = q.readys[pri[t]]
  OBVIOUS
<1>3. first = Nil => /\ r.readys = [q.readys EXCEPT ![pri[t]] = t] /\ r.next = [q.next EXCEPT ![t] = t]
  BY <1>2 DEF QueueThreadReady
<1>4. first # Nil => /\ r.readys = q.readys /\ r.next = [q.next EXCEPT ![t] = first, ![q.previous[first]] = t]
  BY <1>2 DEF QueueThreadReady
<1>5. /\ q.next \in [Thread -> ThreadPtr] /\ q.previous \in [Thread -> ThreadPtr]
      /\ q.readys \in [Level -> ThreadPtr] /\ pri[t] \in Level
  BY DEF ReadyQueues
<1>6. first # Nil => /\ first \in OnLevel(q, pri, pri[t]) /\ q.previous[first] \in OnLevel(q, pri, pri[t])
  BY <1>0, <1>2, <1>5, NextOnLevel
<1>7. \A x \in Level : t \notin OnLevel(q, pri, x) /\ OnLevel(q, pri, x) \subseteq Thread
  BY DEF OnLevel
<1>8. CASE p # pri[t]
  <2>1. OnLevel(r, pri, p) = OnLevel(q, pri, p)
    BY <1>1, <1>8 DEF OnLevel
  <2>2. r.readys[p] = q.readys[p]
    BY <1>3, <1>4, <1>5, <1>8
  <2>3. ASSUME NEW u \in OnLevel(q, pri, p) PROVE r.next[u] = q.next[u]
    <3>1. u \in Thread /\ u # t /\ (first # Nil => u # q.previous[first])
      BY <1>6, <1>7, <1>8 DEF OnLevel
    <3>. QED BY <1>3, <1>4, <1>5, <3>1
  <2>4. Ring(r, pri, p) = Ring(q, pri, p)
    BY <1>1, <2>1, <2>2, <2>3, SameRing
  <2>. QED BY <1>8, <2>4
<1>9. CASE p = pri[t]
  <2>s. PICK s, S : s = Ring(q, pri, p) /\ Lists(s, q, pri, p) /\ S = OnLevel(q, pri, p)
    BY RingLists
  <2>n. PICK n \in Nat : n = Len(s) /\ s \in Seq(Thread)
    BY <2>s DEF Lists
  <2>v. PICK v : v = Append(s, t)
    OBVIOUS
  <2>1. /\ v \in Seq(Thread) /\ Len(v) = n + 1 /\ v[n + 1] = t
        /\ \A i \in 1..n : v[i] = s[i]
    BY <2>n, <2>v
  <2>2. OnLevel(r, pri, p) = S \cup {t}
    BY <1>1, <1>9, <2>s DEF OnLevel
  <2>3. /\ \A i \in 1..n : s[i] \in S /\ s[i] # t
        /\ \A u \in S : \E i \in 1..n : s[i] = u
        /\ \A i, j \in 1..n : s[i] = s[j] => i = j
        /\ \A i \in 1..(n - 1) : s[i + 1] = q.next[s[i]]
        /\ n > 0 => s[1] = q.readys[p]
    BY <1>7, <2>s, <2>n DEF Lists
  <2>4. \A i \in 1..(n + 1) : i = n + 1 \/ i \in 1..n
    BY <2>n
  <2>5. n > 0 <=> first # Nil
    <3>1. S # {} <=> first # Nil
      BY <1>0, <1>2, <1>9, <2>s, NextOnLevel
    <3>2. n > 0 => 1 \in 1..n
      OBVIOUS
    <3>3. S # {} => n > 0
      BY <2>3
    <3>. QED BY <2>3, <3>1, <3>2, <3>3
  <2>6. \A i \in 1..(n + 1) : v[i] \in S \cup {t}
    BY <2>1, <2>3, <2>4
  <2>7. ASSUME NEW u \in S \cup {t} PROVE \E i \in 1..(n + 1) : v[i] = u
    <3>1. CASE u = t
      <4>1. n + 1 \in 1..(n + 1)
        OBVIOUS
      <4>. QED BY <2>1, <3>1, <4>1
    <3>2. CASE u # t
      <4>1. PICK i \in 1..n : s[i] = u
        BY <2>3, <3>2
      <4>2. i \in 1..(n + 1)
        OBVIOUS
      <4>. QED BY <2>1, <4>1, <4>2
    <3>. QED BY <3>1, <3>2
  <2>8. \A i, j \in 1..(n + 1) : v[i] = v[j] => i = j
    BY <2>1, <2>3, <2>4
  <2>9. v[1] = r.readys[p]
    <3>1. CASE n = 0
      BY <1>3, <1>5, <1>9, <2>1, <2>5, <3>1
    <3>2. CASE n # 0
      <4>1. n > 0 /\ 1 \in 1..n
        BY <3>2
      <4>. QED BY <1>4, <2>1, <2>3, <2>5, <4>1
    <3>. QED BY <3>1, <3>2
  <2>10. ASSUME NEW i \in 1..n PROVE v[i + 1] = r.next[v[i]]
    <3>0. n > 0 /\ n \in 1..n
      OBVIOUS
    <3>1. /\ s[n] = q.previous[first] /\ s[n] \in Thread /\ first \in Thread
          /\ r.next = [q.next EXCEPT ![t] = first, ![q.previous[first]] = t]
      <4>1. s[n] = q.previous[s[1]] /\ s[1] = q.readys[p]
        BY <1>0, <2>s, <2>n, <3>0, ListCloses
      <4>2. s[n] \in S /\ first \in S
        BY <1>6, <1>9, <2>3, <2>5, <2>s, <3>0
      <4>3. S \subseteq Thread
        BY <1>7, <2>s
      <4>. QED BY <1>2, <1>4, <1>9, <2>5, <3>0, <4>1, <4>2, <4>3
    <3>2. CASE i = n
      <4>1. v[i] = s[n] /\ v[i + 1] = t
        BY <2>1, <3>2, <3>0
      <4>2. r.next[s[n]] = t
        BY <1>5, <3>1
      <4>. QED BY <4>1, <4>2
    <3>3. CASE i # n
      <4>1. i \in 1..(n - 1) /\ i + 1 \in 1..n
        BY <3>3
      <4>2. v[i] = s[i] /\ v[i + 1] = s[i + 1] /\ s[i + 1] = q.next[s[i]]
        BY <2>1, <2>3, <4>1
      <4>3. s[i] # t /\ s[i] # s[n] /\ s[i] \in Thread
        <5>1. s[i] \in S /\ S \subseteq Thread
          BY <1>7, <2>3, <2>s
        <5>. QED BY <2>3, <3>0, <3>3, <5>1
      <4>4. r.next[s[i]] = q.next[s[i]]
        BY <1>5, <3>1, <4>3
      <4>. QED BY <4>2, <4>4
    <3>. QED BY <3>2, <3>3
  <2>11. Lists(v, r, pri, p)
    <3>1. (n + 1) - 1 = n
      OBVIOUS
    <3>. QED BY <2>1, <2>2, <2>6, <2>7, <2>8, <2>9, <2>10, <3>1 DEF Lists
  <2>12. Ring(r, pri, p) = v
    <3>1. Lists(Ring(r, pri, p), r, pri, p)
      BY <1>1, RingLists
    <3>. QED BY <2>11, <3>1, OneList
  <2>. QED BY <1>9, <2>12, <2>v, <2>s
<1>. QED BY <1>8, <1>9

\* dequeue_thread_from_ready takes a linked thread out of its level's ring, and nothing
\* else is moved.
LEMMA DequeueRemoves ==
    ASSUME NEW q \in ReadyQueues, NEW pri \in [Thread -> Level], RingsOK(q, pri), IsFiniteSet(Thread),
           NEW t \in Thread, Linked(q, t), NEW r, r = DequeueThreadFromReady(q, t, pri[t]), NEW p \in Level,
           NEW s, s = Ring(q, pri, p)
    PROVE  /\ p # pri[t] => Ring(r, pri, p) = s
           /\ p = pri[t] => /\ \E k \in 1..Len(s) : s[k] = t
                            /\ \A k \in 1..Len(s) : s[k] = t => Ring(r, pri, p) = Removal(s, k)
<1>0. LinksOK(q, pri)
  BY DEF RingsOK
<1>1. r \in ReadyQueues /\ RingsOK(r, pri) /\ \A u \in Thread : Linked(r, u) <=> u # t /\ Linked(q, u)
  BY UnlinkRings
<1>2. PICK n, v : n = q.next[t] /\ v = q.previous[t]
  OBVIOUS
<1>3. /\ pri[t] \in q.mask /\ ~DequeueFaults(q, t, pri[t]) /\ n \in Thread /\ v \in Thread
      /\ n = t <=> v = t
  BY <1>2, LinkedFacts
<1>4. n = t => r.readys = [q.readys EXCEPT ![pri[t]] = Nil] /\ r.next = [q.next EXCEPT ![t] = Nil]
  BY <1>2, <1>3 DEF DequeueThreadFromReady
<1>5. n # t => /\ r.readys = IF q.readys[pri[t]] = t THEN [q.readys EXCEPT ![pri[t]] = n] ELSE q.readys
               /\ r.next = [q.next EXCEPT ![v] = n, ![t] = Nil]
  BY <1>2, <1>3 DEF DequeueThreadFromReady
<1>6. /\ q.next \in [Thread -> ThreadPtr] /\ q.previous \in [Thread -> ThreadPtr]
      /\ q.readys \in [Level -> ThreadPtr] /\ pri[t] \in Level
  BY DEF ReadyQueues
<1>7. t \in OnLevel(q, pri, pri[t]) /\ \A x \in Level : OnLevel(q, pri, x) \subseteq Thread
  BY DEF OnLevel
<1>8. v \in OnLevel(q, pri, pri[t]) /\ q.next[v] = t
  BY <1>0, <1>2, <1>6, <1>7, NextOnLevel
<1>a. Lists(s, q, pri, p)
  BY RingLists
<1>9. ASSUME p # pri[t] PROVE Ring(r, pri, p) = s
  <2>1. OnLevel(r, pri, p) = OnLevel(q, pri, p)
    BY <1>1, <1>9 DEF OnLevel
  <2>2. r.readys[p] = q.readys[p]
    BY <1>4, <1>5, <1>6, <1>9
  <2>3. ASSUME NEW u \in OnLevel(q, pri, p) PROVE r.next[u] = q.next[u]
    <3>1. u \in Thread /\ u # t /\ u # v
      BY <1>7, <1>8, <1>9 DEF OnLevel
    <3>. QED BY <1>3, <1>4, <1>5, <1>6, <3>1
  <2>. QED BY <1>1, <2>1, <2>2, <2>3, SameRing
<1>10. ASSUME p = pri[t] PROVE \E k \in 1..Len(s) : s[k] = t
  BY <1>7, <1>10, <1>a DEF Lists
<1>11. ASSUME p = pri[t], NEW k \in 1..Len(s), s[k] = t PROVE Ring(r, pri, p) = Removal(s, k)
  <2>n. PICK l \in Nat : l = Len(s) /\ s \in Seq(Thread) /\ k \in 1..l
    BY <1>a DEF Lists
  <2>S. PICK S : S = OnLevel(q, pri, p) /\ S \subseteq Thread
    BY <1>7
  <2>3. /\ \A i \in 1..l : s[i] \in S /\ s[i] \in Thread
        /\ \A u \in S : \E i \in 1..l : s[i] = u
        /\ \A i, j \in 1..l : s[i] = s[j] => i = j
        /\ \A i \in 1..(l - 1) : s[i + 1] = q.next[s[i]]
        /\ l > 0 => s[1] = q.readys[p]
    BY <1>a, <2>n, <2>S DEF Lists
  <2>c. PICK c : c = Removal(s, k)
    OBVIOUS
  <2>1. /\ c \in Seq(Thread) /\ Len(c) = l - 1
        /\ \A j \in 1..(l - 1) : c[j] = IF j < k THEN s[j] ELSE s[j + 1]
    BY <2>c, <2>n, RemovedAt
  <2>2. OnLevel(r, pri, p) = S \ {t}
    BY <1>1, <2>S DEF OnLevel
  <2>4. ASSUME NEW j \in 1..(l - 1) PROVE c[j] \in S \ {t}
    <3>1. j \in 1..l /\ j + 1 \in 1..l /\ (j < k => j # k) /\ (~(j < k) => j + 1 # k)
      BY <2>n
    <3>2. s[j] \in S /\ s[j + 1] \in S /\ (j < k => s[j] # t) /\ (~(j < k) => s[j + 1] # t)
      BY <1>11, <2>3, <2>n, <3>1
    <3>. QED BY <2>1, <3>2
  <2>5. ASSUME NEW u \in S \ {t} PROVE \E j \in 1..(l - 1) : c[j] = u
    <3>1. PICK i \in 1..l : s[i] = u /\ i # k
      BY <1>11, <2>3
    <3>2. CASE i < k
      <4>1. i \in 1..(l - 1)
        BY <2>n, <3>2
      <4>. QED BY <2>1, <3>1, <3>2, <4>1
    <3>3. CASE ~(i < k)
      <4>1. i - 1 \in 1..(l - 1) /\ ~(i - 1 < k) /\ (i - 1) + 1 = i
        BY <2>n, <3>1, <3>3
      <4>2. c[i - 1] = s[i]
        BY <2>1, <4>1
      <4>. QED BY <3>1, <4>1, <4>2
    <3>. QED BY <3>2, <3>3
  <2>6. ASSUME NEW i \in 1..(l - 1), NEW j \in 1..(l - 1), c[i] = c[j] PROVE i = j
    <3>1. PICK x \in 1..l : c[i] = s[x] /\ x = IF i < k THEN i ELSE i + 1
      BY <2>1, <2>n
    <3>2. PICK y \in 1..l : c[j] = s[y] /\ y = IF j < k THEN j ELSE j + 1
      BY <2>1, <2>n
    <3>3. x = y
      <4>1. s[x] = s[y]
        BY <2>6, <3>1, <3>2
      <4>2. \A a, b \in 1..l : s[a] = s[b] => a = b
        BY <2>3
      <4>. QED BY <4>1, <4>2
    <3>. QED BY <2>n, <3>1, <3>2, <3>3
  <2>7. CASE l = 1
    <3>1. Len(c) = 0 /\ 1..(l - 1) = {} /\ 1..((l - 1) - 1) = {}
      BY <2>1, <2>7
    <3>2. Lists(c, r, pri, p)
      BY <2>1, <2>2, <2>5, <2>7, <3>1 DEF Lists
    <3>3. Lists(Ring(r, pri, p), r, pri, p)
      BY <1>1, RingLists
    <3>. QED BY <2>c, <3>2, <3>3, OneList
  <2>8. CASE l # 1
    <3>0. l > 1 /\ 1 \in 1..l /\ 2 \in 1..l /\ l \in 1..l /\ 1 \in 1..(l - 1)
      BY <2>8, <2>n
    <3>a. q.next[s[l]] = s[1] /\ s[1] = q.readys[p]
      BY <1>0, <1>a, <2>n, <3>0, ListCloses
    <3>b. n = IF k = l THEN s[1] ELSE s[k + 1]
      <4>1. CASE k = l
        BY <1>2, <1>11, <3>a, <4>1
      <4>2. CASE k # l
        <5>1. k \in 1..(l - 1)
          BY <2>n, <4>2
        <5>. QED BY <1>2, <1>11, <2>3, <4>2, <5>1
      <4>. QED BY <4>1, <4>2
    <3>c. n # t
      <4>1. CASE k = l
        <5>1. 1 # k /\ 1 \in 1..l
          BY <3>0, <4>1
        <5>. QED BY <1>11, <2>3, <2>n, <3>b, <4>1, <5>1
      <4>2. CASE k # l
        <5>1. k + 1 \in 1..l /\ k + 1 # k
          BY <2>n, <4>2
        <5>. QED BY <1>11, <2>3, <2>n, <3>b, <4>2, <5>1
      <4>. QED BY <4>1, <4>2
    <3>1. /\ r.readys = IF q.readys[p] = t THEN [q.readys EXCEPT ![p] = n] ELSE q.readys
          /\ \A u \in Thread : r.next[u] = IF u = t THEN Nil ELSE IF u = v THEN n ELSE q.next[u]
      <4>1. r.next = [q.next EXCEPT ![v] = n, ![t] = Nil]
        BY <1>5, <3>c
      <4>2. v # t
        BY <1>3, <3>c
      <4>3. \A u \in Thread : r.next[u] = IF u = t THEN Nil ELSE IF u = v THEN n ELSE q.next[u]
        BY <1>3, <1>6, <4>1, <4>2
      <4>. QED BY <1>5, <1>11, <3>c, <4>3
    <3>2. c[1] = r.readys[p]
      <4>1. CASE k = 1
        <5>1. c[1] = s[2] /\ n = s[2]
          BY <2>1, <3>0, <3>b, <4>1
        <5>2. q.readys[p] = t
          BY <1>11, <3>a, <4>1
        <5>. QED BY <1>6, <3>1, <5>1, <5>2
      <4>2. CASE k # 1
        <5>1. 1 < k
          BY <2>n, <4>2
        <5>2. c[1] = s[1] /\ s[1] # t
          BY <1>11, <2>1, <2>3, <2>n, <3>0, <4>2, <5>1
        <5>. QED BY <3>1, <3>a, <5>2
      <4>. QED BY <4>1, <4>2
    <3>3. ASSUME NEW j \in 1..(l - 2) PROVE c[j + 1] = r.next[c[j]]
      <4>0. /\ j \in 1..(l - 1) /\ j + 1 \in 1..(l - 1) /\ j + 1 \in 1..l /\ j \in 1..l
            /\ (j + 1) + 1 \in 1..l
        BY <3>0
      <4>d. c[j] \in Thread /\ c[j] # t
        BY <2>4, <2>S, <4>0
      <4>1. CASE j + 1 = k
        <5>1. j < k /\ ~(j + 1 < k) /\ k # l
          BY <4>0, <4>1
        <5>2. c[j] = s[j] /\ c[j + 1] = s[k + 1] /\ n = s[k + 1]
          BY <2>1, <3>b, <4>0, <4>1, <5>1
        <5>3. q.next[s[j]] = t
          BY <1>11, <2>3, <4>0, <4>1
        <5>4. s[j] = v
          <6>1. s[j] \in S
            BY <2>3, <4>0
          <6>2. q.previous[q.next[s[j]]] = s[j]
            BY <1>0, <2>S, <6>1, NextOnLevel
          <6>. QED BY <1>2, <5>3, <6>2
        <5>. QED BY <3>1, <4>d, <5>2, <5>4
      <4>2. CASE j + 1 # k
        <5>1. PICK x \in 1..(l - 1) : c[j] = s[x] /\ c[j + 1] = s[x + 1] /\ x + 1 # k /\ x + 1 \in 1..l
          <6>1. CASE j < k
            <7>1. j + 1 < k
              BY <2>n, <4>2, <6>1
            <7>. QED BY <2>1, <4>0, <4>2, <6>1, <7>1
          <6>2. CASE ~(j < k)
            <7>1. ~(j + 1 < k) /\ (j + 1) + 1 # k /\ j + 1 \in 1..(l - 1)
              BY <2>n, <6>2, <4>0
            <7>. QED BY <2>1, <4>0, <6>2, <7>1
          <6>. QED BY <6>1, <6>2
        <5>2. q.next[s[x]] = s[x + 1] /\ s[x + 1] # t
          BY <1>11, <2>3, <2>n, <5>1
        <5>3. c[j] # v
          BY <1>8, <5>1, <5>2
        <5>. QED BY <3>1, <4>d, <5>1, <5>2, <5>3
      <4>. QED BY <4>1, <4>2
    <3>4. Lists(c, r, pri, p)
      <4>1. (l - 1) - 1 = l - 2
        OBVIOUS
      <4>. QED BY <2>1, <2>2, <2>4, <2>5, <2>6, <3>2, <3>3, <4>1 DEF Lists
    <3>5. Lists(Ring(r, pri, p), r, pri, p)
      BY <1>1, RingLists
    <3>. QED BY <2>c, <3>4, <3>5, OneList
  <2>. QED BY <2>7, <2>8
<1>. QED BY <1>9, <1>10, <1>11

\* Only the head of a level advances when its first thread's slice is over: the ring is
\* turned by one place.
LEMMA RotateTurns ==
    ASSUME NEW q \in ReadyQueues, NEW pri \in [Thread -> Level], RingsOK(q, pri), IsFiniteSet(Thread),
           NEW t \in Thread, Linked(q, t), t = q.readys[pri[t]], NEW r, r = RotateReady(q, t, pri[t]),
           NEW p \in Level, NEW s, s = Ring(q, pri, p)
    PROVE  /\ p # pri[t] => Ring(r, pri, p) = s
           /\ p = pri[t] => s # <<>> /\ Ring(r, pri, p) = Append(Tail(s), Head(s))
<1>0. LinksOK(q, pri) /\ pri[t] \in Level
  BY DEF RingsOK
<1>1. /\ r \in ReadyQueues /\ RingsOK(r, pri)
      /\ \A u \in Thread : Linked(r, u) <=> Linked(q, u)
  BY <1>0, RotateRings
<1>2. r.next = q.next /\ r.readys = [q.readys EXCEPT ![pri[t]] = q.next[t]] /\ q.readys \in [Level -> ThreadPtr]
  BY DEF RotateReady, ReadyQueues
<1>3. OnLevel(r, pri, p) = OnLevel(q, pri, p)
  BY <1>1 DEF OnLevel
<1>a. Lists(s, q, pri, p)
  BY RingLists
<1>4. ASSUME p # pri[t] PROVE Ring(r, pri, p) = s
  <2>1. r.readys[p] = q.readys[p]
    BY <1>0, <1>2, <1>4
  <2>. QED BY <1>1, <1>2, <1>3, <2>1, SameRing
<1>5. ASSUME p = pri[t] PROVE s # <<>> /\ Ring(r, pri, p) = Append(Tail(s), Head(s))
  <2>n. PICK l \in Nat : l = Len(s) /\ s \in Seq(Thread)
    BY <1>a DEF Lists
  <2>S. PICK S : S = OnLevel(q, pri, p) /\ t \in S
    BY <1>5 DEF OnLevel
  <2>3. /\ \A i \in 1..l : s[i] \in S
        /\ \A u \in S : \E i \in 1..l : s[i] = u
        /\ \A i, j \in 1..l : s[i] = s[j] => i = j
        /\ \A i \in 1..(l - 1) : s[i + 1] = q.next[s[i]]
        /\ l > 0 => s[1] = t
    BY <1>5, <1>a, <2>n, <2>S DEF Lists
  <2>4. l > 0 /\ s # <<>> /\ l \in 1..l /\ 1 \in 1..l
    BY <2>3, <2>S, <2>n
  <2>5. PICK c : c = Append(Tail(s), Head(s))
    OBVIOUS
  <2>6. /\ c \in Seq(Thread) /\ Len(c) = l /\ c[l] = s[1]
        /\ \A i \in 1..(l - 1) : c[i] = s[i + 1]
    <3>a. PICK a : a = Tail(s)
      OBVIOUS
    <3>1. a \in Seq(Thread) /\ Len(a) = l - 1 /\ \A i \in 1..(l - 1) : a[i] = s[i + 1]
      <4>1. a \in Seq(Thread) /\ Len(a) = Len(s) - 1 /\ \A i \in 1..Len(a) : a[i] = s[i + 1]
        BY <3>a, <2>n, <2>4, HeadTailProperties, Zenon
      <4>. QED BY <4>1, <2>n
    <3>2. Head(s) = s[1] /\ s[1] \in Thread
      BY <2>n, <2>4
    <3>. QED BY <2>5, <3>a, <3>1, <3>2, <2>4
  <2>7. q.next[s[l]] = s[1]
    BY <1>0, <1>a, <2>n, <2>4, ListCloses
  <2>8. \A i \in 1..l : i = l \/ (i \in 1..(l - 1) /\ i + 1 \in 1..l)
    OBVIOUS
  <2>9. \A i \in 1..l : c[i] \in S
    BY <2>3, <2>4, <2>6, <2>8
  <2>10. ASSUME NEW u \in S PROVE \E i \in 1..l : c[i] = u
    <3>1. PICK i \in 1..l : s[i] = u
      BY <2>3
    <3>2. CASE i = 1
      BY <2>4, <2>6, <3>1, <3>2
    <3>3. CASE i # 1
      <4>1. i - 1 \in 1..(l - 1) /\ i - 1 \in 1..l /\ (i - 1) + 1 = i
        BY <3>3
      <4>. QED BY <2>6, <3>1, <4>1
    <3>. QED BY <3>2, <3>3
  <2>11. ASSUME NEW i \in 1..l, NEW j \in 1..l, c[i] = c[j] PROVE i = j
    <3>0. \A a, b \in 1..l : s[a] = s[b] => a = b
      BY <2>3
    <3>1. CASE i = l /\ j # l
      <4>1. j + 1 \in 1..l /\ j + 1 # 1 /\ s[1] = s[j + 1]
        BY <2>6, <2>8, <2>11, <3>1
      <4>. QED BY <2>4, <3>0, <4>1
    <3>2. CASE i # l /\ j = l
      <4>1. i + 1 \in 1..l /\ i + 1 # 1 /\ s[1] = s[i + 1]
        BY <2>6, <2>8, <2>11, <3>2
      <4>. QED BY <2>4, <3>0, <4>1
    <3>3. CASE i # l /\ j # l
      <4>1. i + 1 \in 1..l /\ j + 1 \in 1..l /\ s[j + 1] = s[i + 1]
        BY <2>6, <2>8, <2>11, <3>3
      <4>2. i + 1 = j + 1
        BY <3>0, <4>1
      <4>. QED BY <4>2
    <3>. QED BY <3>1, <3>2, <3>3
  <2>12. c[1] = r.readys[p]
    <3>1. r.readys[p] = q.next[t] /\ s[1] = t
      BY <1>0, <1>2, <1>5, <2>3, <2>4
    <3>2. CASE l = 1
      BY <2>6, <2>7, <3>1, <3>2
    <3>3. CASE l # 1
      <4>1. 1 \in 1..(l - 1)
        BY <2>4, <3>3
      <4>2. c[1] = s[2] /\ s[2] = q.next[s[1]]
        BY <2>3, <2>6, <4>1
      <4>. QED BY <3>1, <4>2
    <3>. QED BY <3>2, <3>3
  <2>13. ASSUME NEW i \in 1..(l - 1) PROVE c[i + 1] = r.next[c[i]]
    <3>1. c[i] = s[i + 1]
      BY <2>6
    <3>2. CASE i + 1 = l
      <4>1. c[i + 1] = s[1] /\ c[i] = s[l]
        BY <2>6, <3>1, <3>2
      <4>. QED BY <1>2, <2>7, <4>1
    <3>3. CASE i + 1 # l
      <4>1. i + 1 \in 1..(l - 1)
        BY <3>3
      <4>2. c[i + 1] = s[(i + 1) + 1] /\ s[(i + 1) + 1] = q.next[s[i + 1]]
        BY <2>3, <2>6, <4>1
      <4>. QED BY <1>2, <3>1, <4>2
    <3>. QED BY <3>2, <3>3
  <2>14. Lists(c, r, pri, p)
    BY <1>3, <2>S, <2>6, <2>9, <2>10, <2>11, <2>12, <2>13 DEF Lists
  <2>15. Lists(Ring(r, pri, p), r, pri, p)
    BY <1>1, RingLists
  <2>. QED BY <2>4, <2>5, <2>14, <2>15, OneList
<1>. QED BY <1>4, <1>5

\* A ready queue as every kernel call finds it.  Folded like this, the facts above can be
\* used of any queue.
SoundRings(q, pri) ==
    /\ q \in ReadyQueues /\ pri \in [Thread -> Level] /\ RingsOK(q, pri) /\ IsFiniteSet(Thread)

\* An unlinked thread that is queued goes to the end of its level.
LEMMA Appended ==
    \A q, pri : SoundRings(q, pri) => \A t \in Thread, p \in Level : ~Linked(q, t) =>
        Ring(QueueThreadReady(q, t, pri[t]), pri, p)
            = IF p = pri[t] THEN Append(Ring(q, pri, p), t) ELSE Ring(q, pri, p)
<1> TAKE q, pri
<1> HAVE SoundRings(q, pri)
<1> TAKE t \in Thread, p \in Level
<1> HAVE ~Linked(q, t)
<1>. QED BY QueueAppends DEF SoundRings

\* A linked thread that is dequeued leaves the others in their order.
LEMMA Removed ==
    \A q, pri : SoundRings(q, pri) => \A t \in Thread, p \in Level : Linked(q, t) =>
        /\ p # pri[t] => Ring(DequeueThreadFromReady(q, t, pri[t]), pri, p) = Ring(q, pri, p)
        /\ p = pri[t] => /\ \E k \in 1..Len(Ring(q, pri, p)) : Ring(q, pri, p)[k] = t
                         /\ \A k \in 1..Len(Ring(q, pri, p)) : Ring(q, pri, p)[k] = t =>
                               Ring(DequeueThreadFromReady(q, t, pri[t]), pri, p) = Removal(Ring(q, pri, p), k)
<1> TAKE q, pri
<1> HAVE SoundRings(q, pri)
<1> TAKE t \in Thread, p \in Level
<1> HAVE Linked(q, t)
<1>. QED BY DequeueRemoves DEF SoundRings

\* It is on no ring then.
LEMMA RemovedSound ==
    \A q, pri : SoundRings(q, pri) => \A t \in Thread :
        SoundRings(DequeueThreadFromReady(q, t, pri[t]), pri) /\ ~Linked(DequeueThreadFromReady(q, t, pri[t]), t)
<1> TAKE q, pri
<1> HAVE SoundRings(q, pri)
<1> TAKE t \in Thread
<1>. QED BY UnlinkRings DEF SoundRings

\* The first thread of a level goes to its end when the head advances.
LEMMA Turned ==
    \A q, pri : SoundRings(q, pri) => \A t \in Thread, p \in Level :
        Linked(q, t) /\ t = q.readys[pri[t]] =>
            /\ p # pri[t] => Ring(RotateReady(q, t, pri[t]), pri, p) = Ring(q, pri, p)
            /\ p = pri[t] => /\ Ring(q, pri, p) # <<>>
                             /\ Ring(RotateReady(q, t, pri[t]), pri, p)
                                    = Append(Tail(Ring(q, pri, p)), Head(Ring(q, pri, p)))
<1> TAKE q, pri
<1> HAVE SoundRings(q, pri)
<1> TAKE t \in Thread, p \in Level
<1> HAVE Linked(q, t) /\ t = q.readys[pri[t]]
<1>. QED BY RotateTurns DEF SoundRings

\* The rings do not depend on the priority of a thread that is on none.
LEMMA RingsRepriored ==
    \A q, pri : SoundRings(q, pri) => \A t \in Thread, level, p \in Level : ~Linked(q, t) =>
        /\ SoundRings(q, [pri EXCEPT ![t] = level])
        /\ Ring(q, [pri EXCEPT ![t] = level], p) = Ring(q, pri, p)
<1> TAKE q, pri
<1> HAVE SoundRings(q, pri)
<1> TAKE t \in Thread, level, p \in Level
<1> HAVE ~Linked(q, t)
<1>1. SoundRings(q, [pri EXCEPT ![t] = level])
  BY RepriorRings DEF SoundRings
<1>2. PICK new \in [Thread -> Level] : new = [pri EXCEPT ![t] = level]
  BY <1>1 DEF SoundRings
<1>3. OnLevel(q, new, p) = OnLevel(q, pri, p)
  BY <1>2 DEF OnLevel, SoundRings
<1>4. PICK r \in ReadyQueues : r = q /\ RingsOK(r, new)
  BY <1>1, <1>2 DEF SoundRings
<1>5. /\ r.readys[p] = q.readys[p] /\ OnLevel(r, new, p) = OnLevel(q, pri, p)
      /\ \A u \in OnLevel(q, pri, p) : r.next[u] = q.next[u]
  BY <1>3, <1>4
<1>6. Ring(r, new, p) = Ring(q, pri, p)
  <2>1. q \in ReadyQueues /\ pri \in [Thread -> Level] /\ RingsOK(q, pri) /\ IsFiniteSet(Thread)
    BY DEF SoundRings
  <2>. QED BY <1>4, <1>5, <2>1, SameRing, ZenonT(30)
<1>7. Ring(q, [pri EXCEPT ![t] = level], p) = Ring(q, pri, p)
  BY <1>2, <1>4, <1>6
<1>. QED BY <1>1, <1>7
=============================================================================
