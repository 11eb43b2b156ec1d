-------------------------- MODULE KernelMutexProofs -------------------------
(***************************************************************************)
(* The mutex keeps the ready rings sound, forgets no waiter, is never free *)
(* while wanted, excludes, and implements LockService, for every set of    *)
(* threads and every selection of supervisor calls.  MutexInv is inductive *)
(* because it says how a thread's links and the two queues of the mutex go *)
(* together: a thread can be put on a ring only when it is off it, and a   *)
(* thread past its wait is the holder only because everyone else who has   *)
(* asked for the mutex is in one of its queues and off the rings.          *)
(***************************************************************************)
EXTENDS KernelMutexProperties, SchedulerProofs, SequenceFacts

MutexStates == {"create", "run", "ready", "stop", "wait_mutex", "hold_mutex_pending"}

MutexType ==
    /\ readyQ \in ReadyQueues /\ real_priority \in [Thread -> Level]
    /\ state \in [Thread -> MutexStates] /\ time \in [Thread -> 0..TimeSlice]
    /\ crr_thread \in ThreadPtr /\ halted \in BOOLEAN
    /\ holding \in ThreadPtr /\ lock_count \in Int
    /\ waits.elems \in SUBSET Thread /\ pendings \in Seq(Thread)
    /\ wait_obj \in [Thread -> BOOLEAN] /\ timeouts \in [Thread -> BOOLEAN] /\ expired \in ThreadPtr
    /\ claims \in [Thread -> Nat] /\ simple \in BOOLEAN

\* The rings are sound, a thread that was never started or waits is on none, and the
\* front of waits is one of its threads.
RingsPart ==
    /\ RingsOK(readyQ, real_priority)
    /\ \A t \in Thread : state[t] \in {"create", "wait_mutex"} => ~Linked(readyQ, t)
    /\ waits.elems # {} => waits.top \in waits.elems

\* A thread blocked on the mutex and off the rings is in the queue its state names.
QueuedPart ==
    \A t \in Thread : ~Linked(readyQ, t) =>
        /\ state[t] = "wait_mutex" => t \in waits.elems
        /\ state[t] = "hold_mutex_pending" => InPendings(t)

FreePart == holding = Nil => waits.elems = {} /\ pendings = <<>>

\* While threads only wait and signal: whoever has asked for the mutex has it or is in
\* one queue, off the rings, the running thread is on its ring, and no timeout runs.
SimplePart ==
    /\ lock_count <= IF holding = Nil THEN 0 ELSE 1
    /\ \A t \in Thread : /\ claims[t] <= 1
                         /\ claims[t] > 0 <=> t = holding \/ wait_obj[t]
                         /\ wait_obj[t] <=> t \in waits.elems \/ InPendings(t)
                         /\ wait_obj[t] => ~Linked(readyQ, t) /\ t # holding
                         /\ InPendings(t) => t \notin waits.elems
                         /\ state[t] = "create" => claims[t] = 0
    /\ Len(pendings) <= 1
    /\ crr_thread # Nil /\ ~halted => Linked(readyQ, crr_thread)
    /\ expired = Nil /\ \A t \in Thread : ~timeouts[t]

MutexParts == MutexType /\ RingsPart /\ QueuedPart /\ FreePart /\ (simple => SimplePart)

MutexInv == Alive => MutexParts

-----------------------------------------------------------------------------
(***************************************************************************)
(* The two queues of the mutex.                                            *)
(***************************************************************************)
InQueue(q, t) == \E i \in DOMAIN q : q[i] = t

LEMMA PendingsIn == \A t : (InPendings(t) <=> InQueue(pendings, t)) /\ (InPendings(t)' <=> InQueue(pendings', t))
  BY DEF InPendings, InQueue

LEMMA EmptyIn == \A t : ~InQueue(<<>>, t)
  BY DEF InQueue

LEMMA SingleIn == ASSUME NEW u \in Thread PROVE <<u>> \in Seq(Thread) /\ Len(<<u>>) = 1 /\ \A t : InQueue(<<u>>, t) <=> t = u
  BY DEF InQueue

LEMMA HeadIn ==
    ASSUME NEW q \in Seq(Thread), q # <<>>
    PROVE  /\ Head(q) \in Thread /\ InQueue(q, Head(q)) /\ Tail(q) \in Seq(Thread)
           /\ Len(Tail(q)) = Len(q) - 1 /\ Len(q) \in Nat /\ Len(q) >= 1
           /\ \A t : InQueue(q, t) <=> t = Head(q) \/ InQueue(Tail(q), t)
<1>1. Len(q) \in Nat /\ Len(q) >= 1 /\ DOMAIN q = 1..Len(q) /\ Head(q) = q[1] /\ q[1] \in Thread
  OBVIOUS
<1>2. Tail(q) \in Seq(Thread) /\ Len(Tail(q)) = Len(q) - 1 /\ DOMAIN Tail(q) = 1..(Len(q) - 1)
      /\ \A i \in 1..(Len(q) - 1) : Tail(q)[i] = q[i + 1]
  BY <1>1
<1>3. ASSUME NEW t, InQueue(q, t), t # Head(q) PROVE InQueue(Tail(q), t)
  <2>1. PICK i \in 1..Len(q) : q[i] = t
    BY <1>1, <1>3 DEF InQueue
  <2>2. i - 1 \in 1..(Len(q) - 1) /\ q[(i - 1) + 1] = t
    BY <2>1, <1>1, <1>3
  <2>. QED BY <2>2, <1>2 DEF InQueue
<1>4. ASSUME NEW t, InQueue(Tail(q), t) PROVE InQueue(q, t)
  <2>1. PICK i \in 1..(Len(q) - 1) : Tail(q)[i] = t
    BY <1>2, <1>4 DEF InQueue
  <2>2. i + 1 \in 1..Len(q) /\ q[i + 1] = t
    BY <2>1, <1>1, <1>2
  <2>. QED BY <2>2, <1>1 DEF InQueue
<1>5. InQueue(q, Head(q))
  BY <1>1 DEF InQueue
<1>. QED BY <1>1, <1>2, <1>3, <1>4, <1>5

LEMMA AppendIn ==
    ASSUME NEW q \in Seq(Thread), NEW u \in Thread
    PROVE  /\ Append(q, u) \in Seq(Thread) /\ Append(q, u) # <<>>
           /\ \A t : InQueue(Append(q, u), t) <=> t = u \/ InQueue(q, t)
<1>1. /\ Append(q, u) \in Seq(Thread) /\ Len(q) \in Nat /\ DOMAIN q = 1..Len(q) /\ Append(q, u) # <<>>
      /\ DOMAIN Append(q, u) = 1..(Len(q) + 1) /\ Append(q, u)[Len(q) + 1] = u
      /\ \A i \in 1..Len(q) : Append(q, u)[i] = q[i]
  OBVIOUS
<1>2. ASSUME NEW t, InQueue(q, t) \/ t = u PROVE InQueue(Append(q, u), t)
  BY <1>1, <1>2 DEF InQueue
<1>3. ASSUME NEW t, InQueue(Append(q, u), t), t # u PROVE InQueue(q, t)
  <2>1. PICK i \in 1..(Len(q) + 1) : Append(q, u)[i] = t
    BY <1>1, <1>3 DEF InQueue
  <2>2. i \in 1..Len(q)
    BY <2>1, <1>1, <1>3
  <2>. QED BY <2>1, <2>2, <1>1 DEF InQueue
<1>. QED BY <1>1, <1>2, <1>3

\* Unlinking a pending thread leaves the others in the queue and adds none.
LEMMA WithoutIn ==
    ASSUME NEW q \in Seq(Thread), NEW u, InQueue(q, u)
    PROVE  /\ Without(q, u) \in Seq(Thread)
           /\ \A t : InQueue(q, t) /\ t # u => InQueue(Without(q, u), t)
           /\ \A t : InQueue(Without(q, u), t) => InQueue(q, t)
<1>1. PICK i \in DOMAIN q : q[i] = u /\ Without(q, u) = Removal(q, i)
  <2> DEFINE k == CHOOSE i \in DOMAIN q : q[i] = u
  <2>1. k \in DOMAIN q /\ q[k] = u
    BY DEF InQueue
  <2>2. Without(q, u) = Removal(q, k)
    BY DEF Without, Removal
  <2> HIDE DEF k
  <2>. QED BY <2>1, <2>2
<1>2. PICK n \in Nat : n = Len(q) /\ DOMAIN q = 1..n
  OBVIOUS
<1>3. PICK c : c = Without(q, u)
  OBVIOUS
<1>4. /\ c \in Seq(Thread) /\ DOMAIN c = 1..(n - 1)
      /\ \A j \in 1..(n - 1) : c[j] = IF j < i THEN q[j] ELSE q[j + 1]
  <2>1. i \in 1..Len(q)
    BY <1>2
  <2>2. /\ Removal(q, i) \in Seq(Thread) /\ DOMAIN Removal(q, i) = 1..(Len(q) - 1)
        /\ \A j \in 1..(Len(q) - 1) : Removal(q, i)[j] = IF j < i THEN q[j] ELSE q[j + 1]
    BY <2>1, RemovedAt, Zenon
  <2>. QED BY <1>1, <1>2, <1>3, <2>2, Zenon
<1>5. ASSUME NEW t, InQueue(q, t), t # u PROVE InQueue(c, t)
  <2>1. PICK k \in 1..n : q[k] = t
    BY <1>2, <1>5 DEF InQueue
  <2>2. CASE k < i
    <3>1. k \in 1..(n - 1)
      BY <2>2, <1>1, <1>2
    <3>2. c[k] = t
      BY <2>1, <2>2, <3>1, <1>4
    <3>. QED BY <3>1, <3>2, <1>4 DEF InQueue
  <2>3. CASE k > i
    <3>1. k - 1 \in 1..(n - 1) /\ ~(k - 1 < i) /\ (k - 1) + 1 = k
      BY <2>3, <1>1, <1>2
    <3>2. c[k - 1] = t
      BY <2>1, <3>1, <1>4
    <3>. QED BY <3>1, <3>2, <1>4 DEF InQueue
  <2>. QED BY <2>1, <2>2, <2>3, <1>1, <1>2, <1>5
<1>6. ASSUME NEW t, InQueue(c, t) PROVE InQueue(q, t)
  <2>1. PICK j \in 1..(n - 1) : c[j] = t
    BY <1>4, <1>6 DEF InQueue
  <2>2. j \in 1..n /\ j + 1 \in 1..n
    BY <2>1
  <2>3. q[j] = t \/ q[j + 1] = t
    BY <2>1, <1>4
  <2>. QED BY <2>2, <2>3, <1>2 DEF InQueue
<1>. QED BY <1>3, <1>4, <1>5, <1>6

LEMMA ForemostIn == ASSUME NEW S, NEW pri, NEW u \in Foremost(S, pri, Nil), S # {} PROVE u \in S
  BY DEF Foremost

\* What is left in a queue of waiters when its front, or any thread, leaves, and that
\* the front is one of those.
LEMMA PoppedHeap ==
    ASSUME NEW h, NEW pri, NEW g \in HeapPops(h, pri, Nil)
    PROVE  g.elems = h.elems \ {h.top} /\ (g.elems # {} => g.top \in g.elems)
  BY ForemostIn DEF HeapPops

LEMMA RemovedHeap ==
    ASSUME NEW h, NEW t, NEW pri, NEW g \in HeapRemoves(h, t, pri, Nil)
    PROVE  g.elems = h.elems \ {t} /\ (g.elems # {} => g.top \in g.elems)
  BY ForemostIn DEF HeapRemoves

LEMMA ResortedHeap ==
    ASSUME NEW h, NEW pri, NEW g \in HeapResorts(h, pri, Nil)
    PROVE  g.elems = h.elems /\ (g.elems # {} => g.top \in g.elems)
  BY ForemostIn DEF HeapResorts

LEMMA PushedHeap ==
    ASSUME NEW h, NEW t, NEW pri, h.elems # {} => h.top \in h.elems
    PROVE  HeapPush(h, t, pri).elems = h.elems \cup {t} /\ HeapPush(h, t, pri).top \in h.elems \cup {t}
  BY DEF HeapPush

-----------------------------------------------------------------------------
(***************************************************************************)
(* Asking for the mutex.                                                   *)
(***************************************************************************)
LEMMA RunningThread ==
    ASSUME MutexParts, GuestRuns
    PROVE  crr_thread \in Thread /\ (simple => Linked(readyQ, crr_thread) /\ state[crr_thread] # "create")
  BY DEF MutexParts, MutexType, ThreadPtr, RingsPart, SimplePart, GuestRuns

\* A thread that may only wait once at a time waits for the first time.
LEMMA FirstClaim ==
    ASSUME MutexParts, simple, NEW t \in Thread, claims[t] = 0
    PROVE  holding # t /\ ~wait_obj[t] /\ t \notin waits.elems /\ ~InPendings(t)
  BY DEF MutexParts, SimplePart

\* The mutex is free or the caller's own.
LEMMA TakeStep ==
    ASSUME MutexParts, GuestRuns, NEW t \in Thread, t = crr_thread, Take(t), holding \in {Nil, t},
           claims' = [claims EXCEPT ![t] = @ + 1], timeouts' \in [Thread -> BOOLEAN], expired' = expired,
           simple' \in BOOLEAN, simple' => simple /\ claims[t] = 0 /\ timeouts' = timeouts
    PROVE  MutexParts'
<1>1. /\ holding' = t /\ lock_count' = lock_count + 1 /\ UNCHANGED <<schedVars, queueVars>>
      /\ UNCHANGED <<readyQ, state, real_priority, time, crr_thread, halted, waits, pendings, wait_obj>>
  BY DEF Take, schedVars, queueVars
<1>2. claims' \in [Thread -> Nat] /\ \A u \in Thread : claims'[u] = IF u = t THEN claims[t] + 1 ELSE claims[u]
  BY DEF MutexParts, MutexType
<1>3. MutexType'
  <2>1. halted' \in BOOLEAN /\ wait_obj' \in [Thread -> BOOLEAN]
    BY <1>1 DEF MutexParts, MutexType
  <2>2. QED
    BY <2>1, <1>1, <1>2 DEF MutexParts, MutexType, ThreadPtr
<1>4. RingsPart' /\ QueuedPart'
  BY <1>1 DEF MutexParts, RingsPart, QueuedPart, InPendings
<1>5. FreePart'
  BY <1>1, NilAssumption DEF FreePart
<1>6. ASSUME simple' PROVE SimplePart'
  <2>1. /\ simple /\ claims[t] = 0 /\ SimplePart /\ holding = Nil /\ \A u \in Thread : ~wait_obj[u]
        /\ waits.elems = {} /\ \A u : ~InPendings(u)
    <3>1. simple /\ claims[t] = 0 /\ SimplePart /\ holding = Nil
      BY <1>6, FirstClaim DEF MutexParts
    <3>2. waits.elems = {} /\ pendings = <<>>
      BY <3>1 DEF MutexParts, FreePart
    <3>3. \A u : ~InPendings(u)
      BY <3>2, PendingsIn, EmptyIn
    <3>4. QED
      BY <3>1, <3>2, <3>3 DEF SimplePart
  <2>2. lock_count' <= 1 /\ holding' # Nil
    BY <2>1, <1>1, NilAssumption DEF SimplePart, MutexParts, MutexType
  <2>3. state[t] # "create"
    BY <2>1, RunningThread
  <2>4. \A u : InPendings(u)' <=> InPendings(u)
    BY <1>1, PendingsIn
  <2>5. ASSUME NEW u \in Thread
        PROVE  /\ claims'[u] <= 1
               /\ claims'[u] > 0 <=> u = holding' \/ wait_obj'[u]
               /\ wait_obj'[u] <=> u \in waits'.elems \/ InPendings(u)'
               /\ wait_obj'[u] => ~Linked(readyQ', u) /\ u # holding'
               /\ InPendings(u)' => u \notin waits'.elems
               /\ state'[u] = "create" => claims'[u] = 0
    <3>1. claims[u] <= 1 /\ (claims[u] > 0 <=> u = holding) /\ (state[u] = "create" => claims[u] = 0)
      BY <2>1 DEF SimplePart
    <3>2. u # Nil
      BY NilAssumption
    <3>3. QED
      BY <2>1, <2>3, <2>4, <3>1, <3>2, <1>1, <1>2
  <2>6. expired' = Nil /\ \A u \in Thread : ~timeouts'[u]
    BY <1>6, <2>1 DEF SimplePart
  <2>7. QED
    BY <2>1, <2>2, <2>5, <2>6, <1>1 DEF SimplePart
<1>7. QED
  BY <1>3, <1>4, <1>5, <1>6 DEF MutexParts

\* The caller waits: it goes off its ring and into waits.
LEMMA BlockStep ==
    ASSUME MutexParts, GuestRuns, NEW t \in Thread, t = crr_thread, Block(t), holding \notin {Nil, t},
           t \notin waits.elems,
           claims' = [claims EXCEPT ![t] = @ + 1], timeouts' \in [Thread -> BOOLEAN], expired' = expired,
           simple' \in BOOLEAN, simple' => simple /\ claims[t] = 0 /\ timeouts' = timeouts
    PROVE  MutexParts'
<1>1. /\ waits' = HeapPush(waits, t, real_priority) /\ wait_obj' = [wait_obj EXCEPT ![t] = TRUE]
      /\ state' = [state EXCEPT ![t] = "wait_mutex"]
      /\ readyQ' = DequeueThreadFromReady(readyQ, t, real_priority[t]) /\ halted' = TRUE
      /\ UNCHANGED <<real_priority, time, crr_thread, holding, lock_count, pendings>>
  BY DEF Block
<1>2. /\ readyQ' \in ReadyQueues /\ RingsOK(readyQ', real_priority)
      /\ \A u \in Thread : Linked(readyQ', u) <=> u # t /\ Linked(readyQ, u)
  <2>1. readyQ \in ReadyQueues /\ real_priority \in [Thread -> Level] /\ RingsOK(readyQ, real_priority)
    BY DEF MutexParts, MutexType, RingsPart
  <2>2. \A r : r = readyQ' => /\ r \in ReadyQueues /\ RingsOK(r, real_priority)
                              /\ \A u \in Thread : Linked(r, u) <=> u # t /\ Linked(readyQ, u)
    BY <1>1, <2>1, UnlinkRings
  <2>3. QED
    BY <2>2
<1>3. waits'.elems = waits.elems \cup {t} /\ waits'.top \in waits'.elems
  BY <1>1, PushedHeap DEF MutexParts, RingsPart
<1>4. /\ state' \in [Thread -> MutexStates] /\ claims' \in [Thread -> Nat] /\ wait_obj' \in [Thread -> BOOLEAN]
      /\ \A u \in Thread : state'[u] = IF u = t THEN "wait_mutex" ELSE state[u]
      /\ \A u \in Thread : claims'[u] = IF u = t THEN claims[t] + 1 ELSE claims[u]
  <2>1. state' \in [Thread -> MutexStates] /\ \A u \in Thread : state'[u] = IF u = t THEN "wait_mutex" ELSE state[u]
    BY <1>1 DEF MutexParts, MutexType, MutexStates
  <2>2. claims' \in [Thread -> Nat] /\ \A u \in Thread : claims'[u] = IF u = t THEN claims[t] + 1 ELSE claims[u]
    BY DEF MutexParts, MutexType
  <2>3. wait_obj' \in [Thread -> BOOLEAN]
    BY <1>1 DEF MutexParts, MutexType
  <2>4. QED
    BY <2>1, <2>2, <2>3
<1>5. \A u \in Thread : wait_obj'[u] <=> u = t \/ wait_obj[u]
  BY <1>1 DEF MutexParts, MutexType
<1>6. MutexType'
  <2>1. halted' \in BOOLEAN /\ waits'.elems \in SUBSET Thread
    BY <1>1, <1>3 DEF MutexParts, MutexType
  <2>2. QED
    BY <2>1, <1>1, <1>2, <1>4 DEF MutexParts, MutexType
<1>7. \A u : InPendings(u)' <=> InPendings(u)
  BY <1>1, PendingsIn
<1>8. RingsPart' /\ QueuedPart' /\ FreePart'
  BY <1>1, <1>2, <1>3, <1>4, <1>7 DEF MutexParts, RingsPart, QueuedPart, FreePart
<1>9. ASSUME simple' PROVE SimplePart'
  <2>1. /\ simple /\ claims[t] = 0 /\ SimplePart /\ ~wait_obj[t] /\ ~InPendings(t)
    BY <1>9, FirstClaim DEF MutexParts
  <2>2. ASSUME NEW u \in Thread
        PROVE  /\ claims'[u] <= 1
               /\ claims'[u] > 0 <=> u = holding' \/ wait_obj'[u]
               /\ wait_obj'[u] <=> u \in waits'.elems \/ InPendings(u)'
               /\ wait_obj'[u] => ~Linked(readyQ', u) /\ u # holding'
               /\ InPendings(u)' => u \notin waits'.elems
               /\ state'[u] = "create" => claims'[u] = 0
    <3>1. /\ claims[u] <= 1
          /\ claims[u] > 0 <=> u = holding \/ wait_obj[u]
          /\ wait_obj[u] <=> u \in waits.elems \/ InPendings(u)
          /\ wait_obj[u] => ~Linked(readyQ, u) /\ u # holding
          /\ InPendings(u) => u \notin waits.elems
          /\ state[u] = "create" => claims[u] = 0
      BY <2>1 DEF SimplePart
    <3>2. CASE u = t
      BY <3>1, <3>2, <2>1, <1>1, <1>2, <1>3, <1>4, <1>5, <1>7
    <3>3. CASE u # t
      BY <3>1, <3>3, <2>1, <1>1, <1>2, <1>3, <1>4, <1>5, <1>7
    <3>4. QED
      BY <3>2, <3>3
  <2>3. expired' = Nil /\ \A u \in Thread : ~timeouts'[u]
    BY <1>9, <2>1 DEF SimplePart
  <2>4. QED
    BY <2>1, <2>2, <2>3, <1>1 DEF SimplePart
<1>10. QED
  BY <1>6, <1>8, <1>9 DEF MutexParts

LEMMA WaitInv ==
    ASSUME MutexParts, NEW t, t = crr_thread, GuestRuns, Wait(t), timeouts' \in [Thread -> BOOLEAN], expired' = expired,
           simple' \in BOOLEAN, simple' => simple /\ claims[t] = 0 /\ timeouts' = timeouts
    PROVE  MutexParts'
<1>1. t \in Thread
  BY RunningThread
<1>2. QED
  BY <1>1, TakeStep, BlockStep DEF Wait

LEMMA MutexWaitInv == ASSUME MutexParts, MutexWait PROVE MutexParts'
<1>1. /\ GuestRuns /\ Wait(crr_thread) /\ simple' = (simple /\ claims[crr_thread] = 0)
      /\ timeouts' = timeouts /\ expired' = expired
  BY DEF MutexWait, Svc, timeoutVars
<1>2. simple' \in BOOLEAN /\ (simple' => simple /\ claims[crr_thread] = 0 /\ timeouts' = timeouts)
  BY <1>1
<1>3. timeouts' \in [Thread -> BOOLEAN]
  BY <1>1 DEF MutexParts, MutexType
<1>4. PICK t : t = crr_thread
  OBVIOUS
<1>5. QED
  BY <1>1, <1>2, <1>3, <1>4, WaitInv

LEMMA MutexWaitForInv == ASSUME MutexParts, MutexWaitFor PROVE MutexParts'
<1>1. /\ GuestRuns /\ Wait(crr_thread) /\ simple' = FALSE
      /\ timeouts' = [timeouts EXCEPT ![crr_thread] = TRUE] /\ expired' = expired
  BY DEF MutexWaitFor, Svc
<1>2. timeouts' \in [Thread -> BOOLEAN]
  BY <1>1 DEF MutexParts, MutexType
<1>3. PICK t : t = crr_thread
  OBVIOUS
<1>4. simple' \in BOOLEAN /\ ~simple'
  BY <1>1
<1>5. QED
  BY <1>1, <1>2, <1>3, <1>4, WaitInv

LEMMA MutexTryWaitInv == ASSUME MutexParts, MutexTryWait PROVE MutexParts'
<1>1. /\ GuestRuns /\ ~simple' /\ simple' \in BOOLEAN /\ timeouts' = timeouts /\ expired' = expired
      /\ claims' = [claims EXCEPT ![crr_thread] = @ + 1]
      /\ \/ holding \in {Nil, crr_thread} /\ Take(crr_thread)
         \/ UNCHANGED <<schedVars, holding, lock_count, queueVars>>
  BY DEF MutexTryWait, Svc, timeoutVars
<1>2. timeouts' \in [Thread -> BOOLEAN] /\ crr_thread \in Thread
  BY <1>1, RunningThread DEF MutexParts, MutexType
<1>3. CASE holding \in {Nil, crr_thread} /\ Take(crr_thread)
  <2>1. PICK t \in Thread : t = crr_thread
    BY <1>2
  <2>2. QED
    BY <1>1, <1>2, <1>3, <2>1, TakeStep
<1>4. CASE UNCHANGED <<schedVars, holding, lock_count, queueVars>>
  <2>1. UNCHANGED <<readyQ, state, real_priority, time, crr_thread, halted, holding, lock_count,
                    waits, pendings, wait_obj>>
    BY <1>4 DEF schedVars, queueVars
  <2>2. claims' \in [Thread -> Nat]
    BY <1>1, <1>2 DEF MutexParts, MutexType
  <2>3. halted' \in BOOLEAN /\ wait_obj' \in [Thread -> BOOLEAN]
    BY <2>1 DEF MutexParts, MutexType
  <2>4. MutexType'
    BY <1>1, <1>2, <2>1, <2>2, <2>3 DEF MutexParts, MutexType
  <2>5. RingsPart' /\ QueuedPart' /\ FreePart'
    BY <2>1 DEF MutexParts, RingsPart, QueuedPart, FreePart, InPendings
  <2>6. QED
    BY <1>1, <2>4, <2>5 DEF MutexParts
<1>5. QED
  BY <1>1, <1>3, <1>4

-----------------------------------------------------------------------------
(***************************************************************************)
(* Giving it back.                                                         *)
(***************************************************************************)

\* The thread that gets the mutex is put on its ring only if it is off it.
LEMMA GiveRings ==
    ASSUME MutexParts, NEW t \in Thread, GiveTo(t), real_priority' = real_priority
    PROVE  /\ readyQ' \in ReadyQueues /\ RingsOK(readyQ', real_priority') /\ halted' \in BOOLEAN
           /\ \A u \in Thread : Linked(readyQ', u) => u = t \/ Linked(readyQ, u)
           /\ \A u \in Thread : Linked(readyQ, u) => Linked(readyQ', u)
           /\ holding' = t /\ (halted => halted')
<1>1. /\ readyQ \in ReadyQueues /\ real_priority \in [Thread -> Level] /\ RingsOK(readyQ, real_priority)
      /\ readyQ' = IF Resumable(t) THEN QueueThreadReady(readyQ, t, real_priority[t]) ELSE readyQ
      /\ holding' = t /\ halted' = (halted \/ Resumable(t))
  BY DEF MutexParts, MutexType, RingsPart, GiveTo
<1>2. halted' \in BOOLEAN /\ (halted => halted')
  BY <1>1
<1>3. CASE Resumable(t)
  <2>1. ~Linked(readyQ, t) /\ readyQ' = QueueThreadReady(readyQ, t, real_priority[t])
    BY <1>1, <1>3 DEF Resumable
  <2>2. \A r : r = readyQ' => /\ r \in ReadyQueues /\ RingsOK(r, real_priority)
                              /\ \A u \in Thread : Linked(r, u) <=> u = t \/ Linked(readyQ, u)
    BY <1>1, <2>1, LinkRings
  <2>3. QED
    BY <1>1, <1>2, <2>2
<1>4. CASE ~Resumable(t)
  BY <1>1, <1>2, <1>4
<1>5. QED
  BY <1>3, <1>4

\* t is the thread whose turn it is: h and rest are the queues without it.
Turn(t, h, rest) ==
    /\ h.elems \subseteq waits.elems /\ waits.elems \subseteq h.elems \cup {t}
    /\ h.elems # {} => h.top \in h.elems
    /\ rest \in Seq(Thread) /\ Len(rest) <= Len(pendings)
    /\ \A u \in Thread : InPendings(u) => u = t \/ InQueue(rest, u)
    /\ \A u \in Thread : InQueue(rest, u) => InPendings(u)
    /\ simple => wait_obj[t] /\ t \notin h.elems /\ ~InQueue(rest, t)

LEMMA PendingTurn ==
    ASSUME MutexParts, pendings # <<>>
    PROVE  Head(pendings) \in Thread /\ Turn(Head(pendings), waits, Tail(pendings))
<1>1. pendings \in Seq(Thread)
  BY DEF MutexParts, MutexType
<1>2. /\ Head(pendings) \in Thread /\ InQueue(pendings, Head(pendings)) /\ Tail(pendings) \in Seq(Thread)
      /\ Len(Tail(pendings)) = Len(pendings) - 1 /\ Len(pendings) \in Nat /\ Len(pendings) >= 1
      /\ \A u : InQueue(pendings, u) <=> u = Head(pendings) \/ InQueue(Tail(pendings), u)
  BY <1>1, HeadIn
<1>3. ASSUME simple
      PROVE  /\ wait_obj[Head(pendings)] /\ Head(pendings) \notin waits.elems
             /\ ~InQueue(Tail(pendings), Head(pendings))
  <2>1. wait_obj[Head(pendings)] /\ Head(pendings) \notin waits.elems /\ Len(pendings) <= 1
    BY <1>2, <1>3, PendingsIn DEF MutexParts, SimplePart
  <2>2. Tail(pendings) = <<>>
    BY <2>1, <1>2
  <2>3. QED
    BY <2>1, <2>2, EmptyIn
<1>4. Len(Tail(pendings)) <= Len(pendings)
  BY <1>2
<1>5. QED
  BY <1>2, <1>3, <1>4, PendingsIn DEF Turn, MutexParts, RingsPart

LEMMA WaitingTurn ==
    ASSUME MutexParts, pendings = <<>>, waits.elems # {}, NEW h \in HeapPops(waits, real_priority, Nil)
    PROVE  waits.top \in Thread /\ Turn(waits.top, h, <<>>)
<1>1. waits.top \in waits.elems /\ waits.top \in Thread
  BY DEF MutexParts, RingsPart, MutexType
<1>2. h.elems = waits.elems \ {waits.top} /\ (h.elems # {} => h.top \in h.elems)
  BY PoppedHeap
<1>3. \A u : ~InPendings(u) /\ ~InQueue(<<>>, u)
  BY PendingsIn, EmptyIn
<1>4. simple => wait_obj[waits.top]
  BY <1>1 DEF MutexParts, SimplePart
<1>5. <<>> \in Seq(Thread)
  OBVIOUS
<1>6. Len(<<>>) <= Len(pendings)
  OBVIOUS
<1>7. QED
  BY <1>1, <1>2, <1>3, <1>4, <1>5, <1>6 DEF Turn

\* What a signal of the holder c changes besides the hand-over.
Signalled(c) ==
    /\ c \in Thread /\ c = crr_thread /\ holding = c /\ claims[c] > 0
    /\ claims' = [claims EXCEPT ![c] = @ - 1] /\ lock_count' = lock_count - 1 /\ lock_count' <= 0
    /\ UNCHANGED <<real_priority, time, crr_thread, expired, simple>>

LEMMA SignalledFacts ==
    ASSUME MutexParts, NEW c, Signalled(c)
    PROVE  /\ claims' \in [Thread -> Nat] /\ lock_count' \in Int /\ simple' \in BOOLEAN
           /\ \A u \in Thread : claims'[u] = IF u = c THEN claims[c] - 1 ELSE claims[u]
           /\ simple => claims'[c] = 0 /\ claims'[c] <= 1
           /\ simple => ~wait_obj[c]
<1>1. claims \in [Thread -> Nat] /\ lock_count \in Int /\ c \in Thread /\ claims[c] > 0
  BY DEF MutexParts, MutexType, Signalled
<1>2. simple' \in BOOLEAN
  BY DEF MutexParts, MutexType, Signalled
<1>3. claims' \in [Thread -> Nat] /\ \A u \in Thread : claims'[u] = IF u = c THEN claims[c] - 1 ELSE claims[u]
  BY <1>1 DEF Signalled
<1>4. simple => claims[c] = 1 /\ ~wait_obj[c]
  BY <1>1 DEF MutexParts, SimplePart, Signalled
<1>5. QED
  BY <1>1, <1>2, <1>3, <1>4 DEF Signalled

\* t gets the mutex and nobody else moves.
LEMMA JustGiveStep ==
    ASSUME MutexParts, NEW c, Signalled(c), NEW t \in Thread, NEW h, NEW rest, Turn(t, h, rest),
           GiveTo(t), JustGive(h, rest, t)
    PROVE  MutexParts'
<1>1. /\ waits' = h /\ pendings' = rest /\ state' = [state EXCEPT ![t] = "ready"]
      /\ wait_obj' = [wait_obj EXCEPT ![t] = FALSE] /\ timeouts' = timeouts
      /\ UNCHANGED <<real_priority, time, crr_thread, expired, simple>>
  BY DEF JustGive, Signalled
<1>2. /\ readyQ' \in ReadyQueues /\ RingsOK(readyQ', real_priority') /\ halted' \in BOOLEAN
      /\ \A u \in Thread : Linked(readyQ', u) => u = t \/ Linked(readyQ, u)
      /\ \A u \in Thread : Linked(readyQ, u) => Linked(readyQ', u)
      /\ holding' = t /\ (halted => halted')
  BY <1>1, GiveRings
<1>3. /\ claims' \in [Thread -> Nat] /\ lock_count' \in Int /\ simple' \in BOOLEAN
      /\ \A u \in Thread : claims'[u] = IF u = c THEN claims[c] - 1 ELSE claims[u]
      /\ simple => claims'[c] = 0 /\ claims'[c] <= 1
      /\ simple => ~wait_obj[c]
  BY SignalledFacts
<1>4. state' \in [Thread -> MutexStates] /\ \A u \in Thread : state'[u] = IF u = t THEN "ready" ELSE state[u]
  BY <1>1 DEF MutexParts, MutexType, MutexStates
<1>5. wait_obj' \in [Thread -> BOOLEAN] /\ timeouts' \in [Thread -> BOOLEAN]
  BY <1>1 DEF MutexParts, MutexType
<1>6. \A u \in Thread : wait_obj'[u] <=> u # t /\ wait_obj[u]
  BY <1>1 DEF MutexParts, MutexType
<1>7. \A u : InPendings(u)' <=> InQueue(rest, u)
  BY <1>1, PendingsIn
<1>8. MutexType'
  <2>1. waits'.elems \in SUBSET Thread /\ pendings' \in Seq(Thread) /\ holding' \in ThreadPtr
    BY <1>1, <1>2 DEF Turn, MutexParts, MutexType, ThreadPtr
  <2>2. QED
    BY <2>1, <1>1, <1>2, <1>3, <1>4, <1>5 DEF MutexParts, MutexType
<1>9. RingsPart'
  BY <1>1, <1>2, <1>4 DEF Turn, MutexParts, RingsPart
<1>10. QueuedPart'
  BY <1>1, <1>2, <1>4, <1>7 DEF Turn, MutexParts, QueuedPart
<1>11. FreePart'
  BY <1>2, NilAssumption DEF FreePart
<1>12. ASSUME simple' PROVE SimplePart'
  <2>1. /\ simple /\ SimplePart /\ wait_obj[t] /\ t \notin h.elems /\ ~InQueue(rest, t) /\ t # c /\ holding = c
    BY <1>1, <1>3, <1>12 DEF Turn, MutexParts, Signalled
  <2>2. ASSUME NEW u \in Thread
        PROVE  /\ claims'[u] <= 1
               /\ claims'[u] > 0 <=> u = holding' \/ wait_obj'[u]
               /\ wait_obj'[u] <=> u \in waits'.elems \/ InPendings(u)'
               /\ wait_obj'[u] => ~Linked(readyQ', u) /\ u # holding'
               /\ InPendings(u)' => u \notin waits'.elems
               /\ state'[u] = "create" => claims'[u] = 0
    <3>1. /\ claims[u] <= 1
          /\ claims[u] > 0 <=> u = holding \/ wait_obj[u]
          /\ wait_obj[u] <=> u \in waits.elems \/ InPendings(u)
          /\ wait_obj[u] => ~Linked(readyQ, u) /\ u # holding
          /\ InPendings(u) => u \notin waits.elems
          /\ state[u] = "create" => claims[u] = 0
      BY <2>1 DEF SimplePart
    <3>2. u # t => (u \in waits.elems <=> u \in h.elems) /\ (InPendings(u) <=> InQueue(rest, u))
      BY DEF Turn
    <3>3. CASE u = t
      BY <3>1, <3>3, <2>1, <1>1, <1>2, <1>3, <1>4, <1>6, <1>7
    <3>4. CASE u = c
      BY <3>1, <3>2, <3>4, <2>1, <1>1, <1>2, <1>3, <1>4, <1>6, <1>7
    <3>5. CASE u # t /\ u # c
      BY <3>1, <3>2, <3>5, <2>1, <1>1, <1>2, <1>3, <1>4, <1>6, <1>7
    <3>6. QED
      BY <3>3, <3>4, <3>5
  <2>3. lock_count' <= 1 /\ holding' # Nil
    BY <1>2, <1>3, NilAssumption DEF Signalled
  <2>4. Len(pendings') <= 1
    BY <1>1, <2>1 DEF Turn, SimplePart, MutexParts, MutexType
  <2>5. crr_thread' # Nil => Linked(readyQ', crr_thread') \/ halted'
    BY <1>1, <1>2, <2>1 DEF SimplePart, Signalled
  <2>6. expired' = Nil /\ \A u \in Thread : ~timeouts'[u]
    BY <1>1, <2>1 DEF SimplePart
  <2>7. QED
    BY <2>2, <2>3, <2>4, <2>5, <2>6 DEF SimplePart
<1>13. QED
  BY <1>8, <1>9, <1>10, <1>11, <1>12 DEF MutexParts

\* t gets the mutex, and the front of what waits moves to the empty pendings.
LEMMA PutTopStep ==
    ASSUME MutexParts, NEW c, Signalled(c), NEW t \in Thread, NEW h, Turn(t, h, <<>>),
           GiveTo(t), PutTopWaitToPending(h, t), Alive, Alive'
    PROVE  MutexParts'
<1>0. PICK w : w = h.top
  OBVIOUS
<1>1. /\ h.elems # {} /\ waits' \in HeapPops(h, real_priority, Nil) /\ pendings' = <<w>>
      /\ state' = [state EXCEPT ![t] = "ready", ![w] = "hold_mutex_pending"]
      /\ wait_obj' = [wait_obj EXCEPT ![t] = FALSE] /\ timeouts' = [timeouts EXCEPT ![w] = FALSE]
      /\ UNCHANGED <<real_priority, time, crr_thread, expired, simple>>
  BY <1>0 DEF PutTopWaitToPending, Signalled, Alive
<1>2. /\ readyQ' \in ReadyQueues /\ RingsOK(readyQ', real_priority') /\ halted' \in BOOLEAN
      /\ \A u \in Thread : Linked(readyQ', u) => u = t \/ Linked(readyQ, u)
      /\ \A u \in Thread : Linked(readyQ, u) => Linked(readyQ', u)
      /\ holding' = t /\ (halted => halted')
  BY <1>1, GiveRings
<1>3. /\ claims' \in [Thread -> Nat] /\ lock_count' \in Int /\ simple' \in BOOLEAN
      /\ \A u \in Thread : claims'[u] = IF u = c THEN claims[c] - 1 ELSE claims[u]
      /\ simple => claims'[c] = 0 /\ claims'[c] <= 1
      /\ simple => ~wait_obj[c]
  BY SignalledFacts
<1>4. /\ w \in h.elems /\ w \in Thread /\ waits'.elems = h.elems \ {w}
      /\ waits'.elems # {} => waits'.top \in waits'.elems
  BY <1>0, <1>1, PoppedHeap DEF Turn, MutexParts, MutexType
<1>5. /\ state' \in [Thread -> MutexStates]
      /\ \A u \in Thread : state'[u] = IF u = w THEN "hold_mutex_pending" ELSE IF u = t THEN "ready" ELSE state[u]
  BY <1>1, <1>4 DEF MutexParts, MutexType, MutexStates
<1>6. wait_obj' \in [Thread -> BOOLEAN]
  BY <1>1 DEF MutexParts, MutexType
<1>7. timeouts' \in [Thread -> BOOLEAN]
  BY <1>1 DEF MutexParts, MutexType
<1>8. \A u \in Thread : wait_obj'[u] <=> u # t /\ wait_obj[u]
  BY <1>1 DEF MutexParts, MutexType
<1>9. /\ pendings' \in Seq(Thread) /\ Len(pendings') <= 1 /\ \A u : InPendings(u)' <=> u = w
  BY <1>1, <1>4, PendingsIn, SingleIn
<1>10. MutexType'
  <2>1. waits'.elems \in SUBSET Thread /\ holding' \in ThreadPtr
    BY <1>2, <1>4 DEF Turn, MutexParts, MutexType, ThreadPtr
  <2>2. QED
    BY <2>1, <1>1, <1>2, <1>3, <1>5, <1>6, <1>7, <1>9 DEF MutexParts, MutexType
<1>11. RingsPart'
  BY <1>1, <1>2, <1>4, <1>5 DEF Turn, MutexParts, RingsPart
<1>12. \A u \in Thread : InPendings(u) => u = t
  BY EmptyIn DEF Turn
<1>13. QueuedPart'
  BY <1>1, <1>2, <1>4, <1>5, <1>9, <1>12 DEF Turn, MutexParts, QueuedPart
<1>14. FreePart'
  BY <1>2, NilAssumption DEF FreePart
<1>15. ASSUME simple' PROVE SimplePart'
  <2>1. /\ simple /\ SimplePart /\ wait_obj[t] /\ t \notin h.elems /\ t # c /\ holding = c /\ t # w
    BY <1>1, <1>3, <1>4, <1>15 DEF Turn, MutexParts, Signalled
  <2>2. ASSUME NEW u \in Thread
        PROVE  /\ claims'[u] <= 1
               /\ claims'[u] > 0 <=> u = holding' \/ wait_obj'[u]
               /\ wait_obj'[u] <=> u \in waits'.elems \/ InPendings(u)'
               /\ wait_obj'[u] => ~Linked(readyQ', u) /\ u # holding'
               /\ InPendings(u)' => u \notin waits'.elems
               /\ state'[u] = "create" => claims'[u] = 0
    <3>1. /\ claims[u] <= 1
          /\ claims[u] > 0 <=> u = holding \/ wait_obj[u]
          /\ wait_obj[u] <=> u \in waits.elems \/ InPendings(u)
          /\ wait_obj[u] => ~Linked(readyQ, u) /\ u # holding
          /\ state[u] = "create" => claims[u] = 0
      BY <2>1 DEF SimplePart
    <3>2. u # t => (u \in waits.elems <=> u \in h.elems) /\ ~InPendings(u)
      BY <1>12 DEF Turn
    <3>3. CASE u = t
      BY <3>1, <3>3, <2>1, <1>1, <1>2, <1>3, <1>4, <1>5, <1>8, <1>9
    <3>4. CASE u = c
      BY <3>1, <3>2, <3>4, <2>1, <1>1, <1>2, <1>3, <1>4, <1>5, <1>8, <1>9
    <3>5. CASE u # t /\ u # c
      BY <3>1, <3>2, <3>5, <2>1, <1>1, <1>2, <1>3, <1>4, <1>5, <1>8, <1>9
    <3>6. QED
      BY <3>3, <3>4, <3>5
  <2>3. lock_count' <= 1 /\ holding' # Nil
    BY <1>2, <1>3, NilAssumption DEF Signalled
  <2>4. crr_thread' # Nil => Linked(readyQ', crr_thread') \/ halted'
    BY <1>1, <1>2, <2>1 DEF SimplePart, Signalled
  <2>5. expired' = Nil /\ \A u \in Thread : ~timeouts'[u]
    <3>1. timeouts \in [Thread -> BOOLEAN] /\ \A u \in Thread : ~timeouts[u]
      BY <2>1 DEF MutexParts, MutexType, SimplePart
    <3>2. \A u \in Thread : ~timeouts'[u]
      BY <3>1, <1>1
    <3>3. QED
      BY <3>2, <1>1, <2>1 DEF SimplePart
  <2>6. QED
    BY <2>2, <2>3, <2>4, <2>5, <1>9 DEF SimplePart
<1>16. QED
  BY <1>10, <1>11, <1>13, <1>14, <1>15 DEF MutexParts

\* The state that a signal which hands nothing over leaves alone.
LEMMA QuietStep ==
    ASSUME MutexParts, claims' \in [Thread -> Nat], lock_count' \in Int, holding' \in ThreadPtr,
           simple' \in BOOLEAN, holding' = Nil => holding = Nil \/ (waits.elems = {} /\ pendings = <<>>),
           UNCHANGED <<readyQ, state, real_priority, time, crr_thread, halted, queueVars, timeouts, expired>>
    PROVE  /\ MutexType' /\ RingsPart' /\ QueuedPart' /\ FreePart'
           /\ UNCHANGED <<waits, pendings, wait_obj>> /\ \A u : InPendings(u)' <=> InPendings(u)
<1>1. UNCHANGED <<waits, pendings, wait_obj>>
  BY DEF queueVars
<1>2. \A u : InPendings(u)' <=> InPendings(u)
  BY <1>1, PendingsIn
<1>3. halted' \in BOOLEAN /\ wait_obj' \in [Thread -> BOOLEAN] /\ timeouts' \in [Thread -> BOOLEAN]
  BY <1>1 DEF MutexParts, MutexType
<1>4. MutexType'
  BY <1>1, <1>3 DEF MutexParts, MutexType
<1>5. RingsPart' /\ QueuedPart' /\ FreePart'
  BY <1>1, <1>2 DEF MutexParts, RingsPart, QueuedPart, FreePart
<1>6. QED
  BY <1>1, <1>2, <1>4, <1>5

LEMMA SetFreeStep == ASSUME MutexParts, NEW c, Signalled(c), SetFree PROVE MutexParts'
<1>1. /\ pendings = <<>> /\ waits.elems = {} /\ holding' = Nil
      /\ UNCHANGED <<readyQ, state, halted, queueVars, timeouts, real_priority, time, crr_thread, expired, simple>>
  BY DEF SetFree, Signalled
<1>2. /\ claims' \in [Thread -> Nat] /\ lock_count' \in Int /\ simple' \in BOOLEAN
      /\ \A u \in Thread : claims'[u] = IF u = c THEN claims[c] - 1 ELSE claims[u]
      /\ simple => claims'[c] = 0 /\ claims'[c] <= 1
      /\ simple => ~wait_obj[c]
  BY SignalledFacts
<1>3. /\ MutexType' /\ RingsPart' /\ QueuedPart' /\ FreePart'
      /\ UNCHANGED <<waits, pendings, wait_obj>> /\ \A u : InPendings(u)' <=> InPendings(u)
  BY <1>1, <1>2, QuietStep DEF ThreadPtr
<1>4. ASSUME simple' PROVE SimplePart'
  <2>1. simple /\ SimplePart /\ holding = c
    BY <1>1, <1>4 DEF MutexParts, Signalled
  <2>2. ASSUME NEW u \in Thread
        PROVE  /\ claims'[u] <= 1
               /\ claims'[u] > 0 <=> u = holding' \/ wait_obj'[u]
               /\ wait_obj'[u] <=> u \in waits'.elems \/ InPendings(u)'
               /\ wait_obj'[u] => ~Linked(readyQ', u) /\ u # holding'
               /\ InPendings(u)' => u \notin waits'.elems
               /\ state'[u] = "create" => claims'[u] = 0
    <3>1. /\ claims[u] <= 1
          /\ claims[u] > 0 <=> u = holding \/ wait_obj[u]
          /\ wait_obj[u] <=> u \in waits.elems \/ InPendings(u)
          /\ wait_obj[u] => ~Linked(readyQ, u) /\ u # holding
          /\ InPendings(u) => u \notin waits.elems
          /\ state[u] = "create" => claims[u] = 0
      BY <2>1 DEF SimplePart
    <3>2. u # Nil
      BY NilAssumption
    <3>3. CASE u = c
      BY <3>1, <3>2, <3>3, <2>1, <1>1, <1>2, <1>3
    <3>4. CASE u # c
      BY <3>1, <3>2, <3>4, <2>1, <1>1, <1>2, <1>3
    <3>5. QED
      BY <3>3, <3>4
  <2>3. lock_count' <= 0
    BY DEF Signalled
  <2>4. QED
    BY <2>1, <2>2, <2>3, <1>1, <1>3 DEF SimplePart
<1>5. QED
  BY <1>3, <1>4 DEF MutexParts

LEMMA ReleaseStep ==
    ASSUME MutexParts, NEW c, Signalled(c), Release, Alive, Alive' PROVE MutexParts'
<1>1. CASE GivePending
  <2>1. PICK t, rest : t = Head(pendings) /\ rest = Tail(pendings)
    OBVIOUS
  <2>2. t \in Thread /\ Turn(t, waits, rest)
    BY <1>1, <2>1, PendingTurn DEF GivePending
  <2>3. CASE rest = <<>> /\ PutTopWaitToPending(waits, t)
    BY <1>1, <2>1, <2>2, <2>3, PutTopStep DEF GivePending
  <2>4. CASE JustGive(waits, rest, t)
    BY <1>1, <2>1, <2>2, <2>4, JustGiveStep DEF GivePending
  <2>5. QED
    BY <1>1, <2>1, <2>3, <2>4 DEF GivePending
<1>2. CASE GiveWaiting
  <2>1. PICK t : t = waits.top
    OBVIOUS
  <2>2. /\ pendings = <<>> /\ waits.elems # {} /\ GiveTo(t)
    BY <1>2, <2>1 DEF GiveWaiting
  <2>3. PICK h \in HeapPops(waits, real_priority, Nil) : PutTopWaitToPending(h, t) \/ JustGive(h, <<>>, t)
    BY <1>2, <2>1 DEF GiveWaiting
  <2>4. t \in Thread /\ Turn(t, h, <<>>)
    BY <2>1, <2>2, WaitingTurn
  <2>5. QED
    BY <2>2, <2>3, <2>4, PutTopStep, JustGiveStep
<1>3. CASE SetFree
  BY <1>3, SetFreeStep
<1>4. QED
  BY <1>1, <1>2, <1>3 DEF Release

LEMMA MutexSignalInv == ASSUME MutexParts, MutexSignal, Alive' PROVE MutexParts'
<1>1. PICK c \in Thread : c = crr_thread
  BY RunningThread DEF MutexSignal, Svc
<1>2. /\ GuestRuns /\ Alive /\ claims[c] > 0 /\ claims' = [claims EXCEPT ![c] = @ - 1]
      /\ UNCHANGED <<real_priority, time, crr_thread, expired, simple>>
      /\ \/ holding = c /\ lock_count' = lock_count - 1 /\ IF lock_count - 1 <= 0 THEN Release ELSE Keep
         \/ holding # c /\ Keep /\ UNCHANGED lock_count
  BY <1>1 DEF MutexSignal, Svc, GuestRuns, Alive
<1>3. CASE holding = c /\ lock_count' = lock_count - 1 /\ lock_count - 1 <= 0 /\ Release
  <2>1. Signalled(c)
    BY <1>1, <1>2, <1>3 DEF Signalled
  <2>2. QED
    BY <1>2, <1>3, <2>1, ReleaseStep
<1>4. CASE Keep /\ ((holding = c /\ lock_count' = lock_count - 1 /\ ~(lock_count - 1 <= 0)) \/ (holding # c /\ UNCHANGED lock_count))
  <2>1. ~simple
    <3>1. ASSUME simple PROVE FALSE
      <4>1. SimplePart /\ Linked(readyQ, c)
        BY <3>1, <1>1, <1>2, RunningThread DEF MutexParts
      <4>2. c = holding
        BY <4>1, <1>2 DEF SimplePart
      <4>3. lock_count <= 1 /\ lock_count \in Int
        BY <4>1, <4>2, NilAssumption DEF SimplePart, MutexParts, MutexType
      <4>4. QED
        BY <4>2, <4>3, <1>4
    <3>2. QED
      BY <3>1
  <2>2. /\ claims' \in [Thread -> Nat] /\ lock_count' \in Int
    BY <1>2, <1>4 DEF MutexParts, MutexType
  <2>3. simple' \in BOOLEAN /\ ~simple'
    BY <1>2, <2>1 DEF MutexParts, MutexType
  <2>4. UNCHANGED <<readyQ, state, halted, holding, queueVars, timeouts>> /\ holding' \in ThreadPtr
    BY <1>4 DEF Keep, MutexParts, MutexType
  <2>5. MutexType' /\ RingsPart' /\ QueuedPart' /\ FreePart'
    BY <1>2, <2>2, <2>3, <2>4, QuietStep
  <2>6. QED
    BY <2>3, <2>5 DEF MutexParts
<1>5. QED
  BY <1>2, <1>3, <1>4

-----------------------------------------------------------------------------
(***************************************************************************)
(* A change of priority.                                                   *)
(***************************************************************************)

\* What thread_set_priority changes besides the queues: t has a new level.
Repriored(t, after) ==
    /\ t \in Thread /\ after \in [Thread -> Level] /\ (\E p \in Level : after = [real_priority EXCEPT ![t] = p])
    /\ real_priority' = after /\ halted' = TRUE /\ simple' = FALSE
    /\ UNCHANGED <<time, crr_thread, holding, lock_count, wait_obj, timeouts, expired, claims>>

\* It is left to show that the rings and the two queues are in order.
LEMMA RepriorFrame ==
    ASSUME MutexParts, NEW t, NEW after, Repriored(t, after),
           readyQ' \in ReadyQueues, RingsOK(readyQ', after), state' \in [Thread -> MutexStates],
           \A u \in Thread : state'[u] \in {"create", "wait_mutex"} => ~Linked(readyQ', u),
           waits'.elems \in SUBSET Thread, waits'.elems # {} => waits'.top \in waits'.elems,
           pendings' \in Seq(Thread), QueuedPart',
           holding = Nil => waits'.elems = {} /\ pendings' = <<>>
    PROVE  MutexParts'
<1>1. halted' \in BOOLEAN /\ simple' \in BOOLEAN /\ ~simple'
  BY DEF Repriored
<1>2. wait_obj' \in [Thread -> BOOLEAN] /\ timeouts' \in [Thread -> BOOLEAN]
  BY DEF Repriored, MutexParts, MutexType
<1>3. MutexType'
  BY <1>1, <1>2 DEF Repriored, MutexParts, MutexType
<1>4. RingsPart' /\ FreePart'
  BY DEF Repriored, RingsPart, FreePart
<1>. QED BY <1>1, <1>3, <1>4 DEF MutexParts

\* update_priority moves t to the ring of its new level if it is on one.
LEMMA RequeuedFacts ==
    ASSUME MutexParts, NEW t, NEW after, Repriored(t, after), NEW q, q = Requeued(t, after[t])
    PROVE  /\ q \in ReadyQueues /\ RingsOK(q, after)
           /\ \A u \in Thread : Linked(q, u) <=> Linked(readyQ, u)
<1>1. PICK p \in Level : after = [real_priority EXCEPT ![t] = p]
  BY DEF Repriored
<1>2. t \in Thread /\ after[t] = p
  BY <1>1 DEF Repriored, MutexParts, MutexType
<1>3. q = IF Linked(readyQ, t)
          THEN QueueThreadReady(DequeueThreadFromReady(readyQ, t, real_priority[t]), t, p) ELSE readyQ
  BY <1>2 DEF Requeued
<1>4. readyQ \in ReadyQueues /\ real_priority \in [Thread -> Level] /\ RingsOK(readyQ, real_priority)
  BY DEF MutexParts, MutexType, RingsPart
<1>. QED BY <1>1, <1>2, <1>3, <1>4, RequeueRings, ZenonT(40)

LEMMA RequeueStep ==
    ASSUME MutexParts, NEW t, NEW after, Repriored(t, after), readyQ' = Requeued(t, after[t]),
           UNCHANGED <<state, waits, pendings>>
    PROVE  MutexParts'
<1>1. \A q : q = readyQ' => /\ q \in ReadyQueues /\ RingsOK(q, after)
                            /\ \A u \in Thread : Linked(q, u) <=> Linked(readyQ, u)
  BY RequeuedFacts
<1>2. QueuedPart'
  BY <1>1, PendingsIn DEF QueuedPart, MutexParts
<1>3. state' \in [Thread -> MutexStates] /\ waits'.elems \in SUBSET Thread /\ pendings' \in Seq(Thread)
  BY DEF MutexParts, MutexType
<1>. QED BY <1>1, <1>2, <1>3, RepriorFrame DEF MutexParts, RingsPart, FreePart

\* A pending thread goes back to waits and off the rings.
LEMMA DemoteStep ==
    ASSUME MutexParts, NEW t, NEW after, Repriored(t, after), InPendings(t), waits.elems # {},
           pendings' = Without(pendings, t),
           waits' \in HeapResorts(HeapPush(waits, t, after), after, Nil),
           readyQ' = DequeueThreadFromReady(Requeued(t, after[t]), t, after[t]),
           state' = [state EXCEPT ![t] = "wait_mutex"]
    PROVE  MutexParts'
<1>0. t \in Thread /\ after \in [Thread -> Level]
  BY DEF Repriored
<1>1. PICK q : q = Requeued(t, after[t])
  OBVIOUS
<1>2. q \in ReadyQueues /\ RingsOK(q, after) /\ \A u \in Thread : Linked(q, u) <=> Linked(readyQ, u)
  BY <1>1, RequeuedFacts
<1>3. \A r : r = readyQ' => /\ r \in ReadyQueues /\ RingsOK(r, after)
                            /\ \A u \in Thread : Linked(r, u) <=> u # t /\ Linked(q, u)
  BY <1>0, <1>1, <1>2, UnlinkRings
<1>4. /\ state' \in [Thread -> MutexStates]
      /\ \A u \in Thread : state'[u] = IF u = t THEN "wait_mutex" ELSE state[u]
  BY <1>0 DEF MutexParts, MutexType, MutexStates
<1>5. waits'.elems = waits.elems \cup {t} /\ waits'.top \in waits'.elems
  <2>1. PICK h : h = HeapPush(waits, t, after)
    OBVIOUS
  <2>2. h.elems = waits.elems \cup {t}
    BY <2>1, PushedHeap DEF MutexParts, RingsPart
  <2>. QED BY <2>1, <2>2, ResortedHeap
<1>6. pendings' \in Seq(Thread) /\ \A u : InPendings(u) /\ u # t => InPendings(u)'
  <2>1. pendings \in Seq(Thread) /\ InQueue(pendings, t)
    BY PendingsIn DEF MutexParts, MutexType
  <2>. QED BY <2>1, WithoutIn, PendingsIn
<1>7. QueuedPart'
  BY <1>2, <1>3, <1>4, <1>5, <1>6 DEF QueuedPart, MutexParts
<1>8. waits'.elems \in SUBSET Thread /\ holding # Nil
  BY <1>0, <1>5 DEF MutexParts, MutexType, FreePart
<1>9. \A u \in Thread : state'[u] \in {"create", "wait_mutex"} => ~Linked(readyQ', u)
  BY <1>2, <1>3, <1>4 DEF MutexParts, RingsPart
<1>. QED BY <1>3, <1>4, <1>5, <1>6, <1>7, <1>8, <1>9, RepriorFrame

\* A waiting thread becomes pending and goes on the ring of its new level.
LEMMA PromoteStep ==
    ASSUME MutexParts, NEW t, NEW after, Repriored(t, after), PromoteWaiting(t, after)
    PROVE  MutexParts'
<1>0. t \in Thread /\ after \in [Thread -> Level] /\ state[t] = "wait_mutex"
  BY DEF Repriored, PromoteWaiting
<1>1. ~Linked(readyQ, t) /\ readyQ \in ReadyQueues /\ RingsOK(readyQ, after)
  <2>1. PICK p \in Level : after = [real_priority EXCEPT ![t] = p]
    BY DEF Repriored
  <2>2. /\ readyQ \in ReadyQueues /\ real_priority \in [Thread -> Level] /\ RingsOK(readyQ, real_priority)
        /\ ~Linked(readyQ, t)
    BY <1>0 DEF MutexParts, MutexType, RingsPart
  <2>. QED BY <1>0, <2>1, <2>2, RepriorRings
<1>2. CASE /\ t \in waits.elems /\ waits' \in HeapRemoves(waits, t, after, Nil)
           /\ pendings' = Append(pendings, t)
           /\ readyQ' = IF Resumable(t) THEN QueueThreadReady(readyQ, t, after[t]) ELSE readyQ
           /\ state' = [state EXCEPT ![t] = "hold_mutex_pending"]
  <2>1. readyQ' = QueueThreadReady(readyQ, t, after[t])
    BY <1>0, <1>1, <1>2 DEF Resumable
  <2>2. \A r : r = readyQ' => /\ r \in ReadyQueues /\ RingsOK(r, after)
                              /\ \A u \in Thread : Linked(r, u) <=> u = t \/ Linked(readyQ, u)
    BY <1>0, <1>1, <2>1, LinkRings
  <2>3. /\ state' \in [Thread -> MutexStates]
        /\ \A u \in Thread : state'[u] = IF u = t THEN "hold_mutex_pending" ELSE state[u]
    BY <1>0, <1>2 DEF MutexParts, MutexType, MutexStates
  <2>4. waits'.elems = waits.elems \ {t} /\ (waits'.elems # {} => waits'.top \in waits'.elems)
    BY <1>2, RemovedHeap
  <2>5. pendings' \in Seq(Thread) /\ \A u : InPendings(u) => InPendings(u)'
    <3>1. pendings \in Seq(Thread)
      BY DEF MutexParts, MutexType
    <3>. QED BY <1>0, <1>2, <3>1, AppendIn, PendingsIn
  <2>6. QueuedPart'
    BY <2>2, <2>3, <2>4, <2>5 DEF QueuedPart, MutexParts
  <2>7. waits'.elems \in SUBSET Thread /\ holding # Nil
    BY <1>2, <2>4 DEF MutexParts, MutexType, FreePart
  <2>8. \A u \in Thread : state'[u] \in {"create", "wait_mutex"} => ~Linked(readyQ', u)
    BY <2>2, <2>3 DEF MutexParts, RingsPart
  <2>. QED BY <2>2, <2>3, <2>4, <2>5, <2>6, <2>7, <2>8, RepriorFrame
<1>3. CASE waits' \in HeapResorts(waits, after, Nil) /\ UNCHANGED <<readyQ, state, pendings>>
  <2>1. waits'.elems = waits.elems /\ (waits'.elems # {} => waits'.top \in waits'.elems)
    BY <1>3, ResortedHeap
  <2>2. QueuedPart'
    BY <1>3, <2>1, PendingsIn DEF QueuedPart, MutexParts
  <2>3. /\ state' \in [Thread -> MutexStates] /\ waits'.elems \in SUBSET Thread /\ pendings' \in Seq(Thread)
        /\ holding = Nil => waits'.elems = {} /\ pendings' = <<>>
    BY <1>3, <2>1 DEF MutexParts, MutexType, FreePart
  <2>. QED BY <1>1, <1>3, <2>1, <2>2, <2>3, RepriorFrame DEF MutexParts, RingsPart
<1>. QED BY <1>2, <1>3 DEF PromoteWaiting

LEMMA ThreadSetPriorityInv == ASSUME MutexParts, ThreadSetPriority, Alive' PROVE MutexParts'
<1>1. PICK t \in Restless, c \in SetClass :
         LET after == [real_priority EXCEPT ![t] = LevelOf(c)]
         IN  /\ real_priority' = after
             /\ \/ wait_obj[t] /\ (DemotePending(t, after) \/ PromoteWaiting(t, after))
                \/ /\ ~wait_obj[t] \/ state[t] \notin {"hold_mutex_pending", "wait_mutex"}
                   /\ readyQ' = Requeued(t, after[t])
                   /\ UNCHANGED <<state, fault, waits, pendings>>
  BY DEF ThreadSetPriority
<1>2. PICK after : after = [real_priority EXCEPT ![t] = LevelOf(c)]
  OBVIOUS
<1>3. /\ real_priority' = after
      /\ \/ DemotePending(t, after) \/ PromoteWaiting(t, after)
         \/ readyQ' = Requeued(t, after[t]) /\ UNCHANGED <<state, waits, pendings>>
  BY <1>1, <1>2
<1>4. t \in Thread /\ LevelOf(c) \in Level
  BY MainAssumption, ClassAssumption
<1>5. Repriored(t, after)
  BY <1>2, <1>3, <1>4 DEF Repriored, ThreadSetPriority, timeoutVars, MutexParts, MutexType
<1>6. CASE DemotePending(t, after)
  <2>1. CASE /\ ~Alone(t) /\ waits.elems # {}
             /\ pendings' = Without(pendings, t)
             /\ waits' \in HeapResorts(HeapPush(waits, t, after), after, Nil)
             /\ readyQ' = DequeueThreadFromReady(Requeued(t, after[t]), t, after[t])
             /\ state' = [state EXCEPT ![t] = "wait_mutex"]
    BY <1>5, <2>1, DemoteStep DEF Alone
  <2>2. CASE readyQ' = Requeued(t, after[t]) /\ UNCHANGED <<state, waits, pendings>>
    BY <1>5, <2>2, RequeueStep
  <2>. QED BY <1>6, <2>1, <2>2 DEF DemotePending, Alive
<1>. QED BY <1>3, <1>5, <1>6, PromoteStep, RequeueStep

-----------------------------------------------------------------------------
(***************************************************************************)
(* Timeouts, starts, deaths and the main loop.                             *)
(***************************************************************************)
LEMMA TimeoutDueInv == ASSUME MutexParts, TimeoutDue PROVE MutexParts'
<1>1. PICK t \in Thread : timeouts[t] /\ expired' = t /\ timeouts' = [timeouts EXCEPT ![t] = FALSE]
  BY DEF TimeoutDue
<1>2. UNCHANGED <<readyQ, state, real_priority, time, crr_thread, halted, holding, lock_count,
                  waits, pendings, wait_obj, claims, simple>>
  BY DEF TimeoutDue, schedVars, queueVars
<1>3. ~simple /\ ~simple'
  BY <1>1, <1>2 DEF MutexParts, SimplePart
<1>4. timeouts' \in [Thread -> BOOLEAN]
  BY <1>1 DEF MutexParts, MutexType
<1>5. halted' \in BOOLEAN /\ wait_obj' \in [Thread -> BOOLEAN] /\ simple' \in BOOLEAN
  BY <1>2 DEF MutexParts, MutexType
<1>6. MutexType'
  BY <1>1, <1>2, <1>4, <1>5 DEF MutexParts, MutexType, ThreadPtr
<1>7. RingsPart' /\ QueuedPart' /\ FreePart'
  BY <1>2, PendingsIn DEF MutexParts, RingsPart, QueuedPart, FreePart
<1>. QED BY <1>3, <1>6, <1>7 DEF MutexParts

\* A thread that is put on its ring and made ready: MakeReady needs it to be off.
LEMMA MakeReadyRings ==
    ASSUME MutexParts, NEW t \in Thread, ~Linked(readyQ, t), MakeReady(t)
    PROVE  /\ readyQ' \in ReadyQueues /\ RingsOK(readyQ', real_priority)
           /\ \A u \in Thread : Linked(readyQ', u) <=> u = t \/ Linked(readyQ, u)
           /\ state' \in [Thread -> MutexStates]
           /\ \A u \in Thread : state'[u] = IF u = t THEN "ready" ELSE state[u]
<1>1. readyQ \in ReadyQueues /\ real_priority \in [Thread -> Level] /\ RingsOK(readyQ, real_priority)
  BY DEF MutexParts, MutexType, RingsPart
<1>2. \A r : r = readyQ' => /\ r \in ReadyQueues /\ RingsOK(r, real_priority)
                            /\ \A u \in Thread : Linked(r, u) <=> u = t \/ Linked(readyQ, u)
  BY <1>1, LinkRings DEF MakeReady
<1>3. /\ state' \in [Thread -> MutexStates]
      /\ \A u \in Thread : state'[u] = IF u = t THEN "ready" ELSE state[u]
  BY DEF MakeReady, MutexParts, MutexType, MutexStates
<1>. QED BY <1>2, <1>3

LEMMA WakingUpInv == ASSUME MutexParts, WakingUpFromSuspension PROVE MutexParts'
<1>1. PICK t : t = expired
  OBVIOUS
<1>2. PICK p, w : /\ p \in BOOLEAN /\ w \in BOOLEAN
                  /\ p <=> state[t] = "hold_mutex_pending" /\ ~Alone(t)
                  /\ w <=> state[t] = "wait_mutex" /\ t \in waits.elems
  <2>1. \E p \in BOOLEAN : p <=> state[t] = "hold_mutex_pending" /\ ~Alone(t)
    OBVIOUS
  <2>2. \E w \in BOOLEAN : w <=> state[t] = "wait_mutex" /\ t \in waits.elems
    OBVIOUS
  <2>. QED BY <2>1, <2>2
<1>3. /\ t \in Thread /\ ~simple /\ expired' = Nil
      /\ UNCHANGED <<real_priority, time, crr_thread, halted, holding, lock_count, wait_obj, timeouts, claims, simple>>
  BY <1>1 DEF WakingUpFromSuspension, MutexParts, MutexType, ThreadPtr, SimplePart
<1>4. \/ p /\ pendings' = Without(pendings, t) /\ UNCHANGED waits
      \/ w /\ waits' \in HeapRemoves(waits, t, real_priority, Nil) /\ UNCHANGED pendings
      \/ ~p /\ ~w /\ UNCHANGED <<waits, pendings>>
  BY <1>1, <1>2 DEF WakingUpFromSuspension
<1>5. IF (p \/ w) /\ Resumable(t) THEN MakeReady(t) ELSE UNCHANGED <<readyQ, state>>
  BY <1>1, <1>2 DEF WakingUpFromSuspension
<1>6. /\ readyQ' \in ReadyQueues /\ RingsOK(readyQ', real_priority) /\ state' \in [Thread -> MutexStates]
      /\ \A u \in Thread : u # t => (Linked(readyQ', u) <=> Linked(readyQ, u)) /\ state'[u] = state[u]
      /\ (p \/ w) => Linked(readyQ', t) /\ (state'[t] \in {"ready", "hold_mutex_pending"})
      /\ ~p /\ ~w => UNCHANGED <<readyQ, state>>
  <2>1. CASE (p \/ w) /\ Resumable(t)
    BY <1>3, <1>5, <2>1, MakeReadyRings DEF Resumable
  <2>2. CASE (p \/ w) /\ ~Resumable(t)
    <3>1. Linked(readyQ, t)
      BY <1>2, <1>3, <2>2 DEF Resumable
    <3>2. p
      BY <1>2, <1>3, <2>2, <3>1 DEF MutexParts, RingsPart
    <3>. QED BY <1>2, <1>3, <1>5, <2>2, <3>1, <3>2 DEF MutexParts, MutexType, RingsPart
  <2>3. CASE ~p /\ ~w
    BY <1>5, <2>3 DEF MutexParts, MutexType, RingsPart
  <2>. QED BY <2>1, <2>2, <2>3
<1>7. /\ waits'.elems \in SUBSET Thread /\ (waits'.elems # {} => waits'.top \in waits'.elems)
      /\ \A u \in Thread : u # t /\ u \in waits.elems => u \in waits'.elems
      /\ ~p /\ ~w => waits' = waits
  BY <1>2, <1>4, RemovedHeap DEF MutexParts, MutexType, RingsPart
<1>8. /\ pendings' \in Seq(Thread)
      /\ \A u \in Thread : u # t /\ InPendings(u) => InPendings(u)'
      /\ ~p /\ ~w => pendings' = pendings
  <2>1. pendings \in Seq(Thread) /\ (p => InQueue(pendings, t))
    BY <1>2, PendingsIn DEF MutexParts, MutexType, Alone
  <2>2. CASE p /\ pendings' = Without(pendings, t)
    BY <2>1, <2>2, WithoutIn, PendingsIn
  <2>3. CASE pendings' = pendings
    BY <2>1, <2>3, PendingsIn
  <2>. QED BY <1>4, <2>2, <2>3
<1>9. MutexType'
  <2>1. halted' \in BOOLEAN /\ wait_obj' \in [Thread -> BOOLEAN] /\ timeouts' \in [Thread -> BOOLEAN] /\ simple' \in BOOLEAN
    BY <1>3 DEF MutexParts, MutexType
  <2>. QED BY <1>3, <1>6, <1>7, <1>8, <2>1 DEF MutexParts, MutexType, ThreadPtr
<1>10. RingsPart'
  BY <1>3, <1>6, <1>7 DEF MutexParts, RingsPart
<1>11. QueuedPart'
  <2>1. CASE p \/ w
    BY <1>6, <1>7, <1>8, <2>1 DEF MutexParts, QueuedPart
  <2>2. CASE ~p /\ ~w
    BY <1>6, <1>7, <1>8, <2>2, PendingsIn DEF MutexParts, QueuedPart
  <2>. QED BY <2>1, <2>2
<1>12. FreePart'
  <2>1. ASSUME holding = Nil PROVE ~p /\ ~w
    <3>1. waits.elems = {} /\ pendings = <<>>
      BY <2>1 DEF MutexParts, FreePart
    <3>. QED BY <1>2, <3>1, PendingsIn, EmptyIn DEF Alone
  <2>. QED BY <1>3, <1>7, <1>8, <2>1 DEF MutexParts, FreePart
<1>. QED BY <1>3, <1>9, <1>10, <1>11, <1>12 DEF MutexParts

LEMMA ThreadResumeInv == ASSUME MutexParts, ThreadResume PROVE MutexParts'
<1>1. PICK t \in Thread :
          /\ Resumable(t) /\ MakeReady(t)
          /\ \/ state[t] = "create" /\ UNCHANGED <<halted, simple>>
             \/ state[t] # "create" /\ t \in Resumed /\ halted' = TRUE /\ simple' = FALSE
  BY DEF ThreadResume
<1>2. UNCHANGED <<real_priority, time, crr_thread, holding, lock_count, waits, pendings, wait_obj,
                  timeouts, expired, claims>>
  BY DEF ThreadResume, queueVars, timeoutVars
<1>3. /\ readyQ' \in ReadyQueues /\ RingsOK(readyQ', real_priority)
      /\ \A u \in Thread : Linked(readyQ', u) <=> u = t \/ Linked(readyQ, u)
      /\ state' \in [Thread -> MutexStates]
      /\ \A u \in Thread : state'[u] = IF u = t THEN "ready" ELSE state[u]
  <2>1. ~Linked(readyQ, t)
    BY <1>1 DEF Resumable
  <2>. QED BY <1>1, <2>1, MakeReadyRings
<1>4. MutexType'
  <2>1. halted' \in BOOLEAN /\ wait_obj' \in [Thread -> BOOLEAN] /\ timeouts' \in [Thread -> BOOLEAN] /\ simple' \in BOOLEAN
    BY <1>1, <1>2 DEF MutexParts, MutexType
  <2>. QED BY <1>2, <1>3, <2>1 DEF MutexParts, MutexType
<1>5. RingsPart' /\ QueuedPart' /\ FreePart'
  BY <1>2, <1>3, PendingsIn DEF MutexParts, RingsPart, QueuedPart, FreePart
<1>6. ASSUME simple' PROVE SimplePart'
  <2>1. simple /\ SimplePart /\ state[t] = "create" /\ UNCHANGED halted
    BY <1>1, <1>6 DEF MutexParts
  <2>2. ~wait_obj[t] /\ crr_thread \in ThreadPtr
    BY <2>1 DEF MutexParts, SimplePart, MutexType
  <2>3. \A u : InPendings(u)' <=> InPendings(u)
    BY <1>2, PendingsIn
  <2>4. crr_thread # Nil /\ ~halted => Linked(readyQ', crr_thread)
    BY <1>3, <2>1, <2>2 DEF SimplePart, ThreadPtr
  <2>. QED BY <1>2, <1>3, <2>1, <2>2, <2>3, <2>4 DEF SimplePart
<1>. QED BY <1>4, <1>5, <1>6 DEF MutexParts

LEMMA ThreadKillInv == ASSUME MutexParts, ThreadKill PROVE MutexParts'
<1>1. PICK t \in Thread : readyQ' = StopQueue(t) /\ state' = [state EXCEPT ![t] = "stop"]
  BY MainAssumption DEF ThreadKill
<1>2. /\ halted' = TRUE /\ simple' = FALSE
      /\ UNCHANGED <<real_priority, time, crr_thread, holding, lock_count, waits, pendings, wait_obj,
                     timeouts, expired, claims>>
  BY DEF ThreadKill, queueVars, timeoutVars
<1>3. /\ readyQ' \in ReadyQueues /\ RingsOK(readyQ', real_priority)
      /\ \A u \in Thread : u # t => (Linked(readyQ', u) <=> Linked(readyQ, u))
  <2>1. readyQ \in ReadyQueues /\ real_priority \in [Thread -> Level] /\ RingsOK(readyQ, real_priority)
    BY DEF MutexParts, MutexType, RingsPart
  <2>2. readyQ' = readyQ \/ readyQ' = DequeueThreadFromReady(readyQ, t, real_priority[t])
    BY <1>1 DEF StopQueue
  <2>3. \A r : r = DequeueThreadFromReady(readyQ, t, real_priority[t])
               => /\ r \in ReadyQueues /\ RingsOK(r, real_priority)
                  /\ \A u \in Thread : Linked(r, u) <=> u # t /\ Linked(readyQ, u)
    BY <2>1, UnlinkRings
  <2>. QED BY <2>1, <2>2, <2>3
<1>4. /\ state' \in [Thread -> MutexStates]
      /\ \A u \in Thread : state'[u] = IF u = t THEN "stop" ELSE state[u]
  BY <1>1 DEF MutexParts, MutexType, MutexStates
<1>5. MutexType'
  <2>1. halted' \in BOOLEAN /\ wait_obj' \in [Thread -> BOOLEAN] /\ timeouts' \in [Thread -> BOOLEAN] /\ simple' \in BOOLEAN
    BY <1>2 DEF MutexParts, MutexType
  <2>. QED BY <1>2, <1>3, <1>4, <2>1 DEF MutexParts, MutexType
<1>6. RingsPart' /\ QueuedPart' /\ FreePart'
  BY <1>2, <1>3, <1>4, PendingsIn DEF MutexParts, RingsPart, QueuedPart, FreePart
<1>. QED BY <1>2, <1>5, <1>6 DEF MutexParts

LEMMA MainLoopInv == ASSUME MutexParts, NEW left, MainLoop(left) PROVE MutexParts'
<1>1. /\ Reschedule(left) /\ real_priority' = real_priority /\ halted' = FALSE
      /\ UNCHANGED <<holding, lock_count, waits, pendings, wait_obj, timeouts, expired, claims, simple>>
  BY DEF MainLoop, Reschedule, queueVars, timeoutVars
<1>2. /\ readyQ' \in ReadyQueues /\ RingsOK(readyQ', real_priority)
      /\ time' \in [Thread -> 0..TimeSlice]
      /\ \A u \in Thread : Linked(readyQ', u) <=> Linked(readyQ, u)
      /\ \E newt \in ThreadPtr : SwitchContext(newt) /\ (newt # Nil => Linked(readyQ, newt))
  BY <1>1, RescheduleRings DEF MutexParts, MutexType, RingsPart
<1>3. PICK newt \in ThreadPtr : SwitchContext(newt) /\ (newt # Nil => Linked(readyQ, newt))
  BY <1>2
<1>4. /\ state' \in [Thread -> MutexStates] /\ crr_thread' = newt
      /\ \A u \in Thread : state'[u] \in {"create", "wait_mutex", "hold_mutex_pending"} => state'[u] = state[u]
  BY <1>3 DEF SwitchContext, MutexParts, MutexType, MutexStates
<1>5. MutexType'
  <2>1. halted' \in BOOLEAN /\ wait_obj' \in [Thread -> BOOLEAN] /\ timeouts' \in [Thread -> BOOLEAN] /\ simple' \in BOOLEAN
    BY <1>1 DEF MutexParts, MutexType
  <2>. QED BY <1>1, <1>2, <1>4, <2>1 DEF MutexParts, MutexType
<1>6. RingsPart' /\ QueuedPart' /\ FreePart'
  BY <1>1, <1>2, <1>4, PendingsIn DEF MutexParts, RingsPart, QueuedPart, FreePart
<1>7. ASSUME simple' PROVE SimplePart'
  <2>1. simple /\ SimplePart
    BY <1>1, <1>7 DEF MutexParts
  <2>2. \A u : InPendings(u)' <=> InPendings(u)
    BY <1>1, PendingsIn
  <2>3. crr_thread' # Nil /\ ~halted' => Linked(readyQ', crr_thread')
    BY <1>2, <1>3, <1>4 DEF ThreadPtr
  <2>. QED BY <1>1, <1>2, <1>4, <2>1, <2>2, <2>3 DEF SimplePart
<1>. QED BY <1>5, <1>6, <1>7 DEF MutexParts

LEMMA MutexInit == Init => MutexParts
<1> SUFFICES ASSUME Init PROVE MutexParts
  OBVIOUS
<1>1. LevelOf("normal") \in Level /\ real_priority \in [Thread -> Level] /\ Main \in Thread
  BY MainAssumption, ClassAssumption DEF Init
<1>2. /\ readyQ \in ReadyQueues /\ RingsOK(readyQ, real_priority)
      /\ \A u \in Thread : Linked(readyQ, u) <=> u = Main
  <2>1. readyQ = QueueThreadReady(EmptyQueue, Main, real_priority[Main])
    BY <1>1 DEF Init
  <2>2. EmptyQueue \in ReadyQueues /\ RingsOK(EmptyQueue, real_priority) /\ \A t \in Thread : ~Linked(EmptyQueue, t)
    BY <1>1, EmptyRings
  <2>. QED BY <1>1, <2>1, <2>2, LinkRings
<1>3. waits.elems = {} /\ pendings = <<>> /\ pendings \in Seq(Thread) /\ Len(pendings) = 0 /\ \A u : ~InPendings(u)
  BY EmptyIn, PendingsIn DEF Init, EmptyHeap
<1>4. state \in [Thread -> MutexStates] /\ \A u \in Thread : state[u] = IF u = Main THEN "ready" ELSE "create"
  BY DEF Init, MutexStates
<1>5. halted \in BOOLEAN /\ wait_obj \in [Thread -> BOOLEAN] /\ timeouts \in [Thread -> BOOLEAN] /\ simple \in BOOLEAN
  BY DEF Init
<1>6. time \in [Thread -> 0..TimeSlice] /\ claims \in [Thread -> Nat]
  BY TimeSliceAssumption DEF Init
<1>7. MutexType
  BY <1>1, <1>2, <1>3, <1>4, <1>5, <1>6 DEF Init, MutexType, ThreadPtr
<1>8. RingsPart /\ QueuedPart /\ FreePart
  BY <1>2, <1>3, <1>4 DEF RingsPart, QueuedPart, FreePart
<1>9. SimplePart
  <2>1. \A t \in Thread : ~wait_obj[t] /\ ~timeouts[t] /\ claims[t] = 0 /\ t # Nil
    BY NilAssumption DEF Init
  <2>. QED BY <1>3, <2>1 DEF Init, SimplePart
<1>. QED BY <1>7, <1>8, <1>9 DEF MutexParts

-----------------------------------------------------------------------------
(***************************************************************************)
(* The theorems.                                                           *)
(***************************************************************************)
LEMMA MutexStep == MutexInv /\ [Next]_vars => MutexInv'
<1> SUFFICES ASSUME MutexInv, [Next]_vars, Alive' PROVE MutexParts'
  BY DEF MutexInv
<1>1. CASE Next
  <2>1. Alive /\ MutexParts
    BY <1>1 DEF MutexInv, Alive, Next, MutexWait, MutexWaitFor, MutexTryWait, MutexSignal, ThreadSetPriority,
                TimeoutDue, WakingUpFromSuspension, ThreadResume, ThreadKill, MainLoop, Reschedule, Svc, GuestRuns
  <2>. QED BY <1>1, <2>1, MutexWaitInv, MutexWaitForInv, MutexTryWaitInv, MutexSignalInv, ThreadSetPriorityInv,
              TimeoutDueInv, WakingUpInv, ThreadResumeInv, ThreadKillInv, MainLoopInv DEF Next
<1>2. CASE UNCHANGED vars
  <2>1. UNCHANGED <<readyQ, state, real_priority, time, crr_thread, halted, fault, holding, lock_count,
                    waits, pendings, wait_obj, timeouts, expired, claims, simple>>
    BY <1>2 DEF vars, schedVars, queueVars, timeoutVars
  <2>2. MutexParts
    BY <2>1 DEF MutexInv, Alive
  <2>3. halted' \in BOOLEAN /\ wait_obj' \in [Thread -> BOOLEAN] /\ timeouts' \in [Thread -> BOOLEAN] /\ simple' \in BOOLEAN
    BY <2>1, <2>2 DEF MutexParts, MutexType
  <2>4. MutexType'
    BY <2>1, <2>2, <2>3 DEF MutexParts, MutexType
  <2>5. RingsPart' /\ QueuedPart' /\ FreePart'
    BY <2>1, <2>2, PendingsIn DEF MutexParts, RingsPart, QueuedPart, FreePart
  <2>6. ASSUME simple' PROVE SimplePart'
    <3>1. SimplePart
      BY <2>1, <2>2, <2>6 DEF MutexParts
    <3>. QED BY <2>1, <3>1, PendingsIn DEF SimplePart
  <2>. QED BY <2>4, <2>5, <2>6 DEF MutexParts
<1>. QED BY <1>1, <1>2

\* Until the emulator dies, the state is well typed, the rings are sound, and the two
\* queues of the mutex agree with the threads' states, links and claims.
THEOREM MutexInvariant == Spec => []MutexInv
<1>1. Init => MutexInv
  BY MutexInit DEF MutexInv
<1>. QED BY <1>1, MutexStep, PTL DEF Spec

\* No hand-over, promotion, demotion, timeout or death breaks a ready ring.
THEOREM RingsSurvive == Spec => []MutexRingsSound
<1>1. MutexInv => MutexRingsSound
  BY DEF MutexInv, MutexParts, RingsPart, MutexRingsSound
<1>. QED BY <1>1, MutexInvariant, PTL

\* Every thread blocked on the mutex is in the queue a signal takes it from.
THEOREM WaitersKept == Spec => []NoWaiterForgotten
<1>1. MutexInv => NoWaiterForgotten
  BY DEF MutexInv, MutexParts, QueuedPart, NoWaiterForgotten
<1>. QED BY <1>1, MutexInvariant, PTL

\* Nobody waits for a free mutex.
THEOREM HeldIfWanted == Spec => []HeldWhileWanted
<1>1. MutexInv => HeldWhileWanted
  BY DEF MutexInv, MutexParts, FreePart, HeldWhileWanted
<1>. QED BY <1>1, MutexInvariant, PTL

\* Threads that only wait and signal exclude each other.
THEOREM Exclusion == Spec => []MutualExclusion
<1>1. MutexInv => MutualExclusion
  BY DEF MutexInv, MutexParts, SimplePart, MutualExclusion, Inside
<1>. QED BY <1>1, MutexInvariant, PTL

\* Whoever waits is in one of the queues: empty queues mean that nobody waits.
LEMMA NobodyWaits ==
    ASSUME MutexParts, simple, waits.elems = {}, pendings = <<>>
    PROVE  {u \in Thread : wait_obj[u]} = {}
<1>1. \A u : ~InPendings(u)
  BY PendingsIn, EmptyIn
<1>. QED BY <1>1 DEF MutexParts, SimplePart

LEMMA WaitLocks == ASSUME MutexParts, MutexWait, simple' PROVE Lock!Next
<1>1. PICK t \in Thread : t = crr_thread
  BY RunningThread DEF MutexWait, Svc
<1>2. simple /\ claims[t] = 0 /\ Wait(t)
  BY <1>1 DEF MutexWait
<1>3. holding # t /\ ~wait_obj[t]
  BY <1>2, FirstClaim
<1>4. CASE holding = Nil /\ Take(t)
  <2>1. {u \in Thread : wait_obj[u]} = {}
    BY <1>2, <1>4, NobodyWaits DEF MutexParts, FreePart
  <2>2. Lock!Acquire(t)
    BY <1>4, <2>1 DEF Take, queueVars, Lock!Acquire
  <2>. QED BY <2>2 DEF Lock!Next
<1>5. CASE holding \notin {Nil, t} /\ Block(t)
  <2>1. holding' = holding /\ wait_obj' = [wait_obj EXCEPT ![t] = TRUE]
    BY <1>5 DEF Block
  <2>2. \A u \in Thread : wait_obj'[u] <=> u = t \/ wait_obj[u]
    BY <2>1 DEF MutexParts, MutexType
  <2>3. Lock!Ask(t)
    BY <1>3, <1>5, <2>1, <2>2 DEF Lock!Ask
  <2>. QED BY <2>3 DEF Lock!Next
<1>. QED BY <1>2, <1>3, <1>4, <1>5 DEF Wait

LEMMA SignalLocks ==
    ASSUME MutexParts, MutexSignal, simple, ~UNCHANGED lockVars
    PROVE  Lock!Next
<1>1. Release /\ holding = crr_thread /\ crr_thread # Nil
  BY DEF MutexSignal, Svc, GuestRuns, Keep, queueVars, lockVars
<1>2. ASSUME NEW t \in Thread, wait_obj[t], holding' = t, wait_obj' = [wait_obj EXCEPT ![t] = FALSE] PROVE Lock!Next
  <2>1. \A u \in Thread : wait_obj'[u] <=> u # t /\ wait_obj[u]
    BY <1>2 DEF MutexParts, MutexType
  <2>2. Lock!HandOver(t)
    BY <1>2, <2>1 DEF Lock!HandOver
  <2>. QED BY <2>2 DEF Lock!Next
<1>3. CASE GivePending
  <2>1. PICK t : t = Head(pendings)
    OBVIOUS
  <2>2. t \in Thread /\ wait_obj[t]
    BY <1>3, <2>1, PendingTurn DEF GivePending, Turn
  <2>3. holding' = t /\ wait_obj' = [wait_obj EXCEPT ![t] = FALSE]
    BY <1>3, <2>1 DEF GivePending, GiveTo, PutTopWaitToPending, JustGive
  <2>. QED BY <1>2, <2>2, <2>3
<1>4. CASE GiveWaiting
  <2>1. PICK t : t = waits.top
    OBVIOUS
  <2>2. PICK h \in HeapPops(waits, real_priority, Nil) : PutTopWaitToPending(h, t) \/ JustGive(h, <<>>, t)
    BY <1>4, <2>1 DEF GiveWaiting
  <2>3. t \in Thread /\ wait_obj[t]
    BY <1>4, <2>1, <2>2, WaitingTurn DEF GiveWaiting, Turn
  <2>4. holding' = t /\ wait_obj' = [wait_obj EXCEPT ![t] = FALSE]
    BY <1>4, <2>1, <2>2 DEF GiveWaiting, GiveTo, PutTopWaitToPending, JustGive
  <2>. QED BY <1>2, <2>3, <2>4
<1>5. CASE SetFree
  <2>1. {u \in Thread : wait_obj[u]} = {}
    BY <1>5, NobodyWaits DEF SetFree
  <2>2. holding' = Nil /\ wait_obj' = wait_obj
    BY <1>5 DEF SetFree, queueVars
  <2>3. Lock!Free
    BY <1>1, <2>1, <2>2 DEF Lock!Free
  <2>. QED BY <2>3 DEF Lock!Next
<1>. QED BY <1>1, <1>3, <1>4, <1>5 DEF Release

LEMMA LockStep == MutexInv /\ [Next]_vars => [Alive' /\ simple' => Lock!Next]_lockVars
<1> SUFFICES ASSUME MutexInv, [Next]_vars, Alive', simple', ~UNCHANGED lockVars PROVE Lock!Next
  OBVIOUS
<1>1. Next
  BY DEF vars, queueVars, lockVars
<1>2. MutexParts
  BY <1>1 DEF MutexInv, Alive, Next, MutexWait, MutexWaitFor, MutexTryWait, MutexSignal, ThreadSetPriority,
              TimeoutDue, WakingUpFromSuspension, ThreadResume, ThreadKill, MainLoop, Reschedule, Svc, GuestRuns
<1>3. MutexWait \/ (MutexSignal /\ simple)
  BY <1>1 DEF Next, MutexWaitFor, MutexTryWait, MutexSignal, ThreadSetPriority, TimeoutDue,
              WakingUpFromSuspension, ThreadResume, ThreadKill, MainLoop, lockVars, queueVars
<1>. QED BY <1>2, <1>3, WaitLocks, SignalLocks

\* Used in this way the mutex implements LockService: every hand-over goes to a waiter,
\* and it becomes free only when there is none.
THEOREM MutexIsLock == Spec => ImplementsLock
<1>1. Init => Lock!Init
  BY DEF Init, Lock!Init
<1>. QED BY <1>1, LockStep, MutexInvariant, PTL DEF Spec, ImplementsLock
=============================================================================
