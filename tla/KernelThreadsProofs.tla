------------------------- MODULE KernelThreadsProofs -------------------------
(***************************************************************************)
(* The safety invariants of KernelThreads hold for every set of threads,   *)
(* processes, semaphores and priority levels, and for every selection of   *)
(* supervisor calls the guest may issue.  IInv is the inductive invariant: *)
(* none of its parts is inductive alone, because waking a thread is safe   *)
(* only if it is unlinked (SchedOK needs SemaOK and LifeOK) and a waiter's *)
(* queue is known only through wait_obj (SemaOK needs LifeOK).             *)
(***************************************************************************)
EXTENDS KernelThreadsProperties, SchedulerProofs, FiniteSetTheorems, SequenceTheorems

SchedType ==
    /\ readyQ \in ReadyQueues
    /\ state \in [Thread -> ThreadStates]
    /\ real_priority \in [Thread -> Level]
    /\ time \in [Thread -> 0..TimeSlice]
    /\ crr_thread \in ThreadPtr
    /\ halted \in BOOLEAN
    /\ fault \in Faults

SemaType ==
    /\ wait_obj \in [Thread -> Sema \cup {Nil}]
    /\ avail_count \in [Sema -> Int]
    /\ waits \in [Sema -> Heaps]

SchedOK ==
    /\ RingsOK(readyQ, real_priority)
    /\ \A t \in Thread : state[t] \in {"ready", "run"} <=> Linked(readyQ, t)
    /\ \A t \in Thread : state[t] = "run" => t = crr_thread
    /\ crr_thread # Nil /\ ~halted => state[crr_thread] = "run"

SemaOK ==
    /\ \A s \in Sema : Cardinality(waits[s].elems) = IF avail_count[s] < 0 THEN -avail_count[s] ELSE 0
    /\ \A s \in Sema, t \in Thread : t \in waits[s].elems <=> wait_obj[t] = s
    /\ \A s \in Sema : waits[s].top \in Foremost(waits[s].elems, real_priority, Nil)

LifeOK ==
    /\ \A t \in Thread : state[t] = "wait_fast_sema" => wait_obj[t] # Nil
    /\ \A t \in Thread : wakeup[t] # "idle" => sleep_sts[t]
    /\ \A t \in Thread : ~Exists(t) => state[t] = "create" /\ wait_obj[t] = Nil
    /\ \A p \in Process : Exists(Primary[p])

IInv == TypeOK /\ (Alive => SchedOK /\ SemaOK /\ LifeOK)

-----------------------------------------------------------------------------
(***************************************************************************)
(* Steps of the scheduler.                                                 *)
(***************************************************************************)

\* thread_scheduler::schedule and ::resume on a thread that is not ready yet.
LEMMA ReadyStep ==
    ASSUME SchedType, SchedOK, NEW t \in Thread, state[t] \notin {"ready", "run"},
           MakeReady(t), real_priority' = real_priority, crr_thread' = crr_thread,
           halted => halted'
    PROVE  readyQ' \in ReadyQueues /\ state' \in [Thread -> ThreadStates] /\ SchedOK'
<1>1. /\ readyQ' = QueueThreadReady(readyQ, t, real_priority[t])
      /\ state' = [state EXCEPT ![t] = "ready"]
      /\ readyQ \in ReadyQueues /\ real_priority \in [Thread -> Level] /\ RingsOK(readyQ, real_priority)
      /\ ~Linked(readyQ, t) /\ real_priority[t] \in Level /\ LinksOK(readyQ, real_priority)
  BY DEF MakeReady, SchedType, SchedOK, RingsOK
<1>2. readyQ' \in ReadyQueues
  BY <1>1, QueueType
<1>3. RingsOK(readyQ', real_priority')
  BY <1>1, QueueRings
<1>4. \A u \in Thread : Linked(readyQ', u) <=> u = t \/ Linked(readyQ, u)
  BY <1>1, QueueLinked
<1>5. state' \in [Thread -> ThreadStates] /\ \A u \in Thread : state'[u] = IF u = t THEN "ready" ELSE state[u]
  BY <1>1 DEF SchedType, ThreadStates
<1>6. \A u \in Thread : state'[u] \in {"ready", "run"} <=> Linked(readyQ', u)
  BY <1>4, <1>5 DEF SchedOK
<1>7. \A u \in Thread : state'[u] = "run" => u = crr_thread'
  BY <1>5 DEF SchedOK
<1>8. crr_thread' # Nil /\ ~halted' => state'[crr_thread'] = "run"
  BY <1>5 DEF SchedOK, SchedType, ThreadPtr
<1>. QED BY <1>2, <1>3, <1>5, <1>6, <1>7, <1>8 DEF SchedOK

\* A ready or running thread is taken off its ring and gets another state; if it
\* is the current thread, the guest is halted.
LEMMA UnreadyStep ==
    ASSUME SchedType, SchedOK, NEW t \in Thread, state[t] \in {"ready", "run"},
           NEW x \in ThreadStates \ {"ready", "run"},
           readyQ' = DequeueThreadFromReady(readyQ, t, real_priority[t]),
           state' = [state EXCEPT ![t] = x],
           real_priority' = real_priority, crr_thread' = crr_thread,
           halted => halted', t = crr_thread => halted'
    PROVE  readyQ' \in ReadyQueues /\ state' \in [Thread -> ThreadStates] /\ SchedOK'
<1>1. /\ readyQ \in ReadyQueues /\ real_priority \in [Thread -> Level] /\ RingsOK(readyQ, real_priority)
      /\ Linked(readyQ, t) /\ real_priority[t] \in Level
  BY DEF SchedType, SchedOK
<1>2. readyQ' \in ReadyQueues
  BY <1>1, DequeueType
<1>3. RingsOK(readyQ', real_priority')
  BY <1>1, DequeueRings
<1>4. \A u \in Thread : Linked(readyQ', u) <=> u # t /\ Linked(readyQ, u)
  BY <1>1, DequeueLinked
<1>5. state' \in [Thread -> ThreadStates] /\ \A u \in Thread : state'[u] = IF u = t THEN x ELSE state[u]
  BY DEF SchedType, ThreadStates
<1>6. \A u \in Thread : state'[u] \in {"ready", "run"} <=> Linked(readyQ', u)
  BY <1>4, <1>5 DEF SchedOK
<1>7. \A u \in Thread : state'[u] = "run" => u = crr_thread'
  BY <1>5 DEF SchedOK
<1>8. crr_thread' # Nil /\ ~halted' => state'[crr_thread'] = "run"
  BY <1>5 DEF SchedOK, SchedType, ThreadPtr
<1>. QED BY <1>2, <1>3, <1>5, <1>6, <1>7, <1>8 DEF SchedOK

\* A thread that is not on a ring changes between states that are not ready ones.
LEMMA AsideStep ==
    ASSUME SchedType, SchedOK, NEW t \in Thread, state[t] \notin {"ready", "run"},
           NEW x \in ThreadStates \ {"ready", "run"},
           readyQ' = readyQ, state' = [state EXCEPT ![t] = x],
           real_priority' = real_priority, crr_thread' = crr_thread, halted => halted'
    PROVE  state' \in [Thread -> ThreadStates] /\ SchedOK'
<1>1. state' \in [Thread -> ThreadStates] /\ \A u \in Thread : state'[u] = IF u = t THEN x ELSE state[u]
  BY DEF SchedType, ThreadStates
<1>2. \A u \in Thread : state'[u] \in {"ready", "run"} <=> Linked(readyQ', u)
  BY <1>1 DEF SchedOK
<1>3. \A u \in Thread : state'[u] = "run" => u = crr_thread'
  BY <1>1 DEF SchedOK
<1>4. crr_thread' # Nil /\ ~halted' => state'[crr_thread'] = "run"
  BY <1>1 DEF SchedOK, SchedType, ThreadPtr
<1>. QED BY <1>1, <1>2, <1>3, <1>4 DEF SchedOK

\* The scheduler's state is left alone, except that the guest may be halted.
LEMMA SchedStutter ==
    ASSUME SchedOK, UNCHANGED <<readyQ, state, real_priority, crr_thread>>, halted => halted'
    PROVE  SchedOK'
BY DEF SchedOK

\* switch_context to a linked thread, or to none.
LEMMA SwitchStep ==
    ASSUME SchedType, SchedOK, NEW newt, newt = Nil \/ (newt \in Thread /\ Linked(readyQ, newt)),
           SwitchContext(newt), readyQ' \in ReadyQueues, RingsOK(readyQ', real_priority),
           \A u \in Thread : Linked(readyQ', u) <=> Linked(readyQ, u),
           real_priority' = real_priority, halted' = FALSE
    PROVE  state' \in [Thread -> ThreadStates] /\ crr_thread' \in ThreadPtr /\ SchedOK'
<1> DEFINE put == [t \in Thread |-> IF t = crr_thread /\ state[t] = "run" THEN "ready" ELSE state[t]]
           new == [t \in Thread |-> IF t = newt THEN "run" ELSE put[t]]
<1>0. state' = new /\ crr_thread' = newt
  BY DEF SwitchContext
<1>1. \A u \in Thread : state'[u] = IF u = newt THEN "run"
                                    ELSE IF u = crr_thread /\ state[u] = "run" THEN "ready" ELSE state[u]
  <2>1. \A u \in Thread : put[u] = IF u = crr_thread /\ state[u] = "run" THEN "ready" ELSE state[u]
    OBVIOUS
  <2> HIDE DEF put
  <2>. QED BY <1>0, <2>1
<1>2. state' \in [Thread -> ThreadStates] /\ crr_thread' = newt /\ crr_thread' \in ThreadPtr
  <2>1. put \in [Thread -> ThreadStates]
    BY DEF SchedType, ThreadStates
  <2> HIDE DEF put
  <2>2. new \in [Thread -> ThreadStates]
    BY <2>1 DEF ThreadStates
  <2>. QED BY <1>0, <2>2 DEF ThreadPtr
<1>3. \A u \in Thread : state'[u] \in {"ready", "run"} <=> Linked(readyQ', u)
  BY <1>1, NilAssumption DEF SchedOK
<1>4. \A u \in Thread : state'[u] = "run" => u = crr_thread'
  BY <1>1, <1>2 DEF SchedOK
<1>5. crr_thread' # Nil /\ ~halted' => state'[crr_thread'] = "run"
  BY <1>1, <1>2
<1>. QED BY <1>2, <1>3, <1>4, <1>5 DEF SchedOK

\* A turn of the main loop.
LEMMA RescheduleStep ==
    ASSUME SchedType, SchedOK, NEW left, Reschedule(left)
    PROVE  SchedType' /\ SchedOK' /\ \A u \in Thread : Linked(readyQ', u) <=> Linked(readyQ, u)
<1>1. /\ readyQ \in ReadyQueues /\ real_priority \in [Thread -> Level] /\ RingsOK(readyQ, real_priority)
      /\ time \in [Thread -> 0..TimeSlice] /\ crr_thread \in ThreadPtr
      /\ halted' = FALSE /\ real_priority' = real_priority /\ fault' = fault
  BY DEF SchedType, SchedOK, Reschedule
<1>2. /\ readyQ' \in ReadyQueues /\ RingsOK(readyQ', real_priority) /\ time' \in [Thread -> 0..TimeSlice]
      /\ \A u \in Thread : Linked(readyQ', u) <=> Linked(readyQ, u)
      /\ \E newt \in ThreadPtr : SwitchContext(newt) /\ (newt # Nil => Linked(readyQ, newt))
  BY <1>1, RescheduleRings
<1>3. PICK newt \in ThreadPtr : SwitchContext(newt) /\ (newt # Nil => Linked(readyQ, newt))
  BY <1>2
<1>4. state' \in [Thread -> ThreadStates] /\ crr_thread' \in ThreadPtr /\ SchedOK'
  BY <1>1, <1>2, <1>3, SwitchStep DEF ThreadPtr
<1>. QED BY <1>1, <1>2, <1>4 DEF SchedType

\* thread::update_priority's part of the ready queue.
LEMMA RepriorStep ==
    ASSUME SchedType, SchedOK, NEW t \in Thread, NEW level \in Level,
           real_priority' = [real_priority EXCEPT ![t] = level],
           readyQ' = IF Linked(readyQ, t)
                     THEN QueueThreadReady(DequeueThreadFromReady(readyQ, t, real_priority[t]), t, level)
                     ELSE readyQ,
           state' = state, crr_thread' = crr_thread, halted => halted'
    PROVE  readyQ' \in ReadyQueues /\ real_priority' \in [Thread -> Level] /\ SchedOK'
<1>1. /\ readyQ \in ReadyQueues /\ real_priority \in [Thread -> Level] /\ RingsOK(readyQ, real_priority)
  BY DEF SchedType, SchedOK
<1>2. \A r : r = readyQ' => /\ r \in ReadyQueues /\ RingsOK(r, [real_priority EXCEPT ![t] = level])
                            /\ \A u \in Thread : Linked(r, u) <=> Linked(readyQ, u)
  BY <1>1, RequeueRings
<1>3. real_priority' \in [Thread -> Level]
  BY <1>1
<1>. QED BY <1>2, <1>3 DEF SchedOK

-----------------------------------------------------------------------------
(***************************************************************************)
(* Steps of the semaphores.                                                *)
(***************************************************************************)

\* The front of a non-empty queue of waiters is one of them.
LEMMA ForemostFacts ==
    ASSUME NEW S \in SUBSET Thread, NEW pri, NEW t \in Foremost(S, pri, Nil)
    PROVE  /\ t \in ThreadPtr
           /\ S # {} => t \in S
           /\ S = {} => t = Nil
           /\ \A u \in S : pri[u] <= pri[t]
BY DEF Foremost, ThreadPtr

\* Priorities outside a set do not matter to its foremost members.
LEMMA ForemostSame ==
    ASSUME NEW S \in SUBSET Thread, NEW pri, NEW new, \A u \in S : new[u] = pri[u]
    PROVE  Foremost(S, new, Nil) = Foremost(S, pri, Nil)
BY DEF Foremost

\* Levels are numbers.
LEMMA LevelInt ==
    ASSUME NEW pri \in [Thread -> Level]
    PROVE  \A u \in Thread : pri[u] \in Int
<1>1. Level \subseteq Int
  BY LevelAssumption
<1>. QED BY <1>1

\* A queue of waiters holds finitely many threads.
LEMMA WaitersFinite ==
    ASSUME SemaType, NEW s \in Sema
    PROVE  /\ waits[s].elems \in SUBSET Thread /\ IsFiniteSet(waits[s].elems)
           /\ waits[s].top \in ThreadPtr
           /\ Cardinality(waits[s].elems) \in Nat
           /\ Cardinality(waits[s].elems) = 0 <=> waits[s].elems = {}
<1>1. waits[s].elems \in SUBSET Thread /\ waits[s].top \in ThreadPtr
  BY DEF SemaType, Heaps
<1>2. IsFiniteSet(waits[s].elems)
  BY <1>1, ThreadAssumption, FS_Subset
<1>3. Cardinality(waits[s].elems) \in Nat
  BY <1>2, FS_CardinalityType
<1>. QED BY <1>1, <1>2, <1>3, FS_EmptySet

\* A count changes while nobody waits: a wait takes a permit, a signal leaves one.
LEMMA CountStep ==
    ASSUME SemaType, SemaOK, NEW s \in Sema, NEW n \in Int, n >= 0, waits[s].elems = {},
           avail_count' = [avail_count EXCEPT ![s] = n],
           UNCHANGED <<wait_obj, waits, real_priority>>
    PROVE  SemaType' /\ SemaOK'
<1>1. SemaType' /\ \A r \in Sema : avail_count'[r] = IF r = s THEN n ELSE avail_count[r]
  BY DEF SemaType
<1>2. Cardinality(waits[s].elems) = 0
  BY FS_EmptySet
<1>3. ASSUME NEW r \in Sema
      PROVE  Cardinality(waits[r].elems) = IF avail_count'[r] < 0 THEN -avail_count'[r] ELSE 0
  <2>1. CASE r = s
    BY <1>1, <1>2, <2>1
  <2>2. CASE r # s
    BY <1>1, <2>2 DEF SemaOK
  <2>. QED BY <2>1, <2>2
<1>. QED BY <1>1, <1>3 DEF SemaOK

\* A thread that waits on nothing starts waiting on a semaphore without permits.
LEMMA BlockStep ==
    ASSUME SemaType, SemaOK, real_priority \in [Thread -> Level],
           NEW s \in Sema, NEW t \in Thread, wait_obj[t] = Nil, avail_count[s] <= 0,
           avail_count' = [avail_count EXCEPT ![s] = @ - 1],
           waits' = [waits EXCEPT ![s] = HeapPush(@, t, real_priority)],
           wait_obj' = [wait_obj EXCEPT ![t] = s], real_priority' = real_priority
    PROVE  SemaOK'
<1> DEFINE h == waits[s]
<1>1. /\ h.elems \in SUBSET Thread /\ IsFiniteSet(h.elems) /\ Cardinality(h.elems) = -avail_count[s]
      /\ avail_count[s] \in Int /\ s # Nil
      /\ h.top \in Foremost(h.elems, real_priority, Nil)
  BY WaitersFinite, NilAssumption, SemaAssumption DEF SemaType, SemaOK, Sema
<1>2. t \notin h.elems
  BY <1>1 DEF SemaOK
<1>3. /\ \A r \in Sema : waits'[r] = IF r = s THEN HeapPush(h, t, real_priority) ELSE waits[r]
      /\ \A r \in Sema : avail_count'[r] = IF r = s THEN avail_count[s] - 1 ELSE avail_count[r]
      /\ \A u \in Thread : wait_obj'[u] = IF u = t THEN s ELSE wait_obj[u]
  BY DEF SemaType
<1>4. /\ waits'[s].elems = h.elems \cup {t}
      /\ waits'[s].top = IF h.elems = {} THEN t
                         ELSE IF real_priority[h.top] < real_priority[t] THEN t ELSE h.top
  <2>1. waits'[s] = HeapPush(h, t, real_priority)
    BY <1>3
  <2>2. /\ HeapPush(h, t, real_priority).elems = h.elems \cup {t}
        /\ HeapPush(h, t, real_priority).top = IF h.elems = {} THEN t
               ELSE IF real_priority[h.top] < real_priority[t] THEN t ELSE h.top
    BY DEF HeapPush
  <2>. QED BY <2>1, <2>2
<1>5. Cardinality(h.elems \cup {t}) = Cardinality(h.elems) + 1
  BY <1>1, <1>2, FS_AddElement
<1>6. \A r \in Sema : Cardinality(waits'[r].elems) = IF avail_count'[r] < 0 THEN -avail_count'[r] ELSE 0
  <2> SUFFICES ASSUME NEW r \in Sema
               PROVE  Cardinality(waits'[r].elems) = IF avail_count'[r] < 0 THEN -avail_count'[r] ELSE 0
    OBVIOUS
  <2>1. CASE r = s
    <3>1. Cardinality(waits'[s].elems) = -avail_count[s] + 1
      BY <1>1, <1>4, <1>5
    <3>2. avail_count'[s] = avail_count[s] - 1 /\ avail_count[s] \in Int
      BY <1>1, <1>3
    <3>. QED BY <2>1, <3>1, <3>2
  <2>2. CASE r # s
    BY <1>3, <2>2 DEF SemaOK
  <2>. QED BY <2>1, <2>2
<1>7. \A r \in Sema, u \in Thread : u \in waits'[r].elems <=> wait_obj'[u] = r
  BY <1>1, <1>3, <1>4, NilAssumption, SemaAssumption DEF SemaOK, Sema
<1>8. waits'[s].top \in Foremost(waits'[s].elems, real_priority, Nil)
  <2>1. \A u \in Thread : real_priority[u] \in Int
    BY LevelInt
  <2>2. CASE h.elems = {}
    BY <1>4, <2>1, <2>2 DEF Foremost
  <2>3. CASE h.elems # {}
    <3>1. h.top \in h.elems /\ \A u \in h.elems : real_priority[u] <= real_priority[h.top]
      BY <1>1, <2>3, ForemostFacts
    <3>2. waits'[s].top = IF real_priority[h.top] < real_priority[t] THEN t ELSE h.top
      BY <1>4, <2>3
    <3>. QED BY <1>1, <1>4, <2>1, <3>1, <3>2 DEF Foremost
  <2>. QED BY <2>2, <2>3
<1>. QED BY <1>3, <1>6, <1>7, <1>8 DEF SemaOK

\* A signal on a semaphore with waiters: the front thread waits no longer.
LEMMA WakeStep ==
    ASSUME SemaType, SemaOK, NEW s \in Sema, avail_count[s] < 0, waits[s].elems # {},
           NEW h \in HeapPops(waits[s], real_priority, Nil),
           avail_count' = [avail_count EXCEPT ![s] = @ + 1],
           waits' = [waits EXCEPT ![s] = h],
           wait_obj' = [wait_obj EXCEPT ![waits[s].top] = Nil], real_priority' = real_priority
    PROVE  waits[s].top \in Thread /\ wait_obj[waits[s].top] = s /\ SemaType' /\ SemaOK'
<1> DEFINE t == waits[s].top
           E == waits[s].elems
<1>1. /\ E \in SUBSET Thread /\ IsFiniteSet(E) /\ Cardinality(E) = -avail_count[s]
      /\ avail_count[s] \in Int /\ s # Nil /\ t \in Foremost(E, real_priority, Nil)
  BY WaitersFinite, NilAssumption, SemaAssumption DEF SemaType, SemaOK, Sema
<1>2. t \in E /\ t \in Thread
  BY <1>1, ForemostFacts
<1>3. wait_obj[t] = s
  BY <1>2 DEF SemaOK
<1>4. h.elems = E \ {t} /\ h.top \in Foremost(E \ {t}, real_priority, Nil)
  BY DEF HeapPops
<1>5. h \in Heaps
  <2>1. E \ {t} \in SUBSET Thread
    BY <1>1
  <2>2. h.top \in ThreadPtr
    BY <1>4, <2>1, ForemostFacts
  <2>. QED BY <2>1, <2>2 DEF HeapPops, Heaps
<1>6. /\ \A r \in Sema : waits'[r] = IF r = s THEN h ELSE waits[r]
      /\ \A r \in Sema : avail_count'[r] = IF r = s THEN avail_count[s] + 1 ELSE avail_count[r]
      /\ \A u \in Thread : wait_obj'[u] = IF u = t THEN Nil ELSE wait_obj[u]
  BY <1>2 DEF SemaType
<1>7. SemaType'
  BY <1>1, <1>2, <1>5 DEF SemaType
<1>8. Cardinality(h.elems) = -avail_count[s] - 1
  <2> HIDE DEF t, E
  <2>0. IsFiniteSet(E) /\ t \in E
    BY <1>1, <1>2
  <2>1. Cardinality(E \ {t}) = Cardinality(E) - 1
    BY <2>0, FS_RemoveElement
  <2>. QED BY <1>1, <1>4, <2>1
<1> HIDE DEF t, E
<1>9. ASSUME NEW r \in Sema
      PROVE  Cardinality(waits'[r].elems) = IF avail_count'[r] < 0 THEN -avail_count'[r] ELSE 0
  <2>1. CASE r = s
    BY <1>1, <1>6, <1>8, <2>1
  <2>2. CASE r # s
    BY <1>6, <2>2 DEF SemaOK
  <2>. QED BY <2>1, <2>2
<1>10. ASSUME NEW r \in Sema, NEW u \in Thread
       PROVE  u \in waits'[r].elems <=> wait_obj'[u] = r
  <2>1. r # Nil
    BY NilAssumption, SemaAssumption DEF Sema
  <2>2. u \in waits[r].elems <=> wait_obj[u] = r
    BY DEF SemaOK
  <2>3. CASE r = s
    BY <1>4, <1>6, <2>1, <2>2, <2>3 DEF E
  <2>4. CASE r # s
    BY <1>3, <1>6, <2>1, <2>2, <2>4
  <2>. QED BY <2>3, <2>4
<1>11. ASSUME NEW r \in Sema PROVE waits'[r].top \in Foremost(waits'[r].elems, real_priority, Nil)
  <2>1. CASE r = s
    BY <1>4, <1>6, <2>1
  <2>2. CASE r # s
    BY <1>6, <2>2 DEF SemaOK
  <2>. QED BY <2>1, <2>2
<1>. QED BY <1>2, <1>3, <1>7, <1>9, <1>10, <1>11 DEF SemaOK, t

\* semaphore::priority_change after a thread's level changed: only the queue
\* the thread is in can have a stale front, and that one is resorted.
LEMMA ResortStep ==
    ASSUME SemaType, SemaOK, real_priority \in [Thread -> Level], NEW t \in Thread, NEW level \in Level,
           real_priority' = [real_priority EXCEPT ![t] = level],
           IF wait_obj[t] # Nil
           THEN \E h \in HeapResorts(waits[wait_obj[t]], real_priority', Nil) :
                    waits' = [waits EXCEPT ![wait_obj[t]] = h]
           ELSE waits' = waits,
           UNCHANGED <<avail_count, wait_obj>>
    PROVE  SemaType' /\ SemaOK'
<1>1. \A u \in Thread : u # t => real_priority'[u] = real_priority[u]
  OBVIOUS
<1>2. ASSUME NEW r \in Sema, r # wait_obj[t]
      PROVE  Foremost(waits[r].elems, real_priority', Nil) = Foremost(waits[r].elems, real_priority, Nil)
  <2>1. t \notin waits[r].elems /\ waits[r].elems \in SUBSET Thread
    BY <1>2, WaitersFinite DEF SemaOK
  <2>2. \A u \in waits[r].elems : real_priority'[u] = real_priority[u]
    BY <1>1, <2>1
  <2>. QED BY <2>1, <2>2, ForemostSame
<1>3. CASE wait_obj[t] = Nil
  <2>1. waits' = waits /\ \A r \in Sema : r # wait_obj[t]
    BY <1>3, NilAssumption, SemaAssumption DEF Sema
  <2>2. \A r \in Sema : waits[r].top \in Foremost(waits[r].elems, real_priority', Nil)
    BY <1>2, <2>1 DEF SemaOK
  <2>. QED BY <2>1, <2>2 DEF SemaType, SemaOK
<1>4. CASE wait_obj[t] # Nil
  <2> DEFINE s == wait_obj[t]
  <2>1. s \in Sema
    BY <1>4 DEF SemaType
  <2>2. PICK h \in HeapResorts(waits[s], real_priority', Nil) : waits' = [waits EXCEPT ![s] = h]
    BY <1>4
  <2>3. h.elems = waits[s].elems /\ h.top \in Foremost(waits[s].elems, real_priority', Nil)
    <3>1. PICK u \in Foremost(waits[s].elems, real_priority', Nil) :
                h = [elems |-> waits[s].elems, top |-> u]
      BY <2>2 DEF HeapResorts
    <3>. QED BY <3>1
  <2>4. h \in Heaps
    <3>1. waits[s].elems \in SUBSET Thread
      BY <2>1, WaitersFinite
    <3>2. h.top \in ThreadPtr
      BY <2>3, <3>1, ForemostFacts
    <3>. QED BY <2>2, <3>1, <3>2 DEF HeapResorts, Heaps
  <2> HIDE DEF s
  <2>5. waits' \in [Sema -> Heaps] /\ \A r \in Sema : waits'[r] = IF r = s THEN h ELSE waits[r]
    BY <2>1, <2>2, <2>4 DEF SemaType
  <2>6. \A r \in Sema : waits'[r].elems = waits[r].elems
    BY <2>3, <2>5
  <2>7. \A r \in Sema : waits'[r].top \in Foremost(waits'[r].elems, real_priority', Nil)
    BY <1>2, <2>3, <2>5 DEF SemaOK, s
  <2>. QED BY <2>5, <2>6, <2>7 DEF SemaType, SemaOK
<1>. QED BY <1>3, <1>4

-----------------------------------------------------------------------------
(***************************************************************************)
(* Every action preserves IInv.                                            *)
(***************************************************************************)
RestType ==
    /\ priority \in [Thread -> ThreadClass]
    /\ proc_priority \in [Process -> ProcessClass]
    /\ sleep_sts \in [Thread -> BOOLEAN]
    /\ wakeup \in [Thread -> {"idle", "scheduled", "firing"}]
    /\ thread_list \in [Process -> Seq(Thread)]
    /\ thread_count \in [Process -> 0..(CountWidth - 1)]
    /\ logon_requests \in [Process -> Seq(Thread)]
    /\ rendezvous_requests \in [Process -> Seq(Thread)]
    /\ work \in Seq(WorkItems)

\* The type invariant in three parts, one per group of variables.
LEMMA TypeParts == TypeOK <=> SchedType /\ SemaType /\ RestType
BY DEF TypeOK, SchedType, SemaType, RestType

\* What holds in a state a step starts from: every action needs a live emulator.
LEMMA StepStart ==
    ASSUME IInv, fault = "none"
    PROVE  SchedType /\ SemaType /\ RestType /\ SchedOK /\ SemaOK /\ LifeOK
BY TypeParts DEF IInv, Alive

\* What a step has to establish.
LEMMA StepEnd ==
    ASSUME SchedType', SemaType', RestType', fault' = "none" => SchedOK' /\ SemaOK' /\ LifeOK'
    PROVE  IInv'
<1>1. TypeOK'
  BY DEF TypeOK, SchedType, SemaType, RestType
<1>. QED BY <1>1 DEF IInv, Alive

\* A supervisor call runs on behalf of a thread that is running and exists.
LEMMA SvcFacts ==
    ASSUME IInv, NEW name, Svc(name)
    PROVE  /\ fault = "none" /\ work = <<>> /\ ~halted
           /\ crr_thread \in Thread /\ state[crr_thread] = "run" /\ Exists(crr_thread)
<1>1. fault = "none" /\ work = <<>> /\ ~halted /\ crr_thread # Nil
  BY DEF Svc, GuestRuns
<1>2. crr_thread \in Thread /\ state[crr_thread] = "run"
  BY <1>1, StepStart DEF SchedType, SchedOK, ThreadPtr
<1>3. Exists(crr_thread)
  BY <1>1, <1>2, StepStart DEF LifeOK
<1>. QED BY <1>1, <1>2, <1>3

\* semaphore::wait
LEMMA SemaphoreWaitInv ==
    ASSUME IInv, NEW name, Svc(name), NEW s \in Sema, SemaphoreWait(s)
    PROVE  IInv'
<1> DEFINE t == crr_thread
<1>1. /\ SchedType /\ SemaType /\ RestType /\ SchedOK /\ SemaOK /\ LifeOK
      /\ fault = "none" /\ t \in Thread /\ state[t] = "run" /\ Exists(t)
  BY SvcFacts, StepStart
<1>2. RestType'
  BY <1>1 DEF RestType, SemaphoreWait, sleepVars, procVars, classVars
<1>3. \A u \in Thread : Exists(u)' <=> Exists(u)
  BY DEF SemaphoreWait, procVars, Exists
<1>4. sleep_sts' = sleep_sts /\ wakeup' = wakeup
  BY DEF SemaphoreWait, sleepVars
<1>5. CASE avail_count[s] > 0
  <2>1. /\ avail_count' = [avail_count EXCEPT ![s] = avail_count[s] - 1]
        /\ UNCHANGED <<schedVars, wait_obj, waits>>
    BY <1>1, <1>5 DEF SemaphoreWait, SemaType
  <2>2. waits[s].elems = {} /\ avail_count[s] - 1 \in Int /\ avail_count[s] - 1 >= 0
    BY <1>1, <1>5, WaitersFinite DEF SemaType, SemaOK
  <2>3. SemaType' /\ SemaOK'
    BY <1>1, <2>1, <2>2, CountStep DEF schedVars
  <2>4. SchedType' /\ SchedOK'
    BY <1>1, <2>1 DEF SchedType, SchedOK, schedVars
  <2>5. LifeOK'
    BY <1>1, <1>3, <1>4, <2>1, PrimaryAssumption DEF LifeOK, schedVars
  <2>. QED BY <1>2, <2>3, <2>4, <2>5, StepEnd
<1>6. CASE avail_count[s] <= 0
  <2>1. /\ avail_count' = [avail_count EXCEPT ![s] = @ - 1]
        /\ fault' = IF wait_obj[t] # Nil THEN "wait_assert" ELSE fault
        /\ waits' = [waits EXCEPT ![s] = HeapPush(@, t, real_priority)]
        /\ wait_obj' = [wait_obj EXCEPT ![t] = s]
        /\ state' = [state EXCEPT ![t] = "wait_fast_sema"]
        /\ readyQ' = DequeueThreadFromReady(readyQ, t, real_priority[t])
        /\ halted' = TRUE
        /\ UNCHANGED <<real_priority, time, crr_thread>>
    <3>1. Waitable(t)
      BY <1>1 DEF Waitable
    <3>2. ~(avail_count[s] > 0)
      BY <1>1, <1>6 DEF SemaType
    <3>. QED BY <3>1, <3>2 DEF SemaphoreWait
  <2>2. "wait_fast_sema" \in ThreadStates \ {"ready", "run"}
    BY DEF ThreadStates
  <2>3. readyQ' \in ReadyQueues /\ state' \in [Thread -> ThreadStates] /\ SchedOK'
    BY <1>1, <2>1, <2>2, UnreadyStep
  <2>4. SchedType'
    BY <1>1, <2>1, <2>3 DEF SchedType, Faults
  <2>5. SemaType'
    <3>1. waits[s].elems \in SUBSET Thread /\ waits[s].top \in ThreadPtr
      BY <1>1, WaitersFinite
    <3>2. HeapPush(waits[s], t, real_priority) \in Heaps
      BY <1>1, <3>1 DEF HeapPush, Heaps, ThreadPtr
    <3>. QED BY <1>1, <2>1, <3>2 DEF SemaType
  <2>6. ASSUME fault' = "none" PROVE SemaOK' /\ LifeOK'
    <3>1. wait_obj[t] = Nil
      BY <2>1, <2>6
    <3>2. real_priority \in [Thread -> Level] /\ s # Nil
      BY <1>1, NilAssumption, SemaAssumption DEF SchedType, Sema
    <3>3. SemaOK'
      BY <1>1, <1>6, <2>1, <3>1, <3>2, BlockStep
    <3>4. /\ \A u \in Thread : state'[u] = IF u = t THEN "wait_fast_sema" ELSE state[u]
          /\ \A u \in Thread : wait_obj'[u] = IF u = t THEN s ELSE wait_obj[u]
      BY <1>1, <2>1 DEF SchedType, SemaType
    <3>5. LifeOK'
      BY <1>1, <1>3, <1>4, <3>2, <3>4, PrimaryAssumption DEF LifeOK
    <3>. QED BY <3>3, <3>5
  <2>. QED BY <1>2, <2>3, <2>4, <2>5, <2>6, StepEnd
<1>7. avail_count[s] \in Int
  BY <1>1 DEF SemaType
<1>. QED BY <1>5, <1>6, <1>7

\* A step that leaves the scheduler and the semaphores alone.
LEMMA QuietStep ==
    ASSUME IInv, fault = "none", UNCHANGED <<schedVars, semaVars>>, thread_list' = thread_list, RestType',
           \A t \in Thread : wakeup'[t] # "idle" => sleep_sts'[t]
    PROVE  IInv'
<1>1. SchedType /\ SemaType /\ SchedOK /\ SemaOK /\ LifeOK
  BY StepStart
<1>2. SchedType' /\ SchedOK'
  BY <1>1 DEF SchedType, SchedOK, schedVars
<1>3. SemaType' /\ SemaOK'
  BY <1>1 DEF SemaType, SemaOK, schedVars, semaVars
<1>4. \A u \in Thread : Exists(u)' <=> Exists(u)
  BY DEF Exists
<1>5. LifeOK'
  BY <1>1, <1>4, PrimaryAssumption DEF LifeOK, schedVars, semaVars
<1>. QED BY <1>2, <1>3, <1>5, StepEnd

\* A list of signals is a list of work.
LEMMA SignalsType ==
    /\ \A n \in Nat, s \in Sema, b \in BOOLEAN : [i \in 1..n |-> SignalOf(s, b)] \in Seq(WorkItems)
    /\ \A r \in Seq(Thread), b \in BOOLEAN : CompleteAll(r, b) \in Seq(WorkItems)
    /\ \A s \in Sema, b \in BOOLEAN : <<SignalOf(s, b)>> \in Seq(WorkItems)
    /\ \A r \in Seq(Thread) : [i \in DOMAIN r |-> UpdateOf(r[i])] \in Seq(WorkItems)
<1>1. \A s \in Sema, b \in BOOLEAN : SignalOf(s, b) \in WorkItems
  BY DEF SignalOf, WorkItems
<1>2. \A t \in Thread : UpdateOf(t) \in WorkItems
  BY DEF UpdateOf, WorkItems
<1>3. Thread \subseteq Sema
  BY DEF Sema
<1> HIDE DEF SignalOf, UpdateOf, WorkItems
<1>4. \A n \in Nat, s \in Sema, b \in BOOLEAN : [i \in 1..n |-> SignalOf(s, b)] \in Seq(WorkItems)
  BY <1>1
<1>5. ASSUME NEW r \in Seq(Thread), NEW b \in BOOLEAN PROVE CompleteAll(r, b) \in Seq(WorkItems)
  <2>1. Len(r) \in Nat /\ DOMAIN r = 1..Len(r) /\ \A i \in 1..Len(r) : SignalOf(r[i], b) \in WorkItems
    BY <1>1, <1>3, LenProperties
  <2>. QED BY <2>1 DEF CompleteAll
<1>6. ASSUME NEW r \in Seq(Thread) PROVE [i \in DOMAIN r |-> UpdateOf(r[i])] \in Seq(WorkItems)
  <2>1. Len(r) \in Nat /\ DOMAIN r = 1..Len(r) /\ \A i \in 1..Len(r) : UpdateOf(r[i]) \in WorkItems
    BY <1>2, LenProperties
  <2>. QED BY <2>1
<1>. QED BY <1>1, <1>4, <1>5, <1>6

\* semaphore::signal only queues its iterations.
LEMMA SemaphoreSignalInv ==
    ASSUME IInv, NEW name, Svc(name), NEW s \in Sema, NEW n \in Nat, SemaphoreSignal(s, n)
    PROVE  IInv'
<1>1. fault = "none" /\ RestType /\ LifeOK
  BY SvcFacts, StepStart
<1>2. work' = [i \in 1..n |-> SignalOf(s, TRUE)] /\ UNCHANGED <<schedVars, semaVars, sleepVars, procVars, classVars>>
  BY DEF SemaphoreSignal
<1>3. work' \in Seq(WorkItems)
  BY <1>2, SignalsType
<1>4. RestType'
  BY <1>1, <1>2, <1>3 DEF RestType, sleepVars, procVars, classVars
<1>. QED BY <1>1, <1>2, <1>4, QuietStep DEF LifeOK, sleepVars, procVars

\* One iteration of semaphore::signal.
LEMMA SignalOnceInv ==
    ASSUME IInv, fault = "none", NEW s \in Sema, NEW svc \in BOOLEAN, SignalOnce(s, svc),
           RestType', UNCHANGED <<sleepVars, procVars, classVars>>
    PROVE  IInv'
<1> DEFINE t == waits[s].top
<1>1. SchedType /\ SemaType /\ SchedOK /\ SemaOK /\ LifeOK
  BY StepStart
<1>2. \A u \in Thread : Exists(u)' <=> Exists(u)
  BY DEF procVars, Exists
<1>3. sleep_sts' = sleep_sts /\ wakeup' = wakeup
  BY DEF sleepVars
<1>4. avail_count[s] \in Int /\ avail_count' = [avail_count EXCEPT ![s] = @ + 1]
  BY <1>1 DEF SemaType, SignalOnce
<1>5. CASE avail_count[s] >= 0 \/ waits[s].elems = {}
  <2>1. UNCHANGED <<schedVars, wait_obj, waits>>
    <3>1. ~(avail_count[s] < 0 /\ waits[s].elems # {})
      BY <1>4, <1>5
    <3>. QED BY <3>1 DEF SignalOnce
  <2>2. waits[s].elems = {} /\ avail_count[s] >= 0
    BY <1>1, <1>4, <1>5, WaitersFinite DEF SemaOK
  <2>3. avail_count' = [avail_count EXCEPT ![s] = avail_count[s] + 1] /\ avail_count[s] + 1 \in Int /\ avail_count[s] + 1 >= 0
    BY <1>4, <2>2
  <2>4. SemaType' /\ SemaOK'
    BY <1>1, <2>1, <2>2, <2>3, CountStep DEF schedVars
  <2>5. SchedType' /\ SchedOK'
    BY <1>1, <2>1 DEF SchedType, SchedOK, schedVars
  <2>6. LifeOK'
    BY <1>1, <1>2, <1>3, <2>1, PrimaryAssumption DEF LifeOK, schedVars
  <2>. QED BY <2>4, <2>5, <2>6, StepEnd
<1>6. CASE ~(avail_count[s] >= 0 \/ waits[s].elems = {})
  <2>1. PICK h \in HeapPops(waits[s], real_priority, Nil) : waits' = [waits EXCEPT ![s] = h]
    BY <1>6 DEF SignalOnce
  <2>2. /\ fault' = IF wait_obj[t] # s THEN "signal_assert" ELSE fault
        /\ wait_obj' = [wait_obj EXCEPT ![t] = Nil]
        /\ IF Resumable(t)
           THEN MakeReady(t) /\ halted' = (halted \/ svc)
           ELSE UNCHANGED <<readyQ, state, halted>>
        /\ UNCHANGED <<real_priority, time, crr_thread>>
    BY <1>6 DEF SignalOnce
  <2>3. avail_count[s] < 0 /\ waits[s].elems # {}
    BY <1>4, <1>6
  <2>4. t \in Thread /\ wait_obj[t] = s /\ SemaType' /\ SemaOK'
    BY <1>1, <1>4, <2>1, <2>2, <2>3, WakeStep
  <2>5. fault' = fault /\ s # Nil
    BY <2>2, <2>4, NilAssumption, SemaAssumption DEF Sema
  <2>6. Exists(t)
    BY <1>1, <2>4, <2>5 DEF LifeOK
  <2> HIDE DEF t
  <2>7. CASE Resumable(t)
    <3>1. /\ state[t] \notin {"ready", "run"} /\ MakeReady(t) /\ state' = [state EXCEPT ![t] = "ready"]
          /\ halted' = (halted \/ svc)
      BY <2>2, <2>7 DEF Resumable, MakeReady
    <3>2. halted => halted'
      BY <3>1
    <3>3. readyQ' \in ReadyQueues /\ state' \in [Thread -> ThreadStates] /\ SchedOK'
      BY <1>1, <2>2, <2>4, <3>1, <3>2, ReadyStep
    <3>4. halted' \in BOOLEAN
      BY <3>1
    <3>5. SchedType'
      BY <1>1, <2>2, <2>5, <3>3, <3>4 DEF SchedType
    <3>6. /\ \A u \in Thread : state'[u] = IF u = t THEN "ready" ELSE state[u]
          /\ \A u \in Thread : wait_obj'[u] = IF u = t THEN Nil ELSE wait_obj[u]
      BY <1>1, <2>2, <2>4, <3>1 DEF SchedType, SemaType
    <3>7. LifeOK'
      BY <1>1, <1>2, <1>3, <2>6, <3>6, PrimaryAssumption DEF LifeOK
    <3>. QED BY <2>4, <3>3, <3>5, <3>7, StepEnd
  <2>8. CASE ~Resumable(t)
    <3>1. UNCHANGED <<readyQ, state, halted>>
      BY <2>2, <2>8
    <3>2. SchedType' /\ SchedOK'
      BY <1>1, <2>2, <2>5, <3>1 DEF SchedType, SchedOK
    <3>3. state[t] # "wait_fast_sema"
      BY <1>1, <2>4, <2>8 DEF Resumable, SchedOK
    <3>4. \A u \in Thread : wait_obj'[u] = IF u = t THEN Nil ELSE wait_obj[u]
      BY <1>1, <2>2, <2>4 DEF SemaType
    <3>5. LifeOK'
      BY <1>1, <1>2, <1>3, <2>6, <3>1, <3>3, <3>4, PrimaryAssumption DEF LifeOK
    <3>. QED BY <2>4, <3>2, <3>5, StepEnd
  <2>. QED BY <2>7, <2>8
<1>. QED BY <1>5, <1>6

\* thread::update_priority
LEMMA UpdatePriorityInv ==
    ASSUME IInv, fault = "none", NEW t \in Thread,
           NEW classes \in [Thread -> ThreadClass], NEW pclasses \in [Process -> ProcessClass],
           UpdatePriority(t, classes, pclasses), halted => halted', halted' \in BOOLEAN,
           RestType', UNCHANGED <<sleepVars, procVars>>
    PROVE  IInv'
<1> DEFINE level == CalculateThreadPriority(pclasses[Owner[t]], classes[t])
<1>1. SchedType /\ SemaType /\ SchedOK /\ SemaOK /\ LifeOK
  BY StepStart
<1>2. level \in Level
  BY OwnerAssumption, LevelsAssumption
<1> HIDE DEF level
<1>3. /\ real_priority' = [real_priority EXCEPT ![t] = level]
      /\ readyQ' = IF Linked(readyQ, t)
                   THEN QueueThreadReady(DequeueThreadFromReady(readyQ, t, real_priority[t]), t, level)
                   ELSE readyQ
      /\ IF wait_obj[t] # Nil
         THEN \E h \in HeapResorts(waits[wait_obj[t]], real_priority', Nil) :
                  waits' = [waits EXCEPT ![wait_obj[t]] = h]
         ELSE waits' = waits
      /\ UNCHANGED <<wait_obj, avail_count, state, time, crr_thread, fault>>
  BY DEF UpdatePriority, level
<1>4. readyQ' \in ReadyQueues /\ real_priority' \in [Thread -> Level] /\ SchedOK'
  BY <1>1, <1>2, <1>3, RepriorStep
<1>5. SchedType'
  BY <1>1, <1>3, <1>4 DEF SchedType
<1>6. real_priority \in [Thread -> Level]
  BY <1>1 DEF SchedType
<1>7. SemaType' /\ SemaOK'
  BY <1>1, <1>2, <1>3, <1>6, ResortStep
<1>8. \A u \in Thread : Exists(u)' <=> Exists(u)
  BY DEF procVars, Exists
<1>9. LifeOK'
  BY <1>1, <1>3, <1>8, PrimaryAssumption DEF LifeOK, sleepVars
<1>. QED BY <1>4, <1>5, <1>7, <1>9, StepEnd

\* thread_set_priority
LEMMA ThreadSetPriorityInv ==
    ASSUME IInv, ThreadSetPriority
    PROVE  IInv'
<1>1. fault = "none" /\ RestType
  BY SvcFacts, StepStart DEF ThreadSetPriority
<1>2. PICK t \in Thread, c \in SetClass :
          priority' = [priority EXCEPT ![t] = c] /\ UpdatePriority(t, priority', proc_priority)
  BY DEF ThreadSetPriority
<1>3. priority' \in [Thread -> ThreadClass] /\ proc_priority \in [Process -> ProcessClass]
  BY <1>1, <1>2 DEF RestType, ThreadClass
<1>4. halted' = TRUE /\ UNCHANGED <<proc_priority, sleepVars, procVars, work>>
  BY DEF ThreadSetPriority
<1>5. RestType'
  BY <1>1, <1>3, <1>4 DEF RestType, sleepVars, procVars
<1>. QED BY <1>1, <1>2, <1>3, <1>4, <1>5, UpdatePriorityInv

\* process_set_priority only queues the updates of its threads.
LEMMA ProcessSetPriorityInv ==
    ASSUME IInv, ProcessSetPriority
    PROVE  IInv'
<1>1. fault = "none" /\ RestType /\ LifeOK
  BY SvcFacts, StepStart DEF ProcessSetPriority
<1>2. PICK p \in Process, c \in ProcessClass :
          /\ proc_priority' = [proc_priority EXCEPT ![p] = c]
          /\ work' = [i \in DOMAIN thread_list[p] |-> UpdateOf(thread_list[p][i])]
  BY DEF ProcessSetPriority
<1>3. UNCHANGED <<schedVars, semaVars, sleepVars, procVars, priority>>
  BY DEF ProcessSetPriority
<1>4. thread_list[p] \in Seq(Thread)
  BY <1>1 DEF RestType
<1>5. work' \in Seq(WorkItems)
  BY <1>2, <1>4, SignalsType
<1>6. RestType'
  BY <1>1, <1>2, <1>3, <1>5 DEF RestType, sleepVars, procVars
<1>. QED BY <1>1, <1>3, <1>6, QuietStep DEF LifeOK, sleepVars, procVars

\* An iteration of the kernel call in progress.
LEMMA ContinueCallInv ==
    ASSUME IInv, ContinueCall
    PROVE  IInv'
<1> DEFINE w == Head(work)
<1>1. fault = "none" /\ RestType /\ SchedType
  BY StepStart DEF ContinueCall
<1>2. work \in Seq(WorkItems) /\ work # <<>>
  BY <1>1 DEF RestType, ContinueCall
<1>3. w \in WorkItems /\ Tail(work) \in Seq(WorkItems)
  BY <1>2, HeadTailProperties
<1>4. work' = Tail(work) /\ UNCHANGED <<sleepVars, procVars, classVars>>
  BY DEF ContinueCall
<1>5. RestType'
  BY <1>1, <1>3, <1>4 DEF RestType, sleepVars, procVars, classVars
<1> HIDE DEF w
<1>6. CASE w.op = "signal" /\ SignalOnce(w.on, w.svc)
  <2>1. w.on \in Sema /\ w.svc \in BOOLEAN
    BY <1>3, <1>6 DEF WorkItems
  <2>. QED BY <1>1, <1>4, <1>5, <1>6, <2>1, SignalOnceInv
<1>7. CASE w.op = "update" /\ UpdatePriority(w.on, priority, proc_priority) /\ UNCHANGED halted
  <2>1. w.on \in Thread
    BY <1>3, <1>7 DEF WorkItems
  <2>2. priority \in [Thread -> ThreadClass] /\ proc_priority \in [Process -> ProcessClass]
    BY <1>1 DEF RestType
  <2>3. halted' \in BOOLEAN /\ (halted => halted')
    BY <1>1, <1>7 DEF SchedType
  <2>. QED BY <1>1, <1>4, <1>5, <1>7, <2>1, <2>2, <2>3, UpdatePriorityInv
<1>. QED BY <1>6, <1>7 DEF ContinueCall, w

\* thread_count's modulus is positive.
LEMMA CountWidthPositive == CountWidth \in Nat /\ CountWidth > 0
<1>1. Cardinality(Thread) \in Nat
  BY ThreadAssumption, FS_CardinalityType
<1>. QED BY <1>1, BoundsAssumption

\* thread_create
LEMMA ThreadCreateInv ==
    ASSUME IInv, ThreadCreate
    PROVE  IInv'
<1>1. SchedType /\ SemaType /\ RestType /\ SchedOK /\ SemaOK /\ LifeOK /\ fault = "none"
  BY SvcFacts, StepStart DEF ThreadCreate
<1>2. PICK t \in Thread :
          LET p == Owner[t]
          IN  /\ ~Exists(t)
              /\ thread_list' = [thread_list EXCEPT ![p] = Append(@, t)]
              /\ thread_count' = [thread_count EXCEPT ![p] = (@ + 1) % CountWidth]
              /\ real_priority' = [real_priority EXCEPT ![t] =
                                      CalculateThreadPriority(proc_priority[p], "normal")]
  BY DEF ThreadCreate
<1>3. UNCHANGED <<readyQ, state, time, crr_thread, halted, fault, semaVars, sleepVars, classVars,
                  logon_requests, rendezvous_requests, work>>
  BY DEF ThreadCreate
<1> DEFINE p == Owner[t]
           level == CalculateThreadPriority(proc_priority[p], "normal")
<1>4. p \in Process /\ level \in Level
  BY <1>1, OwnerAssumption, LevelsAssumption DEF RestType, ThreadClass
<1> HIDE DEF level
<1>5. state[t] = "create" /\ wait_obj[t] = Nil /\ ~Linked(readyQ, t)
  BY <1>1, <1>2 DEF LifeOK, SchedOK
<1>6. real_priority' = [real_priority EXCEPT ![t] = level]
  BY <1>2 DEF level
<1>7. readyQ' \in ReadyQueues /\ real_priority' \in [Thread -> Level] /\ SchedOK'
  BY <1>1, <1>3, <1>4, <1>5, <1>6, RepriorStep
<1>8. SchedType'
  BY <1>1, <1>3, <1>7 DEF SchedType
<1>9. SemaType' /\ SemaOK'
  <2>1. real_priority \in [Thread -> Level] /\ waits' = waits /\ UNCHANGED <<avail_count, wait_obj>>
    BY <1>1, <1>3 DEF SchedType, semaVars
  <2>. QED BY <1>1, <1>4, <1>5, <1>6, <2>1, ResortStep
<1>10. thread_list[p] \in Seq(Thread) /\ Append(thread_list[p], t) \in Seq(Thread)
  BY <1>1, <1>4 DEF RestType
<1>11. thread_count' \in [Process -> 0..(CountWidth - 1)]
  <2>1. (thread_count[p] + 1) % CountWidth \in 0..(CountWidth - 1)
    BY <1>1, <1>4, CountWidthPositive DEF RestType
  <2>. QED BY <1>1, <1>2, <1>4, <2>1 DEF RestType
<1>12. RestType'
  BY <1>1, <1>2, <1>3, <1>10, <1>11 DEF RestType, sleepVars, classVars
<1>13. \A u \in Thread : Exists(u) => Exists(u)'
  <2> SUFFICES ASSUME NEW u \in Thread, Exists(u) PROVE Exists(u)'
    OBVIOUS
  <2>1. PICK i \in DOMAIN thread_list[Owner[u]] : thread_list[Owner[u]][i] = u
    BY DEF Exists
  <2>2. CASE Owner[u] = p
    <3>1. thread_list'[p] = Append(thread_list[p], t)
      BY <1>1, <1>2, <1>4 DEF RestType
    <3>2. i \in DOMAIN Append(thread_list[p], t) /\ Append(thread_list[p], t)[i] = thread_list[p][i]
      BY <1>10, <2>1, <2>2
    <3>. QED BY <2>1, <2>2, <3>1, <3>2 DEF Exists
  <2>3. CASE Owner[u] # p
    BY <1>1, <1>2, <2>1, <2>3, OwnerAssumption DEF Exists, RestType
  <2>. QED BY <2>2, <2>3
<1>14. LifeOK'
  BY <1>1, <1>3, <1>13, PrimaryAssumption DEF LifeOK, semaVars, sleepVars
<1>. QED BY <1>7, <1>8, <1>9, <1>12, <1>14, StepEnd

\* An existing thread becomes ready by a call of another thread.
LEMMA ResumeInv ==
    ASSUME IInv, fault = "none", NEW t \in Thread, Exists(t), state[t] \notin {"ready", "run"}, MakeReady(t),
           halted => halted', halted' \in BOOLEAN,
           UNCHANGED <<real_priority, time, crr_thread, fault, semaVars, sleepVars, procVars, classVars, work>>
    PROVE  IInv'
<1>1. SchedType /\ SemaType /\ RestType /\ SchedOK /\ SemaOK /\ LifeOK
  BY StepStart
<1>2. readyQ' \in ReadyQueues /\ state' \in [Thread -> ThreadStates] /\ SchedOK'
  BY <1>1, ReadyStep
<1>3. SchedType'
  BY <1>1, <1>2 DEF SchedType
<1>4. SemaType' /\ SemaOK'
  BY <1>1 DEF SemaType, SemaOK, semaVars
<1>5. RestType'
  BY <1>1 DEF RestType, sleepVars, procVars, classVars
<1>6. \A u \in Thread : state'[u] = IF u = t THEN "ready" ELSE state[u]
  BY <1>1 DEF SchedType, MakeReady
<1>7. \A u \in Thread : Exists(u)' <=> Exists(u)
  BY DEF procVars, Exists
<1>8. LifeOK'
  BY <1>1, <1>6, <1>7, PrimaryAssumption DEF LifeOK, semaVars, sleepVars
<1>. QED BY <1>2, <1>3, <1>4, <1>5, <1>8, StepEnd

\* thread_resume
LEMMA ThreadResumeInv ==
    ASSUME IInv, ThreadResume
    PROVE  IInv'
<1>1. fault = "none" /\ SchedType
  BY SvcFacts, StepStart DEF ThreadResume
<1>2. PICK t \in Thread :
          /\ Exists(t)
          /\ \/ state[t] = "create" /\ MakeReady(t) /\ UNCHANGED halted
             \/ state[t] # "create" /\ Resumable(t) /\ MakeReady(t) /\ halted' = TRUE
  BY DEF ThreadResume
<1>3. state[t] \notin {"ready", "run"} /\ MakeReady(t)
  BY <1>2 DEF Resumable
<1>4. halted' \in BOOLEAN /\ (halted => halted')
  <2>1. halted' = halted \/ halted' = TRUE
    BY <1>2
  <2>. QED BY <1>1, <2>1 DEF SchedType
<1>5. UNCHANGED <<real_priority, time, crr_thread, fault, semaVars, sleepVars, procVars, classVars, work>>
  BY DEF ThreadResume
<1>. QED BY <1>1, <1>2, <1>3, <1>4, <1>5, ResumeInv

\* process_resume
LEMMA ProcessResumeInv ==
    ASSUME IInv, ProcessResume
    PROVE  IInv'
<1>1. fault = "none" /\ SchedType /\ LifeOK
  BY SvcFacts, StepStart DEF ProcessResume
<1>2. PICK p \in Process : Schedulable(Primary[p]) /\ MakeReady(Primary[p])
  BY DEF ProcessResume
<1>3. /\ Primary[p] \in Thread /\ Exists(Primary[p])
      /\ state[Primary[p]] \notin {"ready", "run"}
  BY <1>1, <1>2, PrimaryAssumption DEF Schedulable, LifeOK
<1>4. UNCHANGED <<real_priority, time, crr_thread, halted, fault, semaVars, sleepVars, procVars, classVars, work>>
  BY DEF ProcessResume
<1>5. halted' \in BOOLEAN /\ (halted => halted')
  BY <1>1, <1>4 DEF SchedType
<1>. QED BY <1>1, <1>2, <1>3, <1>4, <1>5, ResumeInv

\* thread_suspend
LEMMA ThreadSuspendInv ==
    ASSUME IInv, ThreadSuspend
    PROVE  IInv'
<1>1. SchedType /\ SemaType /\ RestType /\ SchedOK /\ SemaOK /\ LifeOK /\ fault = "none"
  BY SvcFacts, StepStart DEF ThreadSuspend
<1>2. PICK t \in Thread :
          /\ Exists(t) /\ state[t] # "create" /\ Waitable(t)
          /\ fault' = IF DequeueFaults(readyQ, t, real_priority[t]) THEN "null_link" ELSE fault
          /\ readyQ' = DequeueThreadFromReady(readyQ, t, real_priority[t])
          /\ state' = [state EXCEPT ![t] = "wait"]
  BY DEF ThreadSuspend
<1>3. halted' = TRUE /\ UNCHANGED <<real_priority, time, crr_thread, semaVars, sleepVars, procVars, classVars, work>>
  BY DEF ThreadSuspend
<1>4. "wait" \in ThreadStates \ {"ready", "run"}
  BY DEF ThreadStates
<1>5. readyQ' \in ReadyQueues /\ state' \in [Thread -> ThreadStates] /\ SchedOK'
  <2>1. CASE state[t] \in {"ready", "run"}
    BY <1>1, <1>2, <1>3, <1>4, <2>1, UnreadyStep
  <2>2. CASE state[t] \notin {"ready", "run"}
    <3>1. ~Linked(readyQ, t)
      BY <1>1, <2>2 DEF SchedOK
    <3>2. readyQ' = readyQ
      BY <1>2, <3>1 DEF Linked, DequeueThreadFromReady, DequeueFaults
    <3>. QED BY <1>1, <1>2, <1>3, <1>4, <2>2, <3>2, AsideStep DEF SchedType
  <2>. QED BY <2>1, <2>2
<1>6. SchedType'
  BY <1>1, <1>2, <1>3, <1>5 DEF SchedType, Faults
<1>7. SemaType' /\ SemaOK'
  BY <1>1, <1>3 DEF SemaType, SemaOK, semaVars
<1>8. RestType'
  BY <1>1, <1>3 DEF RestType, sleepVars, procVars, classVars
<1>9. \A u \in Thread : Exists(u)' <=> Exists(u)
  BY <1>3 DEF procVars, Exists
<1>10. \A u \in Thread : state'[u] = IF u = t THEN "wait" ELSE state[u]
  BY <1>1, <1>2 DEF SchedType
<1>11. LifeOK'
  BY <1>1, <1>2, <1>3, <1>9, <1>10, PrimaryAssumption DEF LifeOK, semaVars, sleepVars
<1>. QED BY <1>5, <1>6, <1>7, <1>8, <1>11, StepEnd

\* A decremented thread_count is in range again.
LEMMA DecrementType ==
    ASSUME NEW n \in 0..(CountWidth - 1), NEW by \in 0..1
    PROVE  Decrement(n, by) \in 0..(CountWidth - 1)
BY CountWidthPositive DEF Decrement

\* thread_scheduler::stop, by thread::kill or by a CPU exception
LEMMA StopInv ==
    ASSUME IInv, fault = "none", NEW t \in Thread, Exists(t), NEW extra \in 0..1, Stop(t, extra)
    PROVE  IInv'
<1> DEFINE p == Owner[t]
           after == Decrement(thread_count[p], 1)
<1>1. SchedType /\ SemaType /\ RestType /\ SchedOK /\ SemaOK /\ LifeOK
  BY StepStart
<1>2. /\ p \in Process /\ thread_count[p] \in 0..(CountWidth - 1)
      /\ logon_requests[p] \in Seq(Thread) /\ rendezvous_requests[p] \in Seq(Thread)
  BY <1>1, OwnerAssumption DEF RestType
<1>3. /\ after \in 0..(CountWidth - 1) /\ Decrement(after, extra) \in 0..(CountWidth - 1)
      /\ Decrement(thread_count[p], extra) \in 0..(CountWidth - 1)
  <2>1. 1 \in 0..1
    OBVIOUS
  <2>2. after \in 0..(CountWidth - 1)
    BY <1>2, <2>1, DecrementType
  <2> HIDE DEF after
  <2>. QED BY <1>2, <2>2, DecrementType
<1> HIDE DEF after
<1>4. /\ wakeup' = [wakeup EXCEPT ![t] = IF wakeup[t] = "scheduled" THEN "idle" ELSE wakeup[t]]
      /\ fault' = IF StopFaults(t) THEN "null_link" ELSE fault
      /\ halted' = TRUE
      /\ UNCHANGED <<real_priority, time, crr_thread, semaVars, sleep_sts, thread_list, classVars>>
  BY <1>1 DEF Stop, RestType
<1>5. /\ Stoppable(t) => /\ readyQ' = StopQueue(t)
                         /\ state' = [state EXCEPT ![t] = "stop"]
                         /\ thread_count' = [thread_count EXCEPT ![p] = Decrement(after, extra)]
      /\ ~Stoppable(t) => /\ UNCHANGED <<readyQ, state, work, logon_requests, rendezvous_requests>>
                          /\ thread_count' = [thread_count EXCEPT ![p] = Decrement(thread_count[p], extra)]
  BY <1>1, <1>2 DEF Stop, after, RestType
<1>6. /\ thread_count' \in [Process -> 0..(CountWidth - 1)]
      /\ wakeup' \in [Thread -> {"idle", "scheduled", "firing"}]
  BY <1>1, <1>2, <1>3, <1>4, <1>5 DEF RestType
<1>7. /\ work' \in Seq(WorkItems)
      /\ logon_requests' \in [Process -> Seq(Thread)] /\ rendezvous_requests' \in [Process -> Seq(Thread)]
  <2>1. CASE UNCHANGED <<work, logon_requests, rendezvous_requests>>
    BY <1>1, <2>1 DEF RestType
  <2>2. CASE /\ work' = CompleteAll(logon_requests[p] \o rendezvous_requests[p], TRUE)
             /\ logon_requests' = [logon_requests EXCEPT ![p] = <<>>]
             /\ rendezvous_requests' = [rendezvous_requests EXCEPT ![p] = <<>>]
    <3>1. logon_requests[p] \o rendezvous_requests[p] \in Seq(Thread) /\ <<>> \in Seq(Thread)
      BY <1>2, ConcatProperties
    <3>2. work' \in Seq(WorkItems)
      BY <2>2, <3>1, SignalsType
    <3>. QED BY <1>1, <1>2, <2>2, <3>1, <3>2 DEF RestType
  <2>. QED BY <2>1, <2>2 DEF Stop, after
<1>8. RestType'
  BY <1>1, <1>4, <1>6, <1>7 DEF RestType, classVars
<1>9. SemaType' /\ SemaOK'
  BY <1>1, <1>4 DEF SemaType, SemaOK, semaVars
<1>10. "stop" \in ThreadStates \ {"ready", "run"}
  BY DEF ThreadStates
<1>11. readyQ' \in ReadyQueues /\ state' \in [Thread -> ThreadStates] /\ SchedOK'
  <2>1. CASE ~Stoppable(t)
    BY <1>1, <1>4, <1>5, <2>1, SchedStutter DEF SchedType
  <2>2. CASE Stoppable(t) /\ state[t] \in {"ready", "run"}
    <3>1. Linked(readyQ, t)
      BY <1>1, <2>2 DEF SchedOK
    <3>2. readyQ' = DequeueThreadFromReady(readyQ, t, real_priority[t])
      BY <1>5, <2>2, <3>1 DEF StopQueue
    <3>. QED BY <1>1, <1>4, <1>5, <1>10, <2>2, <3>2, UnreadyStep
  <2>3. CASE Stoppable(t) /\ state[t] \notin {"ready", "run"}
    <3>1. ~Linked(readyQ, t)
      BY <1>1, <2>3 DEF SchedOK
    <3>2. state[t] \notin {"wait", "wait_fast_sema"}
      BY <2>3, <3>1 DEF Stoppable
    <3>3. readyQ' = readyQ
      BY <1>5, <2>3, <3>2 DEF StopQueue
    <3>. QED BY <1>1, <1>4, <1>5, <1>10, <2>3, <3>3, AsideStep DEF SchedType
  <2>. QED BY <2>1, <2>2, <2>3
<1>12. SchedType'
  BY <1>1, <1>4, <1>11 DEF SchedType, Faults
<1>13. \A u \in Thread : Exists(u)' <=> Exists(u)
  BY <1>4 DEF Exists
<1>14. \A u \in Thread : state'[u] = state[u] \/ (u = t /\ state'[u] = "stop")
  BY <1>1, <1>5 DEF SchedType
<1>15. \A u \in Thread : wakeup'[u] # "idle" => wakeup[u] # "idle"
  BY <1>1, <1>4 DEF RestType
<1>16. LifeOK'
  BY <1>1, <1>4, <1>13, <1>14, <1>15, PrimaryAssumption DEF LifeOK, semaVars
<1>. QED BY <1>8, <1>9, <1>11, <1>12, <1>16, StepEnd

\* thread_kill
LEMMA ThreadKillInv ==
    ASSUME IInv, ThreadKill
    PROVE  IInv'
<1>1. fault = "none"
  BY SvcFacts DEF ThreadKill
<1>2. PICK t \in Thread : Exists(t) /\ Stop(t, 1)
  BY DEF ThreadKill
<1>. QED BY <1>1, <1>2, StopInv

\* cpu_exception_thread_handle
LEMMA CpuExceptionInv ==
    ASSUME IInv, CpuException
    PROVE  IInv'
<1>1. fault = "none" /\ crr_thread \in Thread /\ Exists(crr_thread)
  BY SvcFacts DEF CpuException
<1>2. Stop(crr_thread, 0)
  BY DEF CpuException
<1>. QED BY <1>1, <1>2, StopInv

\* Erasing a request leaves a list of requests.
LEMMA EraseType ==
    ASSUME NEW r \in Seq(Thread), NEW t \in Thread, NEW k \in DOMAIN r
    PROVE  Erase(r, t) \in Seq(Thread)
<1> DEFINE i == CHOOSE j \in DOMAIN r : r[j] = t /\ \A m \in 1..(j - 1) : r[m] # t
           n == Len(r) - 1
<1>1. Len(r) \in Nat /\ DOMAIN r = 1..Len(r) /\ n \in Nat
  BY LenProperties
<1>2. Erase(r, t) = [j \in 1..n |-> IF j < i THEN r[j] ELSE r[j + 1]]
  BY DEF Erase
<1>3. \A j \in 1..n : r[j] \in Thread /\ r[j + 1] \in Thread
  BY <1>1, ElementOfSeq
<1> HIDE DEF i, n
<1>. QED BY <1>1, <1>2, <1>3

\* process_logon
LEMMA ProcessLogonInv ==
    ASSUME IInv, ProcessLogon
    PROVE  IInv'
<1>1. fault = "none" /\ RestType /\ LifeOK /\ crr_thread \in Thread
  BY SvcFacts, StepStart DEF ProcessLogon
<1>2. PICK p \in Process :
          \/ /\ logon_requests' = [logon_requests EXCEPT ![p] = Append(@, crr_thread)]
             /\ UNCHANGED rendezvous_requests
          \/ /\ rendezvous_requests' = [rendezvous_requests EXCEPT ![p] = Append(@, crr_thread)]
             /\ UNCHANGED logon_requests
  BY DEF ProcessLogon
<1>3. UNCHANGED <<schedVars, semaVars, sleepVars, thread_list, thread_count, classVars, work>>
  BY DEF ProcessLogon
<1>4. /\ Append(logon_requests[p], crr_thread) \in Seq(Thread)
      /\ Append(rendezvous_requests[p], crr_thread) \in Seq(Thread)
  BY <1>1 DEF RestType
<1>5. logon_requests' \in [Process -> Seq(Thread)] /\ rendezvous_requests' \in [Process -> Seq(Thread)]
  BY <1>1, <1>2, <1>4 DEF RestType
<1>6. RestType'
  BY <1>1, <1>3, <1>5 DEF RestType, sleepVars, classVars
<1>. QED BY <1>1, <1>3, <1>6, QuietStep DEF LifeOK, sleepVars

\* process_logon_cancel
LEMMA ProcessLogonCancelInv ==
    ASSUME IInv, ProcessLogonCancel
    PROVE  IInv'
<1>1. fault = "none" /\ RestType /\ LifeOK /\ crr_thread \in Thread
  BY SvcFacts, StepStart DEF ProcessLogonCancel
<1>2. PICK p \in Process :
          \/ /\ \E i \in DOMAIN logon_requests[p] : logon_requests[p][i] = crr_thread
             /\ logon_requests' = [logon_requests EXCEPT ![p] = Erase(@, crr_thread)]
             /\ UNCHANGED rendezvous_requests
          \/ /\ \E i \in DOMAIN rendezvous_requests[p] : rendezvous_requests[p][i] = crr_thread
             /\ rendezvous_requests' = [rendezvous_requests EXCEPT ![p] = Erase(@, crr_thread)]
             /\ UNCHANGED logon_requests
  BY DEF ProcessLogonCancel
<1>3. /\ work' = <<SignalOf(crr_thread, TRUE)>>
      /\ UNCHANGED <<schedVars, semaVars, sleepVars, thread_list, thread_count, classVars>>
  BY DEF ProcessLogonCancel
<1>4. logon_requests[p] \in Seq(Thread) /\ rendezvous_requests[p] \in Seq(Thread)
  BY <1>1 DEF RestType
<1>5. logon_requests' \in [Process -> Seq(Thread)] /\ rendezvous_requests' \in [Process -> Seq(Thread)]
  <2>1. ASSUME DOMAIN logon_requests[p] # {} PROVE Erase(logon_requests[p], crr_thread) \in Seq(Thread)
    BY <1>1, <1>4, <2>1, EraseType
  <2>2. ASSUME DOMAIN rendezvous_requests[p] # {} PROVE Erase(rendezvous_requests[p], crr_thread) \in Seq(Thread)
    BY <1>1, <1>4, <2>2, EraseType
  <2>. QED BY <1>1, <1>2, <2>1, <2>2 DEF RestType
<1>6. work' \in Seq(WorkItems)
  BY <1>1, <1>3, SignalsType DEF Sema
<1>7. RestType'
  BY <1>1, <1>3, <1>5, <1>6 DEF RestType, sleepVars, classVars
<1>. QED BY <1>1, <1>3, <1>7, QuietStep DEF LifeOK, sleepVars

\* process_rendezvous
LEMMA ProcessRendezvousInv ==
    ASSUME IInv, ProcessRendezvous
    PROVE  IInv'
<1> DEFINE p == Owner[crr_thread]
<1>1. fault = "none" /\ RestType /\ LifeOK /\ crr_thread \in Thread
  BY SvcFacts, StepStart DEF ProcessRendezvous
<1>2. /\ work' = CompleteAll(rendezvous_requests[p], TRUE)
      /\ rendezvous_requests' = [rendezvous_requests EXCEPT ![p] = <<>>]
      /\ UNCHANGED <<schedVars, semaVars, sleepVars, thread_list, thread_count, logon_requests, classVars>>
  BY DEF ProcessRendezvous
<1>3. p \in Process /\ rendezvous_requests[p] \in Seq(Thread)
  BY <1>1, OwnerAssumption DEF RestType
<1>4. work' \in Seq(WorkItems)
  BY <1>2, <1>3, SignalsType
<1>5. rendezvous_requests' \in [Process -> Seq(Thread)]
  BY <1>1, <1>2, <1>3 DEF RestType
<1>6. RestType'
  BY <1>1, <1>2, <1>4, <1>5 DEF RestType, sleepVars, classVars
<1>. QED BY <1>1, <1>2, <1>6, QuietStep DEF LifeOK, sleepVars

\* after
LEMMA AfterInv ==
    ASSUME IInv, After
    PROVE  IInv'
<1>1. /\ SchedType /\ SemaType /\ RestType /\ SchedOK /\ SemaOK /\ LifeOK
      /\ fault = "none" /\ crr_thread \in Thread
  BY SvcFacts, StepStart DEF After
<1>2. /\ fault' = IF sleep_sts[crr_thread] THEN "sleep_assert" ELSE fault
      /\ sleep_sts' = [sleep_sts EXCEPT ![crr_thread] = TRUE]
      /\ wakeup' = [wakeup EXCEPT ![crr_thread] = "scheduled"]
      /\ UNCHANGED <<readyQ, state, real_priority, time, crr_thread, halted, semaVars, procVars, classVars, work>>
  BY DEF After
<1>3. SchedType' /\ SchedOK'
  BY <1>1, <1>2 DEF SchedType, SchedOK, Faults
<1>4. SemaType' /\ SemaOK'
  BY <1>1, <1>2 DEF SemaType, SemaOK, semaVars
<1>5. RestType'
  BY <1>1, <1>2 DEF RestType, procVars, classVars
<1>6. \A u \in Thread : wakeup'[u] # "idle" => sleep_sts'[u]
  BY <1>1, <1>2 DEF LifeOK, RestType
<1>7. \A u \in Thread : Exists(u)' <=> Exists(u)
  BY <1>2 DEF procVars, Exists
<1>8. LifeOK'
  BY <1>1, <1>2, <1>6, <1>7, PrimaryAssumption DEF LifeOK, semaVars
<1>. QED BY <1>3, <1>4, <1>5, <1>8, StepEnd

\* The timer thread takes the wake-up event off its queue.
LEMMA WakeupDueInv ==
    ASSUME IInv, WakeupDue
    PROVE  IInv'
<1>1. fault = "none" /\ RestType /\ LifeOK
  BY StepStart DEF WakeupDue
<1>2. PICK t \in Thread : wakeup[t] = "scheduled" /\ wakeup' = [wakeup EXCEPT ![t] = "firing"]
  BY DEF WakeupDue
<1>3. UNCHANGED <<schedVars, semaVars, sleep_sts, procVars, classVars, work>>
  BY DEF WakeupDue
<1>4. RestType'
  BY <1>1, <1>2, <1>3 DEF RestType, procVars, classVars
<1>5. \A u \in Thread : wakeup'[u] # "idle" => sleep_sts'[u]
  BY <1>1, <1>2, <1>3 DEF LifeOK, RestType
<1>. QED BY <1>1, <1>3, <1>4, <1>5, QuietStep DEF procVars

\* thread::notify_sleep
LEMMA NotifySleepInv ==
    ASSUME IInv, NotifySleep
    PROVE  IInv'
<1>1. fault = "none" /\ RestType /\ LifeOK
  BY StepStart DEF NotifySleep
<1>2. PICK t \in Thread :
          /\ wakeup' = [wakeup EXCEPT ![t] = "idle"]
          /\ sleep_sts' = [sleep_sts EXCEPT ![t] = FALSE]
          /\ work' = IF sleep_sts[t] THEN <<SignalOf(t, FALSE)>> ELSE <<>>
  BY DEF NotifySleep
<1>3. UNCHANGED <<schedVars, semaVars, procVars, classVars>>
  BY DEF NotifySleep
<1>4. work' \in Seq(WorkItems)
  <2>1. <<SignalOf(t, FALSE)>> \in Seq(WorkItems) /\ <<>> \in Seq(WorkItems)
    <3>1. t \in Sema /\ FALSE \in BOOLEAN
      BY DEF Sema
    <3>. QED BY <3>1, SignalsType, EmptySeq
  <2>. QED BY <1>2, <2>1
<1>5. RestType'
  BY <1>1, <1>2, <1>3, <1>4 DEF RestType, procVars, classVars
<1>6. \A u \in Thread : wakeup'[u] # "idle" => sleep_sts'[u]
  BY <1>1, <1>2 DEF LifeOK, RestType
<1>. QED BY <1>1, <1>3, <1>5, <1>6, QuietStep DEF procVars

\* A turn of the main loop: a thread that is dispatched or preempted exists.
LEMMA MainLoopInv ==
    ASSUME IInv, NEW left, MainLoop(left)
    PROVE  IInv'
<1>1. /\ SchedType /\ SemaType /\ RestType /\ SchedOK /\ SemaOK /\ LifeOK /\ fault = "none"
  BY StepStart DEF MainLoop, Reschedule
<1>2. Reschedule(left) /\ UNCHANGED <<semaVars, sleepVars, procVars, classVars, work>>
  BY DEF MainLoop
<1>3. SchedType' /\ SchedOK' /\ \A u \in Thread : Linked(readyQ', u) <=> Linked(readyQ, u)
  BY <1>1, <1>2, RescheduleStep
<1>4. real_priority' = real_priority
  BY <1>2 DEF Reschedule
<1>5. SemaType' /\ SemaOK'
  BY <1>1, <1>2, <1>4 DEF SemaType, SemaOK, semaVars
<1>6. RestType'
  BY <1>1, <1>2 DEF RestType, sleepVars, procVars, classVars
<1>7. \A u \in Thread : Exists(u)' <=> Exists(u)
  BY <1>2 DEF procVars, Exists
<1>8. \A u \in Thread : state'[u] = state[u] \/ (Linked(readyQ, u) /\ state'[u] \in {"ready", "run"})
  <2>1. \E newt : SwitchContext(newt)
    BY <1>2 DEF Reschedule, RunFirst, RotateFirst, RunBelow
  <2>2. \A u \in Thread : state'[u] = state[u] \/ state'[u] \in {"ready", "run"}
    BY <2>1 DEF SwitchContext
  <2>. QED BY <1>3, <2>2 DEF SchedOK
<1>9. LifeOK'
  BY <1>1, <1>2, <1>7, <1>8, PrimaryAssumption DEF LifeOK, SchedOK, semaVars, sleepVars
<1>. QED BY <1>3, <1>5, <1>6, <1>9, StepEnd

-----------------------------------------------------------------------------
(***************************************************************************)
(* The theorems.                                                           *)
(***************************************************************************)

\* The booted system satisfies the inductive invariant.
LEMMA InitInv == Init => IInv
<1> SUFFICES ASSUME Init PROVE IInv
  OBVIOUS
<1> DEFINE b == Primary[Boot]
<1>1. b \in Thread
  BY PrimaryAssumption, BootAssumption
<1>2. priority \in [Thread -> ThreadClass] /\ proc_priority \in [Process -> ProcessClass]
  BY ClassAssumption DEF Init, ThreadClass
<1>3. real_priority \in [Thread -> Level]
  <2>1. \A t \in Thread : CalculateThreadPriority("foreground", priority[t]) \in Level
    BY <1>2, ClassAssumption, LevelsAssumption
  <2>. QED BY <2>1 DEF Init
<1>4. EmptyQueue \in ReadyQueues /\ RingsOK(EmptyQueue, real_priority) /\ \A t \in Thread : ~Linked(EmptyQueue, t)
  BY <1>3, EmptyRings
<1>5. readyQ = QueueThreadReady(EmptyQueue, b, real_priority[b]) /\ LinksOK(EmptyQueue, real_priority)
  BY <1>4 DEF Init, RingsOK
<1>6. readyQ \in ReadyQueues /\ RingsOK(readyQ, real_priority)
  BY <1>1, <1>3, <1>4, <1>5, QueueType, QueueRings
<1>7. \A t \in Thread : Linked(readyQ, t) <=> t = b
  <2>1. real_priority[b] \in Level
    BY <1>1, <1>3
  <2>. QED BY <1>1, <1>3, <1>4, <1>5, <2>1, QueueLinked
<1>8. state = [t \in Thread |-> IF t = b THEN "ready" ELSE "create"] /\ crr_thread = Nil /\ fault = "none" /\ halted = FALSE
  BY DEF Init
<1>9. SchedType
  <2>1. time = [t \in Thread |-> TimeSlice] /\ TimeSlice \in 0..TimeSlice
    BY TimeSliceAssumption DEF Init
  <2>2. time \in [Thread -> 0..TimeSlice]
    BY <2>1
  <2>3. state \in [Thread -> ThreadStates]
    BY <1>8 DEF ThreadStates
  <2>4. crr_thread \in ThreadPtr /\ fault \in Faults /\ halted \in BOOLEAN
    BY <1>8 DEF Faults, ThreadPtr
  <2>. QED BY <1>3, <1>6, <2>2, <2>3, <2>4 DEF SchedType
<1>10. SchedOK
  BY <1>6, <1>7, <1>8 DEF SchedOK
<1>11. /\ wait_obj = [t \in Thread |-> Nil] /\ waits = [s \in Sema |-> EmptyHeap(Nil)]
       /\ avail_count = [s \in Sema |-> IF s \in UserSema THEN InitCount ELSE 0]
  BY DEF Init
<1>12. SemaType
  BY <1>11, BoundsAssumption DEF SemaType, EmptyHeap, Heaps, ThreadPtr
<1>13. SemaOK
  <2>1. \A s \in Sema : waits[s].elems = {} /\ waits[s].top = Nil /\ avail_count[s] >= 0 /\ s # Nil
    BY <1>11, BoundsAssumption, NilAssumption, SemaAssumption DEF EmptyHeap, Sema
  <2>2. \A s \in Sema : Cardinality(waits[s].elems) = 0 /\ ~(avail_count[s] < 0)
    <3>1. Cardinality({}) = 0
      BY FS_EmptySet
    <3>2. \A s \in Sema : avail_count[s] \in Int
      BY <1>12 DEF SemaType
    <3>3. \A s \in Sema : Cardinality(waits[s].elems) = 0
      BY <2>1, <3>1, Zenon
    <3>4. \A s \in Sema : ~(avail_count[s] < 0)
      BY <2>1, <3>2
    <3>. QED BY <3>3, <3>4
  <2>3. \A s \in Sema : waits[s].top \in Foremost(waits[s].elems, real_priority, Nil)
    BY <2>1 DEF Foremost
  <2>4. \A s \in Sema, t \in Thread : t \in waits[s].elems <=> wait_obj[t] = s
    BY <1>11, <2>1
  <2>. QED BY <2>2, <2>3, <2>4 DEF SemaOK
<1>14. \A p \in Process : thread_list[p] = <<Primary[p]>> /\ Primary[p] \in Thread
  BY PrimaryAssumption DEF Init
<1>15. RestType
  <2>1. thread_list \in [Process -> Seq(Thread)]
    BY <1>14 DEF Init
  <2>2. thread_count \in [Process -> 0..(CountWidth - 1)]
    <3>1. Cardinality(Thread) \in Nat
      BY ThreadAssumption, FS_CardinalityType
    <3>2. 2 \in 0..(CountWidth - 1)
      BY <3>1, BoundsAssumption
    <3>. QED BY <3>2 DEF Init
  <2>3. /\ logon_requests \in [Process -> Seq(Thread)] /\ rendezvous_requests \in [Process -> Seq(Thread)]
        /\ work \in Seq(WorkItems)
    BY EmptySeq DEF Init
  <2>. QED BY <1>2, <2>1, <2>2, <2>3 DEF Init, RestType
<1>16. LifeOK
  <2>1. \A p \in Process : Exists(Primary[p])
    BY <1>14, PrimaryAssumption DEF Exists
  <2>2. Exists(b)
    BY <2>1, BootAssumption
  <2>. QED BY <1>8, <1>11, <2>1, <2>2 DEF Init, LifeOK
<1>. QED BY <1>9, <1>10, <1>12, <1>13, <1>15, <1>16, TypeParts DEF IInv

\* Every step preserves the inductive invariant.
LEMMA NextInv == IInv /\ [Next]_vars => IInv'
<1> SUFFICES ASSUME IInv, [Next]_vars PROVE IInv'
  OBVIOUS
<1>1. CASE SemaphoreWaitSvc
  BY <1>1, SemaphoreWaitInv DEF SemaphoreWaitSvc, Sema
<1>2. CASE WaitForAnyRequest
  BY <1>2, SvcFacts, SemaphoreWaitInv DEF WaitForAnyRequest, Sema
<1>3. CASE SemaphoreSignalSvc
  <2>1. SignalCounts \subseteq Nat
    BY BoundsAssumption
  <2>. QED BY <1>3, <2>1, SemaphoreSignalInv DEF SemaphoreSignalSvc, Sema
<1>4. CASE RequestSignalSvc
  <2>1. SignalCounts \subseteq Nat /\ 1 \in Nat
    BY BoundsAssumption
  <2>2. crr_thread \in Sema /\ Thread \subseteq Sema
    BY <1>4, SvcFacts DEF RequestSignalSvc, Sema
  <2>. QED BY <1>4, <2>1, <2>2, SemaphoreSignalInv DEF RequestSignalSvc
<1>5. CASE \E left \in 0..TimeSlice : MainLoop(left)
  BY <1>5, MainLoopInv
<1>6. CASE UNCHANGED vars
  <2>1. UNCHANGED <<schedVars, semaVars, sleepVars, procVars, classVars, work>>
    BY <1>6 DEF vars
  <2>2. /\ TypeOK' <=> TypeOK
        /\ SchedOK' <=> SchedOK
        /\ SemaOK' <=> SemaOK
    BY <2>1 DEF TypeOK, SchedOK, SemaOK, schedVars, semaVars, sleepVars, procVars, classVars
  <2>3. LifeOK' <=> LifeOK
    BY <2>1 DEF LifeOK, Exists, schedVars, semaVars, sleepVars, procVars
  <2>4. fault' = fault
    BY <2>1 DEF schedVars
  <2>. QED BY <2>2, <2>3, <2>4 DEF IInv, Alive
<1>. QED
  BY <1>1, <1>2, <1>3, <1>4, <1>5, <1>6, ContinueCallInv, ThreadSetPriorityInv, ProcessSetPriorityInv,
     ThreadCreateInv, ThreadResumeInv, ProcessResumeInv, ThreadSuspendInv, ThreadKillInv, CpuExceptionInv,
     ProcessLogonInv, ProcessLogonCancelInv, ProcessRendezvousInv, AfterInv, WakeupDueInv, NotifySleepInv
  DEF Next

\* IInv is an invariant of the kernel.
THEOREM Inductive == Spec => []IInv
BY InitInv, NextInv, PTL DEF Spec

\* Every variable keeps its type in every reachable state.
THEOREM TypeCorrect == Spec => []TypeOK
<1>1. IInv => TypeOK
  BY DEF IInv
<1>. QED BY <1>1, Inductive, PTL

\* The ready rings stay well linked under every sequence of calls, and hold exactly
\* the threads that are ready or running.
THEOREM ReadyQueueSound == Spec => []ReadyRingsSound
<1>1. IInv => ReadyRingsSound
  BY DEF IInv, SchedOK, RingsOK, LinksIntact, ReadyIffLinked, ReadyRingsSound
<1>. QED BY <1>1, Inductive, PTL

\* The threads linked at a level stay on one ring.
THEOREM RingsWhole == Spec => []NoThreadLost
<1>1. IInv => NoThreadLost
  BY DEF IInv, SchedOK, RingsOK, NoThreadLost
<1>. QED BY <1>1, Inductive, PTL

\* The guest CPU executes only a thread in the run state.
THEOREM CpuSound == Spec => []CpuRunsRunningThread
<1>1. IInv => CpuRunsRunningThread
  BY DEF IInv, SchedOK, CpuRunsRunningThread, GuestRuns, Alive
<1>. QED BY <1>1, Inductive, PTL

\* A semaphore's negative count is the number of its waiters.
THEOREM CountsSound == Spec => []CountMatchesWaiters
<1>1. IInv => CountMatchesWaiters
  BY DEF IInv, SemaOK, CountMatchesWaiters
<1>. QED BY <1>1, Inductive, PTL

\* A semaphore's queue and its waiters' wait_obj agree, a blocked thread is queued, and
\* the front of a queue is a waiter of the highest current priority.
THEOREM SemaphoresSound == Spec => []SemaphoreQueuesSound
<1>1. IInv => SemaphoreQueuesSound
  BY DEF IInv, SemaOK, LifeOK, WaitObjMatchesQueue, BlockedIsQueued, FrontIsForemost, SemaphoreQueuesSound
<1>. QED BY <1>1, Inductive, PTL

\* The timer thread only completes requests that are outstanding.
THEOREM WakeupSound == Spec => []WakeupHasRequest
<1>1. IInv => WakeupHasRequest
  BY DEF IInv, LifeOK, WakeupHasRequest
<1>. QED BY <1>1, Inductive, PTL

-----------------------------------------------------------------------------
(***************************************************************************)
(* The semaphores implement CountingSemaphore.  The steps of semaphore::   *)
(* wait and ::signal do, also the one that ends in an assertion, and no    *)
(* other call touches a count or moves a waiter.                           *)
(***************************************************************************)
Permits == [s \in Sema |-> IF avail_count[s] > 0 THEN avail_count[s] ELSE 0]
Blocked == [s \in Sema |-> waits[s].elems]

\* semaphore::wait acquires a permit or blocks its caller.
LEMMA WaitIsWait ==
    ASSUME SemaType, NEW s \in Sema, SemaphoreWait(s), crr_thread \in Thread
    PROVE  Semaphores!Next \/ UNCHANGED <<Permits, Blocked>>
<1>1. /\ avail_count[s] \in Int
      /\ \A r \in Sema : avail_count'[r] = IF r = s THEN avail_count[s] - 1 ELSE avail_count[r]
  BY DEF SemaType, SemaphoreWait
<1>2. CASE avail_count[s] > 0
  <2>1. waits' = waits
    BY <1>1, <1>2 DEF SemaphoreWait
  <2>2. Permits' = [Permits EXCEPT ![s] = @ - 1] /\ Permits[s] > 0
    <3>1. Permits[s] = avail_count[s] /\ avail_count'[s] = avail_count[s] - 1
      BY <1>1, <1>2 DEF Permits
    <3>2. (IF avail_count'[s] > 0 THEN avail_count'[s] ELSE 0) = Permits[s] - 1
      BY <1>1, <1>2, <3>1
    <3>3. \A r \in Sema : r # s => (IF avail_count'[r] > 0 THEN avail_count'[r] ELSE 0) = Permits[r]
      BY <1>1 DEF Permits
    <3>. QED BY <1>2, <3>1, <3>2, <3>3 DEF Permits
  <2>3. Semaphores!Acquire(s)
    BY <2>1, <2>2 DEF Semaphores!Acquire, Permits, Blocked
  <2>. QED BY <2>3 DEF Semaphores!Next
<1>3. CASE avail_count[s] <= 0
  <2>0. PICK t \in Thread : t = crr_thread
    OBVIOUS
  <2>1. waits' = [waits EXCEPT ![s] = HeapPush(@, t, real_priority)]
    BY <1>1, <1>3, <2>0 DEF SemaphoreWait
  <2>2. Permits' = Permits /\ Permits[s] = 0
    BY <1>1, <1>3 DEF Permits
  <2>3. Blocked' = [Blocked EXCEPT ![s] = @ \cup {t}]
    BY <2>1 DEF SemaType, Blocked, HeapPush
  <2>4. CASE t \in Blocked[s]
    BY <2>2, <2>3, <2>4 DEF Blocked
  <2>5. CASE t \notin Blocked[s]
    <3>1. Semaphores!Block(s, t)
      BY <2>2, <2>3, <2>5 DEF Semaphores!Block, Permits, Blocked
    <3>. QED BY <3>1 DEF Semaphores!Next
  <2>. QED BY <2>4, <2>5
<1>. QED BY <1>1, <1>2, <1>3

\* An iteration of semaphore::signal grants a permit to a foremost waiter or keeps it.
LEMMA SignalIsSignal ==
    ASSUME SemaType, SemaOK, NEW s \in Sema, NEW svc, SignalOnce(s, svc)
    PROVE  Semaphores!Next
<1>1. /\ avail_count[s] \in Int
      /\ \A r \in Sema : avail_count'[r] = IF r = s THEN avail_count[s] + 1 ELSE avail_count[r]
  BY DEF SemaType, SignalOnce
<1>2. CASE avail_count[s] >= 0 \/ waits[s].elems = {}
  <2>1. waits' = waits
    BY <1>1, <1>2 DEF SignalOnce
  <2>2. waits[s].elems = {} /\ avail_count[s] >= 0
    BY <1>1, <1>2, WaitersFinite DEF SemaOK
  <2>3. Permits' = [Permits EXCEPT ![s] = @ + 1]
    <3>1. Permits[s] = avail_count[s] /\ avail_count'[s] = avail_count[s] + 1
      BY <1>1, <2>2 DEF Permits
    <3>2. (IF avail_count'[s] > 0 THEN avail_count'[s] ELSE 0) = Permits[s] + 1
      BY <1>1, <2>2, <3>1
    <3>3. \A r \in Sema : r # s => (IF avail_count'[r] > 0 THEN avail_count'[r] ELSE 0) = Permits[r]
      BY <1>1 DEF Permits
    <3>. QED BY <3>1, <3>2, <3>3 DEF Permits
  <2>4. Semaphores!Release(s)
    BY <2>1, <2>2, <2>3 DEF Semaphores!Release, Permits, Blocked
  <2>. QED BY <2>4 DEF Semaphores!Next
<1>3. CASE ~(avail_count[s] >= 0 \/ waits[s].elems = {})
  <2>1. PICK h \in HeapPops(waits[s], real_priority, Nil) : waits' = [waits EXCEPT ![s] = h]
    BY <1>3 DEF SignalOnce
  <2>2. PICK t : t = waits[s].top
    OBVIOUS
  <2>3. /\ waits[s].elems \in SUBSET Thread /\ waits[s].elems # {}
        /\ t \in Foremost(waits[s].elems, real_priority, Nil)
    BY <1>3, <2>2, WaitersFinite DEF SemaOK
  <2>4. t \in Thread /\ t \in Blocked[s] /\ \A u \in Blocked[s] : real_priority[u] <= real_priority[t]
    BY <2>3, ForemostFacts DEF Blocked
  <2>5. Blocked' = [Blocked EXCEPT ![s] = @ \ {t}]
    <3>1. h.elems = waits[s].elems \ {t}
      BY <2>2 DEF HeapPops
    <3>. QED BY <2>1, <3>1 DEF SemaType, Blocked
  <2>6. Permits' = Permits
    BY <1>1, <1>3 DEF Permits
  <2>7. Semaphores!Grant(s, t)
    BY <2>4, <2>5, <2>6 DEF Semaphores!Grant, Permits, Blocked
  <2>. QED BY <2>4, <2>7 DEF Semaphores!Next
<1>. QED BY <1>2, <1>3

\* thread::update_priority resorts a queue and moves nobody in or out of it.
LEMMA UpdateKeeps ==
    ASSUME SemaType, NEW t \in Thread, NEW classes, NEW pclasses, UpdatePriority(t, classes, pclasses)
    PROVE  UNCHANGED <<Permits, Blocked>>
<1>1. avail_count' = avail_count
  BY DEF UpdatePriority
<1>2. CASE wait_obj[t] # Nil
  <2>1. PICK s : s = wait_obj[t] /\ s \in Sema
    BY <1>2 DEF SemaType
  <2>2. PICK h : h.elems = waits[s].elems /\ waits' = [waits EXCEPT ![s] = h]
    BY <1>2, <2>1 DEF UpdatePriority, HeapResorts
  <2>3. Blocked' = Blocked
    BY <2>1, <2>2 DEF SemaType, Blocked
  <2>. QED BY <1>1, <2>3 DEF Permits
<1>3. CASE wait_obj[t] = Nil
  <2>1. waits' = waits
    BY <1>3 DEF UpdatePriority
  <2>. QED BY <1>1, <2>1 DEF Permits, Blocked
<1>. QED BY <1>2, <1>3

LEMMA SemaphoreStep == IInv /\ [Next]_vars => [Semaphores!Next]_<<Permits, Blocked>>
<1> SUFFICES ASSUME IInv, [Next]_vars PROVE Semaphores!Next \/ UNCHANGED <<Permits, Blocked>>
  OBVIOUS
<1>0. UNCHANGED semaVars => UNCHANGED <<Permits, Blocked>>
  BY DEF semaVars, Permits, Blocked
<1>1. CASE UNCHANGED vars
  BY <1>0, <1>1 DEF vars
<1>2. ASSUME NEW s \in Sema, NEW name, Svc(name), SemaphoreWait(s)
      PROVE  Semaphores!Next \/ UNCHANGED <<Permits, Blocked>>
  BY <1>2, SvcFacts, StepStart, WaitIsWait
<1>3. CASE SemaphoreWaitSvc
  BY <1>2, <1>3 DEF SemaphoreWaitSvc, Sema
<1>4. CASE WaitForAnyRequest
  <2>1. crr_thread \in Sema
    BY <1>4, SvcFacts DEF WaitForAnyRequest, Sema
  <2>. QED BY <1>2, <1>4, <2>1 DEF WaitForAnyRequest
<1>5. CASE ContinueCall
  <2>1. SemaType /\ SemaOK /\ work \in Seq(WorkItems) /\ work # <<>>
    BY <1>5, StepStart DEF ContinueCall, RestType
  <2>2. PICK w \in WorkItems : \/ w.op = "signal" /\ SignalOnce(w.on, w.svc)
                               \/ w.op = "update" /\ UpdatePriority(w.on, priority, proc_priority)
    BY <1>5, <2>1, HeadTailProperties DEF ContinueCall
  <2>3. (w.op = "signal" => w.on \in Sema) /\ (w.op = "update" => w.on \in Thread)
    BY DEF WorkItems
  <2>. QED BY <2>1, <2>2, <2>3, SignalIsSignal, UpdateKeeps
<1>6. CASE ThreadSetPriority
  BY <1>6, SvcFacts, StepStart, UpdateKeeps DEF ThreadSetPriority
<1>7. CASE ThreadKill \/ CpuException
  BY <1>0, <1>7 DEF ThreadKill, CpuException, Stop
<1>8. CASE SemaphoreSignalSvc \/ RequestSignalSvc
  BY <1>0, <1>8 DEF SemaphoreSignalSvc, RequestSignalSvc, SemaphoreSignal
<1>9. CASE \/ ProcessSetPriority \/ ThreadCreate \/ ThreadResume \/ ProcessResume \/ ThreadSuspend
           \/ ProcessLogon \/ ProcessLogonCancel \/ ProcessRendezvous \/ After \/ WakeupDue \/ NotifySleep
           \/ \E left \in 0..TimeSlice : MainLoop(left)
  BY <1>0, <1>9 DEF ProcessSetPriority, ThreadCreate, ThreadResume, ProcessResume, ThreadSuspend, ProcessLogon,
                    ProcessLogonCancel, ProcessRendezvous, After, WakeupDue, NotifySleep, MainLoop
<1>. QED BY <1>1, <1>3, <1>4, <1>5, <1>6, <1>7, <1>8, <1>9 DEF Next

\* Every semaphore is a counting semaphore that wakes a foremost waiter.
THEOREM SemaphoresCount == Spec => ImplementsSemaphore
<1>1. Init => Semaphores!Init
  <2> SUFFICES ASSUME Init PROVE Semaphores!Init
    OBVIOUS
  <2>1. Permits \in [Sema -> Nat] /\ Blocked = [s \in Sema |-> {}]
    BY BoundsAssumption DEF Init, Permits, Blocked, EmptyHeap
  <2>. QED BY <2>1 DEF Semaphores!Init, Permits, Blocked
<1>2. IInv /\ [Next]_vars => [Semaphores!Next]_Semaphores!semaphoreVars
  BY SemaphoreStep DEF Semaphores!semaphoreVars, Permits, Blocked
<1>. QED BY <1>1, <1>2, Inductive, PTL DEF Spec, ImplementsSemaphore, Semaphores!Spec

-----------------------------------------------------------------------------
(***************************************************************************)
(* The scheduler dispatches a thread of the highest ready level.  It does  *)
(* because no priority the two tables yield is above 31: next_ready_thread *)
(* looks at the word of the levels 0..31 first.                            *)
(***************************************************************************)
LevelsLow == \A t \in Thread : real_priority[t] < 32

\* The tables of thread::calculate_thread_priority.
LEMMA LevelsOfTable ==
    ASSUME NEW pp \in ProcessPriorities, NEW tp \in ThreadPriorities
    PROVE  CalculateThreadPriority(pp, tp) < 32
<1>1. ASSUME tp \in AbsolutePriority PROVE AbsoluteLevel[tp] < 32
  BY <1>1 DEF AbsolutePriority, AbsoluteLevel
<1>2. ASSUME tp \in RelativePriority PROVE RelativeLevel[pp][tp] < 32
  <2>1. CASE pp = "low"
    BY <1>2, <2>1 DEF RelativePriority, RelativeLevel
  <2>2. CASE pp = "background"
    BY <1>2, <2>2 DEF RelativePriority, RelativeLevel
  <2>3. CASE pp = "foreground"
    BY <1>2, <2>3 DEF RelativePriority, RelativeLevel
  <2>4. CASE pp = "high"
    BY <1>2, <2>4 DEF RelativePriority, RelativeLevel
  <2>5. CASE pp \in {"window_svr", "file_svr", "supervisor"}
    BY <1>2, <2>5 DEF RelativePriority, RelativeLevel
  <2>6. CASE pp = "real_time_svr"
    BY <1>2, <2>6 DEF RelativePriority, RelativeLevel
  <2>. QED BY <2>1, <2>2, <2>3, <2>4, <2>5, <2>6 DEF ProcessPriorities
<1>. QED BY <1>1, <1>2 DEF CalculateThreadPriority, ThreadPriorities

LEMMA LevelsStep == IInv /\ LevelsLow /\ [Next]_vars => LevelsLow'
<1> SUFFICES ASSUME IInv, LevelsLow, [Next]_vars PROVE LevelsLow'
  OBVIOUS
<1>0. UNCHANGED real_priority => LevelsLow'
  BY DEF LevelsLow
<1>1. ASSUME fault = "none", NEW t \in Thread, NEW pp \in ProcessClass, NEW tp \in ThreadClass,
             real_priority' = [real_priority EXCEPT ![t] = CalculateThreadPriority(pp, tp)]
      PROVE  LevelsLow'
  <2>1. CalculateThreadPriority(pp, tp) < 32
    BY ClassAssumption, LevelsOfTable
  <2>2. real_priority \in [Thread -> Level]
    BY <1>1, StepStart DEF SchedType
  <2>. QED BY <1>1, <2>1, <2>2 DEF LevelsLow
<1>2. ASSUME fault = "none", NEW t \in Thread, NEW classes \in [Thread -> ThreadClass],
             proc_priority \in [Process -> ProcessClass], UpdatePriority(t, classes, proc_priority)
      PROVE  LevelsLow'
  <2>1. PICK pp \in ProcessClass, tp \in ThreadClass : pp = proc_priority[Owner[t]] /\ tp = classes[t]
    BY <1>2, OwnerAssumption
  <2>2. real_priority' = [real_priority EXCEPT ![t] = CalculateThreadPriority(pp, tp)]
    BY <1>2, <2>1 DEF UpdatePriority
  <2>. QED BY <1>1, <1>2, <2>2
<1>3. CASE ThreadSetPriority
  <2>1. fault = "none" /\ RestType
    BY <1>3, SvcFacts, StepStart DEF ThreadSetPriority
  <2>2. PICK t \in Thread, c \in SetClass :
            priority' = [priority EXCEPT ![t] = c] /\ UpdatePriority(t, priority', proc_priority)
    BY <1>3 DEF ThreadSetPriority
  <2>3. priority' \in [Thread -> ThreadClass] /\ proc_priority \in [Process -> ProcessClass]
    BY <2>1, <2>2 DEF RestType, ThreadClass
  <2>. QED BY <1>2, <2>1, <2>2, <2>3
<1>4. CASE ContinueCall
  <2>1. fault = "none" /\ RestType /\ work \in Seq(WorkItems) /\ work # <<>>
    BY <1>4, StepStart DEF ContinueCall, RestType
  <2>2. PICK w \in WorkItems : \/ w.op = "signal" /\ SignalOnce(w.on, w.svc)
                               \/ w.op = "update" /\ UpdatePriority(w.on, priority, proc_priority)
    BY <1>4, <2>1, HeadTailProperties DEF ContinueCall
  <2>3. CASE SignalOnce(w.on, w.svc)
    BY <1>0, <2>3 DEF SignalOnce, schedVars
  <2>4. CASE w.op = "update" /\ UpdatePriority(w.on, priority, proc_priority)
    <3>1. w.on \in Thread
      BY <2>4 DEF WorkItems
    <3>. QED BY <1>2, <2>1, <2>4, <3>1 DEF RestType
  <2>. QED BY <2>2, <2>3, <2>4
<1>5. CASE ThreadCreate
  <2>1. fault = "none" /\ RestType
    BY <1>5, SvcFacts, StepStart DEF ThreadCreate
  <2>2. PICK t \in Thread : real_priority' = [real_priority EXCEPT ![t] =
                                                CalculateThreadPriority(proc_priority[Owner[t]], "normal")]
    BY <1>5 DEF ThreadCreate
  <2>3. "normal" \in ThreadClass /\ proc_priority[Owner[t]] \in ProcessClass
    BY <2>1, OwnerAssumption DEF ThreadClass, RestType
  <2>. QED BY <1>1, <2>1, <2>2, <2>3
<1>6. CASE UNCHANGED vars
  BY <1>0, <1>6 DEF vars, schedVars
<1>7. CASE SemaphoreWaitSvc \/ WaitForAnyRequest \/ SemaphoreSignalSvc \/ RequestSignalSvc
  BY <1>0, <1>7 DEF SemaphoreWaitSvc, WaitForAnyRequest, SemaphoreSignalSvc, RequestSignalSvc, SemaphoreWait,
                    SemaphoreSignal, schedVars
<1>8. CASE ThreadKill \/ CpuException \/ \E left \in 0..TimeSlice : MainLoop(left)
  BY <1>0, <1>8 DEF ThreadKill, CpuException, Stop, MainLoop, Reschedule
<1>9. CASE \/ ProcessSetPriority \/ ThreadResume \/ ProcessResume \/ ThreadSuspend
           \/ ProcessLogon \/ ProcessLogonCancel \/ ProcessRendezvous \/ After \/ WakeupDue \/ NotifySleep
  BY <1>0, <1>9 DEF ProcessSetPriority, ThreadResume, ProcessResume, ThreadSuspend, ProcessLogon,
                    ProcessLogonCancel, ProcessRendezvous, After, WakeupDue, NotifySleep, schedVars
<1>. QED BY <1>3, <1>4, <1>5, <1>6, <1>7, <1>8, <1>9 DEF Next

\* No thread's level is ever in the second word of ready_mask.
THEOREM LevelsStayLow == Spec => []LevelsLow
<1>1. Init => LevelsLow
  <2> SUFFICES ASSUME Init, NEW t \in Thread PROVE real_priority[t] < 32
    BY DEF LevelsLow
  <2>1. priority[t] \in ThreadPriorities /\ "foreground" \in ProcessPriorities
    BY ClassAssumption DEF Init, ThreadClass
  <2>2. real_priority[t] = CalculateThreadPriority("foreground", priority[t])
    BY DEF Init
  <2>. QED BY <2>1, <2>2, LevelsOfTable
<1>. QED BY <1>1, LevelsStep, Inductive, PTL DEF Spec

\* One turn of the main loop.
LEMMA DispatchTurn ==
    ASSUME IInv, LevelsLow, NEW left, MainLoop(left)
    PROVE  DispatchStep
<1> DEFINE ticked == Ticked(left)
           first  == NextReadyThread(readyQ)
           passed == {t \in Thread : Linked(readyQ, t) /\
                         (crr_thread' = Nil \/ real_priority[t] > real_priority[crr_thread'])}
<1>1. /\ readyQ \in ReadyQueues /\ real_priority \in [Thread -> Level] /\ RingsOK(readyQ, real_priority)
      /\ LinksOK(readyQ, real_priority) /\ Reschedule(left)
  BY StepStart DEF MainLoop, Reschedule, SchedType, SchedOK, RingsOK
<1>2. \A u \in Thread : real_priority[u] < 32 /\ real_priority[u] \in Int
  BY <1>1, LevelInt DEF LevelsLow
<1>3. \A u \in Thread : Linked(readyQ, u) => first \in Thread /\ real_priority[u] <= real_priority[first]
  BY <1>1, <1>2, NextReadyHighest
<1>4. first = Nil \/ (first \in Thread /\ Linked(readyQ, first))
  BY <1>1, NextReadyFacts
<1>5. RunFirst(ticked, first) \/ RotateFirst(ticked, first) \/ RunBelow(ticked, first)
  BY <1>1 DEF Reschedule
<1> HIDE DEF first, ticked
<1>6. CASE RunFirst(ticked, first)
  <2>1. crr_thread' = first
    BY <1>6 DEF RunFirst, SwitchContext
  <2>2. passed = {}
    BY <1>2, <1>3, <2>1, NilAssumption
  <2>. QED BY <2>2 DEF DispatchStep
<1>7. CASE RotateFirst(ticked, first)
  <2>1. crr_thread' = readyQ.next[first] /\ first \in Thread /\ Linked(readyQ, first)
    BY <1>4, <1>7 DEF RotateFirst, SwitchContext
  <2>2. crr_thread' \in Thread /\ real_priority[crr_thread'] = real_priority[first]
    BY <1>1, <2>1 DEF LinksOK, Linked, ReadyQueues, ThreadPtr
  <2>3. passed = {}
    BY <1>2, <1>3, <2>1, <2>2, NilAssumption
  <2>. QED BY <2>3 DEF DispatchStep
<1>8. CASE RunBelow(ticked, first)
  <2>0. first \in Thread
    BY <1>4, <1>8 DEF RunBelow
  <2>1. PICK without : without = DequeueThreadFromReady(readyQ, first, real_priority[first])
    OBVIOUS
  <2>2. /\ crr_thread' = NextReadyThread(without) /\ ticked[first] = 0
        /\ time' = [ticked EXCEPT ![first] = TimeSlice]
    BY <1>8, <2>1 DEF RunBelow, SwitchContext
  <2>3. /\ without \in ReadyQueues /\ RingsOK(without, real_priority)
        /\ \A u \in Thread : Linked(without, u) <=> u # first /\ Linked(readyQ, u)
    BY <1>1, <2>0, <2>1, UnlinkRings
  <2>4. \A u \in Thread : Linked(readyQ, u) /\ u # first =>
            crr_thread' \in Thread /\ real_priority[u] <= real_priority[crr_thread']
    BY <1>1, <1>2, <2>2, <2>3, NextReadyHighest
  <2>5. \A t \in passed : t = first
    BY <1>2, <2>4, NilAssumption
  <2>6. (time[first] = 0 \/ first = crr_thread) /\ time'[first] = TimeSlice
    BY <2>0, <2>2 DEF ticked, Ticked
  <2>. QED BY <2>5, <2>6 DEF DispatchStep
<1>. QED BY <1>5, <1>6, <1>7, <1>8

\* A turn of the main loop passes over no ready thread of a higher level, except for
\* one that is alone there and has just used up its slice.
THEOREM HighestDispatched == Spec => DispatchesHighest
<1>1. IInv /\ LevelsLow /\ [Next]_vars => [(\E left \in 0..TimeSlice : MainLoop(left)) => DispatchStep]_vars
  BY DispatchTurn
<1>. QED BY <1>1, Inductive, LevelsStayLow, PTL DEF Spec, DispatchesHighest

-----------------------------------------------------------------------------
(***************************************************************************)
(* The rings implement ReadyFifo.  The mapping takes each level's ring to  *)
(* the sequence of its threads.  What a call does to the rings is one of   *)
(* the four steps of the abstract queues, also when the call ends in a     *)
(* fault, since it starts from sound rings.                                *)
(***************************************************************************)
Queues == [p \in Level |-> Ring(readyQ, real_priority, p)]

\* A level's queue is a sequence of the threads linked at it.
LEMMA QueueLists ==
    ASSUME SoundRings(readyQ, real_priority), NEW p \in Level
    PROVE  /\ Queues[p] = Ring(readyQ, real_priority, p) /\ Lists(Queues[p], readyQ, real_priority, p)
           /\ Queues[p] \in Seq(Thread) /\ DOMAIN Queues[p] = 1..Len(Queues[p])
           /\ \A t \in Thread : Fifo!In(t, p) <=> t \in OnLevel(readyQ, real_priority, p)
<1>1. Queues[p] = Ring(readyQ, real_priority, p)
  BY DEF Queues
<1>2. Lists(Ring(readyQ, real_priority, p), readyQ, real_priority, p)
  BY ThreadAssumption, RingLists DEF SoundRings
<1>s. PICK s : s = Queues[p] /\ Lists(s, readyQ, real_priority, p)
  BY <1>1, <1>2
<1>3. s \in Seq(Thread) /\ DOMAIN s = 1..Len(s)
  BY <1>s DEF Lists
<1>4. ASSUME NEW t \in Thread PROVE (\E i \in DOMAIN s : s[i] = t) <=> t \in OnLevel(readyQ, real_priority, p)
  BY <1>s, <1>3 DEF Lists
<1>5. \A t \in Thread : Fifo!In(t, p) <=> \E i \in DOMAIN s : s[i] = t
  BY <1>s DEF Fifo!In, Queues
<1>. QED BY <1>1, <1>s, <1>3, <1>4, <1>5

\* A thread made ready enters at the back of its level.
LEMMA ReadyEnters ==
    ASSUME SoundRings(readyQ, real_priority), NEW t \in Thread, ~Linked(readyQ, t),
           readyQ' = QueueThreadReady(readyQ, t, real_priority[t]), real_priority' = real_priority
    PROVE  Fifo!Next
<1>p. PICK p \in Level : p = real_priority[t]
  BY DEF SoundRings
<1>1. \A x \in Level : ~Fifo!In(t, x)
  BY QueueLists DEF OnLevel
<1>2. ASSUME NEW x \in Level
      PROVE  Queues'[x] = IF x = p THEN Append(Queues[x], t) ELSE Queues[x]
  <2>1. PICK r : r = readyQ'
    OBVIOUS
  <2>2. Ring(r, real_priority, x) = IF x = real_priority[t] THEN Append(Ring(readyQ, real_priority, x), t)
                                    ELSE Ring(readyQ, real_priority, x)
    BY <2>1, Appended
  <2>. QED BY <1>p, <2>1, <2>2 DEF Queues
<1>3. Queues' = [Queues EXCEPT ![p] = Append(@, t)]
  BY <1>2 DEF Queues
<1>4. Fifo!Enter(t, p)
  BY <1>1, <1>3 DEF Fifo!Enter, Queues
<1>. QED BY <1>4 DEF Fifo!Next

\* Taking a thread's place out of a sequence that has it once.
LEMMA WithoutIs ==
    ASSUME NEW s \in Seq(Thread), NEW t, \E k \in 1..Len(s) : s[k] = t
    PROVE  \E k \in 1..Len(s) : s[k] = t /\ Fifo!Without(s, t) = Removal(s, k)
<1>1. DOMAIN s = 1..Len(s)
  OBVIOUS
<1>2. PICK k : k = CHOOSE i \in DOMAIN s : s[i] = t
  OBVIOUS
<1>3. k \in 1..Len(s) /\ s[k] = t
  BY <1>1, <1>2
<1>4. Fifo!Without(s, t) = Removal(s, k)
  BY <1>2 DEF Fifo!Without, Removal
<1>. QED BY <1>3, <1>4

\* What a thread leaves behind when it is taken off its ring.
LEMMA UnlinkedQueues ==
    ASSUME SoundRings(readyQ, real_priority), NEW t \in Thread, Linked(readyQ, t), NEW r,
           r = DequeueThreadFromReady(readyQ, t, real_priority[t]), NEW x \in Level
    PROVE  Ring(r, real_priority, x) = IF x = real_priority[t] THEN Fifo!Without(Queues[x], t) ELSE Queues[x]
<1>s. PICK s : s = Ring(readyQ, real_priority, x) /\ s = Queues[x] /\ s \in Seq(Thread)
  BY QueueLists
<1>1. /\ x # real_priority[t] => Ring(r, real_priority, x) = s
      /\ x = real_priority[t] => /\ \E k \in 1..Len(s) : s[k] = t
                                 /\ \A k \in 1..Len(s) : s[k] = t => Ring(r, real_priority, x) = Removal(s, k)
  <2>1. /\ x # real_priority[t] => Ring(DequeueThreadFromReady(readyQ, t, real_priority[t]), real_priority, x)
                                       = Ring(readyQ, real_priority, x)
        /\ x = real_priority[t] =>
              /\ \E k \in 1..Len(Ring(readyQ, real_priority, x)) : Ring(readyQ, real_priority, x)[k] = t
              /\ \A k \in 1..Len(Ring(readyQ, real_priority, x)) : Ring(readyQ, real_priority, x)[k] = t =>
                    Ring(DequeueThreadFromReady(readyQ, t, real_priority[t]), real_priority, x)
                        = Removal(Ring(readyQ, real_priority, x), k)
    BY Removed, ZenonT(30)
  <2>. QED BY <1>s, <2>1
<1>2. CASE x # real_priority[t]
  BY <1>s, <1>1, <1>2
<1>3. CASE x = real_priority[t]
  <2>1. PICK k \in 1..Len(s) : s[k] = t /\ Fifo!Without(s, t) = Removal(s, k)
    BY <1>s, <1>1, <1>3, WithoutIs
  <2>. QED BY <1>s, <1>1, <1>3, <2>1
<1>. QED BY <1>2, <1>3

\* A thread that is unlinked leaves its level, if it was on one.
LEMMA UnreadyLeaves ==
    ASSUME SoundRings(readyQ, real_priority), NEW t \in Thread,
           readyQ' = DequeueThreadFromReady(readyQ, t, real_priority[t]), real_priority' = real_priority
    PROVE  Fifo!Next \/ UNCHANGED Queues
<1>1. CASE ~Linked(readyQ, t)
  <2>1. readyQ' = readyQ
    BY <1>1 DEF DequeueThreadFromReady, DequeueFaults, Linked
  <2>. QED BY <2>1 DEF Queues
<1>2. CASE Linked(readyQ, t)
  <2>p. PICK p \in Level : p = real_priority[t]
    BY DEF SoundRings
  <2>1. Fifo!In(t, p)
    BY <1>2, <2>p, QueueLists DEF OnLevel
  <2>2. ASSUME NEW x \in Level
        PROVE  Queues'[x] = IF x = p THEN Fifo!Without(Queues[x], t) ELSE Queues[x]
    <3>1. PICK r : r = readyQ'
      OBVIOUS
    <3>2. Ring(r, real_priority, x) = IF x = real_priority[t] THEN Fifo!Without(Queues[x], t) ELSE Queues[x]
      BY <1>2, <3>1, UnlinkedQueues
    <3>3. Queues'[x] = Ring(r, real_priority, x)
      BY <3>1 DEF Queues
    <3>. QED BY <2>p, <3>2, <3>3
  <2>3. Queues' = [Queues EXCEPT ![p] = Fifo!Without(@, t)]
    BY <2>2 DEF Queues
  <2>4. Fifo!Leave(t, p)
    BY <2>1, <2>3 DEF Fifo!Leave, Queues
  <2>. QED BY <2>4 DEF Fifo!Next
<1>. QED BY <1>1, <1>2

\* thread::update_priority moves a linked thread to the back of its new level.
LEMMA RepriorMoves ==
    ASSUME SoundRings(readyQ, real_priority), NEW t \in Thread, NEW level \in Level,
           real_priority' = [real_priority EXCEPT ![t] = level],
           readyQ' = IF Linked(readyQ, t)
                     THEN QueueThreadReady(DequeueThreadFromReady(readyQ, t, real_priority[t]), t, level)
                     ELSE readyQ
    PROVE  Fifo!Next \/ UNCHANGED Queues
<1>n. PICK new \in [Thread -> Level] : new = real_priority' /\ new[t] = level
  BY DEF SoundRings
<1>1. CASE ~Linked(readyQ, t)
  <2>1. readyQ' = readyQ
    BY <1>1
  <2>2. \A x \in Level : Ring(readyQ, new, x) = Ring(readyQ, real_priority, x)
    <3>1. \A x \in Level : Ring(readyQ, [real_priority EXCEPT ![t] = level], x) = Ring(readyQ, real_priority, x)
      BY <1>1, RingsRepriored, ZenonT(30)
    <3>. QED BY <1>n, <3>1
  <2>. QED BY <1>n, <2>1, <2>2 DEF Queues
<1>2. CASE Linked(readyQ, t)
  <2>p. PICK p \in Level : p = real_priority[t]
    BY DEF SoundRings
  <2>w. PICK w : w = DequeueThreadFromReady(readyQ, t, real_priority[t])
    OBVIOUS
  <2>1. Fifo!In(t, p)
    BY <1>2, <2>p, QueueLists DEF OnLevel
  <2>2. SoundRings(w, real_priority) /\ ~Linked(w, t)
    BY <2>w, RemovedSound
  <2>3. SoundRings(w, new) /\ \A x \in Level : Ring(w, new, x) = Ring(w, real_priority, x)
    <3>1. /\ SoundRings(w, [real_priority EXCEPT ![t] = level])
          /\ \A x \in Level : Ring(w, [real_priority EXCEPT ![t] = level], x) = Ring(w, real_priority, x)
      BY <2>2, RingsRepriored, ZenonT(30)
    <3>. QED BY <1>n, <3>1
  <2>4. ASSUME NEW x \in Level
        PROVE  Queues'[x] = LET v == IF x = p THEN Fifo!Without(Queues[x], t) ELSE Queues[x]
                            IN IF x = level THEN Append(v, t) ELSE v
    <3>v. PICK v : v = IF x = p THEN Fifo!Without(Queues[x], t) ELSE Queues[x]
      OBVIOUS
    <3>1. Ring(w, real_priority, x) = v
      BY <1>2, <2>p, <2>w, <3>v, UnlinkedQueues
    <3>2. Ring(w, new, x) = v
      BY <2>3, <3>1
    <3>3. PICK r : r = readyQ' /\ r = QueueThreadReady(w, t, new[t])
      BY <1>2, <1>n, <2>w
    <3>4. Ring(r, new, x) = IF x = new[t] THEN Append(Ring(w, new, x), t) ELSE Ring(w, new, x)
      BY <2>2, <2>3, <3>3, Appended
    <3>5. Queues'[x] = Ring(r, new, x)
      BY <1>n, <3>3 DEF Queues
    <3>. QED BY <1>n, <3>v, <3>2, <3>4, <3>5
  <2>5. Queues' = [[Queues EXCEPT ![p] = Fifo!Without(@, t)] EXCEPT ![level] = Append(@, t)]
    <3>0. PICK Q : Q = Queues /\ DOMAIN Q = Level /\ Q = [x \in Level |-> Q[x]]
      BY DEF Queues
    <3>1. PICK M : M = [Q EXCEPT ![p] = Fifo!Without(@, t)]
      OBVIOUS
    <3>2. DOMAIN M = Level /\ \A x \in Level : M[x] = IF x = p THEN Fifo!Without(Q[x], t) ELSE Q[x]
      BY <3>0, <3>1
    <3>3. Queues' = [x \in Level |-> IF x = level THEN Append(M[x], t) ELSE M[x]]
      <4>1. \A x \in Level : Queues'[x] = IF x = level THEN Append(M[x], t) ELSE M[x]
        BY <2>4, <3>0, <3>2
      <4>. QED BY <4>1 DEF Queues
    <3>4. [M EXCEPT ![level] = Append(@, t)] = [x \in Level |-> IF x = level THEN Append(M[x], t) ELSE M[x]]
      BY <3>2
    <3>. QED BY <3>0, <3>1, <3>3, <3>4
  <2>6. Fifo!Move(t, p, level)
    BY <2>1, <2>5 DEF Fifo!Move, Queues
  <2>. QED BY <2>6 DEF Fifo!Next
<1>. QED BY <1>1, <1>2

\* next_ready_thread returns the first thread of a level.
LEMMA FirstIsFirst ==
    ASSUME SoundRings(readyQ, real_priority), NEW t, t = NextReadyThread(readyQ), t # Nil
    PROVE  t \in Thread /\ Linked(readyQ, t) /\ t = readyQ.readys[real_priority[t]]
<1>0. /\ readyQ \in ReadyQueues /\ real_priority \in [Thread -> Level] /\ RingsOK(readyQ, real_priority)
      /\ LinksOK(readyQ, real_priority)
  BY DEF SoundRings, RingsOK
<1>1. t \in Thread /\ Linked(readyQ, t)
  BY <1>0, NextReadyFacts
<1>2. readyQ.mask \in SUBSET (0..63) /\ {p \in readyQ.mask : p < 32} \in SUBSET (0..63)
  BY <1>0, LevelAssumption DEF ReadyQueues
<1>3. \A S \in SUBSET (0..63) : S # {} => Highest(S) \in S
  BY HighestIn
<1>4. \E p \in readyQ.mask : t = readyQ.readys[p]
  BY <1>2, <1>3 DEF NextReadyThread
<1>5. PICK p \in Level : t = readyQ.readys[p]
  BY <1>0, <1>4 DEF ReadyQueues
<1>6. real_priority[t] = p
  BY <1>0, <1>5 DEF LinksOK
<1>. QED BY <1>1, <1>5, <1>6

\* A turn of the main loop turns one ring or none: a thread that is dequeued and queued
\* again is alone on its level.
LEMMA TurnRotates ==
    ASSUME SoundRings(readyQ, real_priority), NEW left, Reschedule(left)
    PROVE  Fifo!Next \/ UNCHANGED Queues
<1>0. real_priority' = real_priority
  BY DEF Reschedule
<1>t. PICK ticked, first : ticked = Ticked(left) /\ first = NextReadyThread(readyQ)
  OBVIOUS
<1>1. RunFirst(ticked, first) \/ RotateFirst(ticked, first) \/ RunBelow(ticked, first)
  BY <1>t DEF Reschedule
<1>2. CASE RunFirst(ticked, first)
  BY <1>0, <1>2 DEF RunFirst, Queues
<1>3. ASSUME first # Nil
      PROVE  first \in Thread /\ Linked(readyQ, first) /\ first = readyQ.readys[real_priority[first]]
  BY <1>3, <1>t, FirstIsFirst
<1>4. CASE RotateFirst(ticked, first)
  <2>1. first # Nil /\ readyQ' = RotateReady(readyQ, first, real_priority[first])
    BY <1>4 DEF RotateFirst
  <2>p. PICK p \in Level : p = real_priority[first]
    BY <1>3, <2>1 DEF SoundRings
  <2>2. ASSUME NEW x \in Level
        PROVE  /\ x # p => Queues'[x] = Queues[x]
               /\ x = p => Queues[x] # <<>> /\ Queues'[x] = Append(Tail(Queues[x]), Head(Queues[x]))
    <3>s. PICK s : s = Ring(readyQ, real_priority, x) /\ s = Queues[x]
      BY QueueLists
    <3>1. /\ x # real_priority[first] =>
                Ring(RotateReady(readyQ, first, real_priority[first]), real_priority, x) = s
          /\ x = real_priority[first] =>
                /\ s # <<>>
                /\ Ring(RotateReady(readyQ, first, real_priority[first]), real_priority, x) = Append(Tail(s), Head(s))
      <4>1. /\ x # real_priority[first] =>
                  Ring(RotateReady(readyQ, first, real_priority[first]), real_priority, x)
                      = Ring(readyQ, real_priority, x)
            /\ x = real_priority[first] =>
                  /\ Ring(readyQ, real_priority, x) # <<>>
                  /\ Ring(RotateReady(readyQ, first, real_priority[first]), real_priority, x)
                         = Append(Tail(Ring(readyQ, real_priority, x)), Head(Ring(readyQ, real_priority, x)))
        BY <1>3, <2>1, Turned, ZenonT(40)
      <4>. QED BY <3>s, <4>1
    <3>2. Queues'[x] = Ring(RotateReady(readyQ, first, real_priority[first]), real_priority, x)
      BY <1>0, <2>1 DEF Queues
    <3>. QED BY <2>p, <3>s, <3>1, <3>2
  <2>3. Queues' = [Queues EXCEPT ![p] = Append(Tail(@), Head(@))] /\ Queues[p] # <<>>
    BY <2>2 DEF Queues
  <2>4. Fifo!Rotate(p)
    BY <2>3 DEF Fifo!Rotate, Queues
  <2>. QED BY <2>4 DEF Fifo!Next
<1>5. CASE RunBelow(ticked, first)
  <2>w. PICK w : w = DequeueThreadFromReady(readyQ, first, real_priority[first])
    OBVIOUS
  <2>1. first # Nil /\ readyQ.next[first] = first /\ readyQ' = QueueThreadReady(w, first, real_priority[first])
    BY <1>5, <2>w DEF RunBelow
  <2>2. first \in Thread /\ Linked(readyQ, first)
    BY <1>3, <2>1
  <2>3. SoundRings(w, real_priority) /\ ~Linked(w, first)
    BY <2>2, <2>w, RemovedSound
  <2>4. ASSUME NEW x \in Level PROVE Queues'[x] = Queues[x]
    <3>1. Ring(w, real_priority, x) =
            IF x = real_priority[first] THEN Fifo!Without(Queues[x], first) ELSE Queues[x]
      BY <2>2, <2>w, UnlinkedQueues
    <3>2. Ring(QueueThreadReady(w, first, real_priority[first]), real_priority, x) =
            IF x = real_priority[first] THEN Append(Ring(w, real_priority, x), first) ELSE Ring(w, real_priority, x)
      BY <2>2, <2>3, Appended
    <3>3. Queues'[x] = Ring(QueueThreadReady(w, first, real_priority[first]), real_priority, x)
      BY <1>0, <2>1 DEF Queues
    <3>4. CASE x # real_priority[first]
      BY <3>1, <3>2, <3>3, <3>4
    <3>5. CASE x = real_priority[first]
      <4>1. OnLevel(readyQ, real_priority, x) = {first}
        BY <2>1, <2>2, <3>5, LinkedFacts DEF SoundRings
      <4>s. PICK s : s = Queues[x] /\ Lists(s, readyQ, real_priority, x) /\ s \in Seq(Thread)
        BY QueueLists
      <4>2. /\ \A i \in 1..Len(s) : s[i] = first
            /\ \E i \in 1..Len(s) : s[i] = first
            /\ \A i, j \in 1..Len(s) : s[i] = s[j] => i = j
        BY <4>1, <4>s DEF Lists
      <4>3. Len(s) = 1 /\ s[1] = first
        <5>n. PICK n \in Nat : n = Len(s) /\ n >= 1
          BY <4>2, <4>s
        <5>1. 1 \in 1..n /\ n \in 1..n
          BY <5>n
        <5>2. s[1] = s[n] /\ s[1] = first
          BY <4>2, <5>n, <5>1
        <5>. QED BY <4>2, <5>n, <5>1, <5>2
      <4>4. PICK k \in 1..Len(s) : Fifo!Without(s, first) = Removal(s, k)
        BY <4>2, <4>s, WithoutIs
      <4>5. PICK e : e = Removal(s, k) /\ e \in Seq(Thread) /\ Len(e) = 0
        BY <4>3, <4>s, RemovedAt
      <4>6. Append(e, first) = s
        <5>0. e = <<>>
          BY <4>5
        <5>a. PICK a : a = Append(e, first)
          OBVIOUS
        <5>b. a = <<first>>
          BY <5>0, <5>a
        <5>1. a \in Seq(Thread) /\ Len(a) = 1 /\ a[1] = first
          BY <2>2, <5>b
        <5>2. Len(a) = Len(s) /\ \A i \in 1..Len(a) : a[i] = s[i]
          BY <4>3, <5>1
        <5>3. a = s
          BY <4>s, <5>1, <5>2, SeqEqual
        <5>. QED BY <5>a, <5>3
      <4>. QED BY <3>1, <3>2, <3>3, <3>5, <4>4, <4>5, <4>6, <4>s
    <3>. QED BY <3>4, <3>5
  <2>5. Queues' = Queues
    BY <2>4 DEF Queues
  <2>. QED BY <2>5
<1>. QED BY <1>1, <1>2, <1>4, <1>5

\* Stopping a thread takes it off its ring, if it was on one.
LEMMA StopLeaves ==
    ASSUME SoundRings(readyQ, real_priority), NEW t \in Thread, NEW extra, Stop(t, extra)
    PROVE  Fifo!Next \/ UNCHANGED Queues
<1>1. real_priority' = real_priority
  BY DEF Stop
<1>2. readyQ' = readyQ \/ readyQ' = DequeueThreadFromReady(readyQ, t, real_priority[t])
  BY DEF Stop, StopQueue
<1>3. CASE readyQ' = readyQ
  BY <1>1, <1>3 DEF Queues
<1>. QED BY <1>1, <1>2, <1>3, UnreadyLeaves

\* Every step of the kernel is a step of the queues, or leaves them alone.
LEMMA FifoStep == IInv /\ [Next]_vars => [Fifo!Next]_Queues
<1> SUFFICES ASSUME IInv, [Next]_vars PROVE Fifo!Next \/ UNCHANGED Queues
  OBVIOUS
<1>0. readyQ' = readyQ /\ real_priority' = real_priority => UNCHANGED Queues
  BY DEF Queues
<1>1. CASE UNCHANGED vars
  BY <1>0, <1>1 DEF vars, schedVars
<1>a. ASSUME fault = "none" PROVE SchedType /\ SchedOK /\ SoundRings(readyQ, real_priority)
  BY <1>a, StepStart, ThreadAssumption DEF SchedType, SchedOK, SoundRings
<1>b. \A name : Svc(name) => fault = "none" /\ crr_thread \in Thread
  BY SvcFacts
<1>2. ASSUME NEW s, NEW name, Svc(name), SemaphoreWait(s) PROVE Fifo!Next \/ UNCHANGED Queues
  <2>1. real_priority' = real_priority
        /\ (readyQ' = readyQ \/ readyQ' = DequeueThreadFromReady(readyQ, crr_thread, real_priority[crr_thread]))
    BY <1>2 DEF SemaphoreWait, schedVars
  <2>. QED BY <1>0, <1>2, <1>a, <1>b, <2>1, UnreadyLeaves
<1>3. CASE SemaphoreWaitSvc \/ WaitForAnyRequest
  BY <1>2, <1>3 DEF SemaphoreWaitSvc, WaitForAnyRequest
<1>4. ASSUME fault = "none", NEW t \in Thread, MakeReady(t), real_priority' = real_priority,
             state[t] \notin {"ready", "run"} \/ ~Linked(readyQ, t)
      PROVE  Fifo!Next
  BY <1>4, <1>a, ReadyEnters DEF MakeReady, SchedOK
<1>5. ASSUME fault = "none", NEW t \in Thread, NEW classes, NEW pclasses, UpdatePriority(t, classes, pclasses),
             classes \in [Thread -> ThreadClass], pclasses \in [Process -> ProcessClass]
      PROVE  Fifo!Next \/ UNCHANGED Queues
  <2>1. PICK level : level = CalculateThreadPriority(pclasses[Owner[t]], classes[t])
    OBVIOUS
  <2>2. level \in Level
    BY <1>5, <2>1, OwnerAssumption, LevelsAssumption
  <2>3. /\ real_priority' = [real_priority EXCEPT ![t] = level]
        /\ readyQ' = IF Linked(readyQ, t)
                     THEN QueueThreadReady(DequeueThreadFromReady(readyQ, t, real_priority[t]), t, level)
                     ELSE readyQ
    BY <1>5, <2>1 DEF UpdatePriority
  <2>. QED BY <1>5, <1>a, <2>2, <2>3, RepriorMoves
<1>6. CASE ContinueCall
  <2>1. fault = "none" /\ work \in Seq(WorkItems) /\ work # <<>>
    BY <1>6, StepStart DEF ContinueCall, RestType
  <2>2. PICK w \in WorkItems : \/ w.op = "signal" /\ SignalOnce(w.on, w.svc)
                               \/ w.op = "update" /\ UpdatePriority(w.on, priority, proc_priority)
    BY <1>6, <2>1, HeadTailProperties DEF ContinueCall
  <2>3. (w.op = "signal" => w.on \in Sema) /\ (w.op = "update" => w.on \in Thread)
    BY DEF WorkItems
  <2>4. CASE w.op = "signal" /\ SignalOnce(w.on, w.svc)
    <3>s. PICK s \in Sema : s = w.on
      BY <2>3, <2>4
    <3>t. PICK t : t = waits[s].top
      OBVIOUS
    <3>1. s = w.on /\ t = waits[s].top
      BY <3>s, <3>t
    <3>2. real_priority' = real_priority /\ (readyQ' = readyQ \/ (Resumable(t) /\ MakeReady(t) /\ waits[s].elems # {}))
      BY <2>4, <3>1 DEF SignalOnce, schedVars
    <3>3. waits[s].elems # {} => t \in Thread
      BY <2>1, <3>1, StepStart, WaitersFinite, ForemostFacts DEF SemaOK
    <3>. QED BY <1>0, <1>4, <2>1, <3>2, <3>3 DEF Resumable
  <2>5. CASE w.op = "update" /\ UpdatePriority(w.on, priority, proc_priority)
    <3>1. priority \in [Thread -> ThreadClass] /\ proc_priority \in [Process -> ProcessClass]
      BY DEF IInv, TypeOK
    <3>. QED BY <1>5, <2>1, <2>3, <2>5, <3>1
  <2>. QED BY <2>2, <2>4, <2>5
<1>7. CASE ThreadSetPriority
  <2>1. PICK t \in Thread, c \in SetClass : /\ priority' = [priority EXCEPT ![t] = c]
                                            /\ UpdatePriority(t, priority', proc_priority)
    BY <1>7 DEF ThreadSetPriority
  <2>2. fault = "none" /\ priority' \in [Thread -> ThreadClass] /\ proc_priority \in [Process -> ProcessClass]
    BY <1>7, <1>b, <2>1 DEF ThreadSetPriority, IInv, TypeOK, ThreadClass
  <2>. QED BY <1>5, <2>1, <2>2
<1>8. CASE ThreadCreate
  <2>1. fault = "none" /\ readyQ' = readyQ
    BY <1>8, <1>b DEF ThreadCreate
  <2>2. PICK t \in Thread : ~Exists(t) /\ real_priority' = [real_priority EXCEPT ![t] =
                                CalculateThreadPriority(proc_priority[Owner[t]], "normal")]
    BY <1>8 DEF ThreadCreate
  <2>3. PICK level \in Level : level = CalculateThreadPriority(proc_priority[Owner[t]], "normal")
    BY OwnerAssumption, LevelsAssumption DEF IInv, TypeOK, ThreadClass
  <2>4. ~Linked(readyQ, t)
    BY <2>1, <2>2, StepStart DEF LifeOK, SchedOK
  <2>. QED BY <1>a, <2>1, <2>2, <2>3, <2>4, RepriorMoves
<1>9. CASE ThreadResume
  <2>1. PICK t \in Thread : MakeReady(t) /\ (state[t] = "create" \/ Resumable(t))
    BY <1>9 DEF ThreadResume
  <2>2. fault = "none" /\ real_priority' = real_priority
    BY <1>9, <1>b DEF ThreadResume
  <2>. QED BY <1>4, <2>1, <2>2 DEF Resumable
<1>10. CASE ProcessResume
  <2>1. PICK p \in Process : MakeReady(Primary[p]) /\ Schedulable(Primary[p]) /\ Primary[p] \in Thread
    BY <1>10, PrimaryAssumption DEF ProcessResume
  <2>2. fault = "none" /\ real_priority' = real_priority
    BY <1>10, <1>b DEF ProcessResume
  <2>. QED BY <1>4, <2>1, <2>2 DEF Schedulable
<1>11. CASE ThreadSuspend
  <2>1. PICK t \in Thread : readyQ' = DequeueThreadFromReady(readyQ, t, real_priority[t])
    BY <1>11 DEF ThreadSuspend
  <2>2. fault = "none" /\ real_priority' = real_priority
    BY <1>11, <1>b DEF ThreadSuspend
  <2>. QED BY <1>a, <2>1, <2>2, UnreadyLeaves
<1>12. CASE ThreadKill
  <2>1. fault = "none" /\ \E t \in Thread : Stop(t, 1)
    BY <1>12, <1>b DEF ThreadKill
  <2>. QED BY <1>a, <2>1, StopLeaves
<1>13. CASE CpuException
  <2>1. fault = "none" /\ crr_thread \in Thread /\ Stop(crr_thread, 0)
    BY <1>13, <1>b DEF CpuException
  <2>. QED BY <1>a, <2>1, StopLeaves
<1>14. CASE \E left \in 0..TimeSlice : MainLoop(left)
  <2>1. PICK left : Reschedule(left)
    BY <1>14 DEF MainLoop
  <2>2. fault = "none"
    BY <2>1 DEF Reschedule
  <2>. QED BY <1>a, <2>1, <2>2, TurnRotates
<1>15. CASE \/ SemaphoreSignalSvc \/ RequestSignalSvc \/ ProcessSetPriority \/ ProcessLogon
            \/ ProcessLogonCancel \/ ProcessRendezvous \/ After \/ WakeupDue \/ NotifySleep
  <2>1. readyQ' = readyQ /\ real_priority' = real_priority
    BY <1>15 DEF SemaphoreSignalSvc, RequestSignalSvc, SemaphoreSignal, ProcessSetPriority, ProcessLogon,
                 ProcessLogonCancel, ProcessRendezvous, After, WakeupDue, NotifySleep, schedVars
  <2>. QED BY <1>0, <2>1
<1>. QED BY <1>1, <1>3, <1>6, <1>7, <1>8, <1>9, <1>10, <1>11, <1>12, <1>13, <1>14, <1>15 DEF Next

\* For every set of threads and levels, the rings are one first-in-first-out queue per
\* level: no kernel call reorders, drops or duplicates the other ready threads.
THEOREM RingsAreFifo == Spec => ImplementsFifo
<1>1. Init => Fifo!Init
  <2> SUFFICES ASSUME Init PROVE Fifo!Init
    OBVIOUS
  <2>1. SoundRings(readyQ, real_priority)
    BY InitInv, ThreadAssumption DEF Init, IInv, Alive, TypeOK, SchedOK, SoundRings
  <2>2. Queues \in [Level -> Seq(Thread)]
    <3>1. \A p \in Level : Queues[p] \in Seq(Thread)
      BY <2>1, QueueLists
    <3>. QED BY <3>1 DEF Queues
  <2>3. ASSUME NEW p \in Level, NEW r \in Level, NEW i \in DOMAIN Queues[p], NEW j \in DOMAIN Queues[r],
               Queues[p][i] = Queues[r][j]
        PROVE  p = r /\ i = j
    <3>1. PICK s, v : /\ s = Queues[p] /\ Lists(s, readyQ, real_priority, p) /\ DOMAIN s = 1..Len(s)
                      /\ v = Queues[r] /\ Lists(v, readyQ, real_priority, r) /\ DOMAIN v = 1..Len(v)
      BY <2>1, QueueLists
    <3>2. i \in 1..Len(s) /\ j \in 1..Len(v) /\ s[i] = v[j]
      BY <2>3, <3>1
    <3>3. s[i] \in OnLevel(readyQ, real_priority, p) /\ s[i] \in OnLevel(readyQ, real_priority, r)
      BY <3>1, <3>2 DEF Lists
    <3>4. p = r
      BY <3>3 DEF OnLevel
    <3>5. \A a, b \in 1..Len(s) : s[a] = s[b] => a = b
      BY <3>1 DEF Lists
    <3>. QED BY <3>1, <3>2, <3>4, <3>5
  <2>. QED BY <2>2, <2>3 DEF Fifo!Init, Queues
<1>2. IInv /\ [Next]_vars => [Fifo!Next]_([p \in Level |-> Ring(readyQ, real_priority, p)])
  BY FifoStep DEF Queues
<1>. QED BY <1>1, <1>2, Inductive, PTL DEF Spec, ImplementsFifo, Fifo!Spec
==============================================================================
