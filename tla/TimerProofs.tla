---------------------------- MODULE TimerProofs -----------------------------
(***************************************************************************)
(* The timers of the guest lose no request, complete one twice only after  *)
(* a cancel that came too late, and never early, for any number of timers, *)
(* requests and delays; and ntimer below them is an event source.          *)
(*                                                                         *)
(* Neither NoRequestLost nor OnceUnlessLate is inductive: a callback knows *)
(* the timer but not the request, so that RequestInv has to say that a     *)
(* timer which no cancel has missed has one event at most, queued or being *)
(* fired, exactly while it is outstanding, and that this event carries the *)
(* time its latest request asked for.                                      *)
(***************************************************************************)
EXTENDS KernelTimer, NTimerProperties, SequenceFacts, FiniteSetTheorems, FunctionTheorems

Timed == [key : Key, time : Nat]
Asked == [key : Key, at : Nat]

\* The timer thread fires one event at a time, which is due, and reads a clock that
\* only goes forward.
ThreadPart ==
    /\ events \in Seq(Timed) /\ now \in Nat /\ global_timer \in Nat /\ global_timer <= now
    /\ firing # None => firing \in Timed /\ firing.time <= now
    /\ pc = "callback" <=> firing # None

RequestType ==
    /\ issued \in 0..MaxRequests /\ info \in [Key -> 0..issued]
    /\ outstanding \in [Key -> BOOLEAN] /\ late \in SUBSET Key
    /\ completions \in [Request -> Nat] /\ asked \in [Request -> Asked \cup {None}]
    /\ \A r \in 1..issued : asked[r] \in Asked
    /\ \A r \in Request : r > issued => completions[r] = 0

\* An outstanding timer has an event on its way, and every request that is not completed
\* is the latest of a timer that is outstanding.
LostPart ==
    /\ \A k \in Key : outstanding[k] => Pending(k)
    /\ \A r \in 1..issued : completions[r] = 0 => \E k \in Key : outstanding[k] /\ info[k] = r

\* A timer that no cancel has missed is outstanding only for a request that is not
\* completed, and its requests are completed once at most.
OncePart ==
    /\ \A k \in Key : info[k] # 0 => asked[info[k]].key = k
    /\ \A k \in Key \ late : outstanding[k] => info[k] # 0 /\ completions[info[k]] = 0
    /\ \A r \in 1..issued : asked[r].key \notin late => completions[r] <= 1

HasKey(q, k) == \E i \in DOMAIN q : q[i].key = k
OneKey(q, k) == \A i, j \in DOMAIN q : q[i].key = k /\ q[j].key = k => i = j
Firing(k) == firing # None /\ firing.key = k

\* Such a timer has one event at most, for its latest request, while it is outstanding.
OneEventPart ==
    \A k \in Key \ late :
        /\ Firing(k) => outstanding[k] /\ firing.time = asked[info[k]].at
        /\ HasKey(events, k) => outstanding[k] /\ ~Firing(k)
        /\ OneKey(events, k)
        /\ \A i \in DOMAIN events : events[i].key = k => events[i].time = asked[info[k]].at

RequestInv == ThreadPart /\ RequestType /\ LostPart /\ OncePart /\ OneEventPart

-----------------------------------------------------------------------------
(***************************************************************************)
(* The vector of events.                                                   *)
(***************************************************************************)

\* push_back and stable_sort put the new event somewhere.
LEMMA PushedSomewhere ==
    ASSUME NEW q \in Seq(Timed), NEW e
    PROVE  \E n \in 0..Len(q) : PushSorted(q, e) = Insertion(q, n, e)
<1>1. PICK D : D = {i \in DOMAIN q : q[i].time >= e.time}
  OBVIOUS
<1>2. PICK L \in Nat : L = Len(q) /\ DOMAIN q = 1..L
  OBVIOUS
<1>3. D \subseteq 1..L
  BY <1>1, <1>2
<1>4. IsFiniteSet(1..L) /\ Cardinality(1..L) = L
  BY FS_Interval
<1>5. IsFiniteSet(D) /\ Cardinality(D) <= L
  BY <1>3, <1>4, FS_Subset
<1>6. Cardinality(D) \in 0..L
  BY <1>5, FS_CardinalityType
<1>7. PushSorted(q, e) = Insertion(q, Cardinality(D), e)
  BY <1>1 DEF PushSorted, Insertion
<1>. QED BY <1>2, <1>6, <1>7

LEMMA PushedFacts ==
    ASSUME NEW q \in Seq(Timed), NEW e \in Timed, NEW c, c = PushSorted(q, e)
    PROVE  /\ c \in Seq(Timed)
           /\ \A j \in DOMAIN c : c[j] = e \/ \E i \in DOMAIN q : c[j] = q[i]
           /\ \A k : HasKey(c, k) <=> k = e.key \/ HasKey(q, k)
           /\ \A k : k # e.key /\ OneKey(q, k) => OneKey(c, k)
           /\ ~HasKey(q, e.key) => OneKey(c, e.key)
<1>1. PICK n \in 0..Len(q) : c = Insertion(q, n, e)
  BY PushedSomewhere
<1>2. PICK L \in Nat : L = Len(q) /\ DOMAIN q = 1..L
  OBVIOUS
<1>3. /\ c \in Seq(Timed) /\ DOMAIN c = 1..(L + 1) /\ n \in 0..L
      /\ \A j \in 1..(L + 1) : c[j] = IF j <= n THEN q[j] ELSE IF j = n + 1 THEN e ELSE q[j - 1]
  <2>1. Inserted(c, Timed, q, n, e)
    BY <1>1, InsertionIs
  <2>. QED BY <1>2, <2>1 DEF Inserted
<1>4. /\ c[n + 1] = e /\ n + 1 \in DOMAIN c
      /\ \A i \in DOMAIN q : \E j \in DOMAIN c : c[j] = q[i]
  <2>1. \A i \in 1..L : i <= n => i \in 1..(L + 1) /\ c[i] = q[i]
    BY <1>3
  <2>2. \A i \in 1..L : ~(i <= n) => i + 1 \in 1..(L + 1) /\ c[i + 1] = q[i]
    BY <1>3
  <2>3. n + 1 \in 1..(L + 1) /\ c[n + 1] = e
    BY <1>3
  <2>. QED BY <1>2, <1>3, <2>1, <2>2, <2>3
<1>5. \A j \in DOMAIN c : j # n + 1 => \E i \in DOMAIN q : c[j] = q[i] /\ i = IF j <= n THEN j ELSE j - 1
  BY <1>2, <1>3
<1>6. \A k : HasKey(c, k) <=> k = e.key \/ HasKey(q, k)
  BY <1>4, <1>5 DEF HasKey
<1>7. ASSUME NEW k, k # e.key, OneKey(q, k) PROVE OneKey(c, k)
  <2> SUFFICES ASSUME NEW i \in DOMAIN c, NEW j \in DOMAIN c, c[i].key = k, c[j].key = k PROVE i = j
    BY DEF OneKey
  <2>1. i # n + 1 /\ j # n + 1
    BY <1>4, <1>7
  <2>2. PICK a \in DOMAIN q : c[i] = q[a] /\ a = IF i <= n THEN i ELSE i - 1
    BY <1>5, <2>1
  <2>3. PICK b \in DOMAIN q : c[j] = q[b] /\ b = IF j <= n THEN j ELSE j - 1
    BY <1>5, <2>1
  <2>4. a = b
    BY <1>7, <2>2, <2>3 DEF OneKey
  <2>. QED BY <1>3, <2>1, <2>2, <2>3, <2>4
<1>8. ASSUME ~HasKey(q, e.key) PROVE OneKey(c, e.key)
  BY <1>5, <1>8 DEF OneKey, HasKey
<1>. QED BY <1>3, <1>5, <1>6, <1>7, <1>8

\* unschedule_event erases the first event of the timer it finds.
LEMMA ErasedPlace ==
    ASSUME NEW q \in Seq(Timed), NEW k, HasKey(q, k)
    PROVE  \E p \in DOMAIN q : q[p].key = k /\ Erased(q, k) = Removal(q, p)
<1>1. PICK L \in Nat : DOMAIN q = 1..L
  OBVIOUS
<1> DEFINE First(j) == q[j].key = k /\ \A m \in 1..(j - 1) : q[m].key # k
<1>2. \E j \in DOMAIN q : First(j)
  <2> DEFINE At == {j \in Nat : j \in DOMAIN q /\ q[j].key = k}
  <2>1. At # {} /\ At \subseteq Nat
    BY <1>1 DEF HasKey
  <2>2. PICK j \in At : \A m \in At : j <= m
    BY <2>1, LeastNat
  <2>3. \A m \in 1..(j - 1) : m \in DOMAIN q /\ m \in Nat /\ ~(j <= m)
    BY <1>1, <2>2
  <2>. QED BY <2>2, <2>3
<1>3. PICK p : p = CHOOSE j \in DOMAIN q : First(j)
  OBVIOUS
<1>4. p \in DOMAIN q /\ First(p)
  BY <1>2, <1>3
<1>5. Erased(q, k) = Removal(q, p)
  BY <1>3 DEF Erased, Removal
<1>. QED BY <1>4, <1>5

\* An erased event leaves those of the other timers; it was the only one if there was one.
LEMMA ErasedFacts ==
    ASSUME NEW q \in Seq(Timed), NEW k, HasKey(q, k), NEW c, c = Erased(q, k)
    PROVE  /\ c \in Seq(Timed)
           /\ \A j \in DOMAIN c : \E i \in DOMAIN q : c[j] = q[i]
           /\ \A m : m # k /\ HasKey(q, m) => HasKey(c, m)
           /\ \A m : HasKey(c, m) => HasKey(q, m)
           /\ \A m : OneKey(q, m) => OneKey(c, m)
           /\ OneKey(q, k) => ~HasKey(c, k)
<1>2. PICK L \in Nat : L = Len(q) /\ DOMAIN q = 1..L
  OBVIOUS
<1>1. PICK p \in DOMAIN q : q[p].key = k /\ c = Removal(q, p)
  BY ErasedPlace
<1>3. /\ c \in Seq(Timed) /\ DOMAIN c = 1..(L - 1) /\ p \in 1..L
      /\ \A j \in 1..(L - 1) : c[j] = IF j < p THEN q[j] ELSE q[j + 1]
  <2>1. p \in 1..Len(q)
    BY <1>2
  <2>2. /\ Removal(q, p) \in Seq(Timed) /\ DOMAIN Removal(q, p) = 1..(Len(q) - 1)
        /\ \A j \in 1..(Len(q) - 1) : Removal(q, p)[j] = IF j < p THEN q[j] ELSE q[j + 1]
    BY <2>1, RemovedAt, Zenon
  <2>. QED BY <1>1, <1>2, <2>1, <2>2, Zenon
<1>4. \A j \in DOMAIN c : \E i \in DOMAIN q : i # p /\ c[j] = q[i] /\ i = IF j < p THEN j ELSE j + 1
  BY <1>2, <1>3
<1>5. \A i \in DOMAIN q : i # p => \E j \in DOMAIN c : c[j] = q[i]
  <2>1. \A i \in 1..L : i < p => i \in 1..(L - 1) /\ c[i] = q[i]
    BY <1>3
  <2>2. \A i \in 1..L : i > p => i - 1 \in 1..(L - 1) /\ c[i - 1] = q[i]
    BY <1>3
  <2>3. \A i \in 1..L : i # p => i < p \/ i > p
    BY <1>3
  <2>. QED BY <1>2, <1>3, <2>1, <2>2, <2>3
<1>6. \A m : m # k /\ HasKey(q, m) => HasKey(c, m)
  BY <1>1, <1>5 DEF HasKey
<1>7. ASSUME NEW m, OneKey(q, m) PROVE OneKey(c, m)
  <2> SUFFICES ASSUME NEW i \in DOMAIN c, NEW j \in DOMAIN c, c[i].key = m, c[j].key = m PROVE i = j
    BY DEF OneKey
  <2>2. PICK a \in DOMAIN q : c[i] = q[a] /\ a = IF i < p THEN i ELSE i + 1
    BY <1>4
  <2>3. PICK b \in DOMAIN q : c[j] = q[b] /\ b = IF j < p THEN j ELSE j + 1
    BY <1>4
  <2>4. a = b
    BY <1>7, <2>2, <2>3 DEF OneKey
  <2>. QED BY <1>3, <2>2, <2>3, <2>4
<1>8. ASSUME OneKey(q, k) PROVE ~HasKey(c, k)
  BY <1>1, <1>4, <1>8 DEF OneKey, HasKey
<1>9. \A m : HasKey(c, m) => HasKey(q, m)
  BY <1>4 DEF HasKey
<1>. QED BY <1>3, <1>4, <1>6, <1>7, <1>8, <1>9

\* The event that is popped from the end was in the vector, and the others stay.
LEMMA PoppedFacts ==
    ASSUME NEW q \in Seq(Timed), q # <<>>, NEW c, c = Front(q), NEW z, z = Last(q)
    PROVE  /\ c \in Seq(Timed) /\ z \in Timed
           /\ \E i \in DOMAIN q : z = q[i]
           /\ \A j \in DOMAIN c : \E i \in DOMAIN q : c[j] = q[i]
           /\ \A k : HasKey(q, k) <=> HasKey(c, k) \/ z.key = k
           /\ \A k : OneKey(q, k) => OneKey(c, k) /\ (z.key = k => ~HasKey(c, k))
<1>1. PICK L \in Nat : L = Len(q) /\ DOMAIN q = 1..L /\ L >= 1
  OBVIOUS
<1>2. c \in Seq(Timed) /\ Len(c) = L - 1 /\ \A j \in 1..(L - 1) : c[j] = q[j]
  BY <1>1 DEF Front
<1>3. DOMAIN c = 1..(L - 1)
  BY <1>2
<1>4. z = q[L] /\ L \in DOMAIN q /\ z \in Timed
  BY <1>1 DEF Last
<1>5. \A j \in DOMAIN c : j \in DOMAIN q /\ j # L /\ c[j] = q[j]
  BY <1>1, <1>2, <1>3
<1>6. \A i \in DOMAIN q : i # L => i \in DOMAIN c /\ c[i] = q[i]
  BY <1>1, <1>2, <1>3
<1>7. \A k : HasKey(q, k) <=> HasKey(c, k) \/ z.key = k
  BY <1>4, <1>5, <1>6 DEF HasKey
<1>8. \A k : OneKey(q, k) => OneKey(c, k) /\ (z.key = k => ~HasKey(c, k))
  BY <1>4, <1>5 DEF OneKey, HasKey
<1>. QED BY <1>2, <1>4, <1>5, <1>7, <1>8

LEMMA PendingIs ==
    \A k : /\ Pending(k) <=> HasKey(events, k) \/ Firing(k)
           /\ Pending(k)' <=> HasKey(events', k) \/ Firing(k)'
  BY DEF Pending, HasKey, Firing

-----------------------------------------------------------------------------
(***************************************************************************)
(* The timer thread and the clock.                                         *)
(***************************************************************************)
LEMMA RequestsKept ==
    ASSUME RequestInv, UNCHANGED requestVars, ThreadPart',
           \A k \in Key : Pending(k) <=> Pending(k)',
           \A k \in Key \ late : /\ Firing(k)' => outstanding[k] /\ firing'.time = asked[info[k]].at
                                 /\ HasKey(events', k) => outstanding[k] /\ ~Firing(k)'
                                 /\ OneKey(events', k)
                                 /\ \A i \in DOMAIN events' : events'[i].key = k => events'[i].time = asked[info[k]].at
    PROVE  RequestInv'
<1>1. UNCHANGED <<outstanding, info, issued, completions, asked, late>>
  BY DEF requestVars
<1>2. outstanding' \in [Key -> BOOLEAN]
  BY <1>1 DEF RequestInv, RequestType
<1>3. RequestType'
  BY <1>1, <1>2 DEF RequestInv, RequestType
<1>4. LostPart' /\ OncePart'
  BY <1>1 DEF RequestInv, LostPart, OncePart
<1>5. OneEventPart'
  BY <1>1 DEF OneEventPart
<1>. QED BY <1>3, <1>4, <1>5 DEF RequestInv

LEMMA IdleStep ==
    ASSUME RequestInv, UNCHANGED <<events, firing, requestVars>>, now' \in Nat, now <= now',
           global_timer' \in Nat, global_timer' <= now', pc' = "callback" <=> pc = "callback"
    PROVE  RequestInv'
<1>1. ThreadPart'
  BY DEF RequestInv, ThreadPart, Timed
<1>2. \A k : (Firing(k)' <=> Firing(k)) /\ (Pending(k)' <=> Pending(k))
  BY PendingIs DEF Firing
<1>. QED BY <1>1, <1>2, RequestsKept DEF RequestInv, OneEventPart

\* An event that is due is taken off the vector to be fired.
LEMMA FireStep ==
    ASSUME RequestInv, UNCHANGED <<requestVars, now>>, firing = None, events # <<>>,
           NEW t \in Nat, t <= now, Due(Last(events), t), global_timer' = t,
           firing' = Last(events), events' = Front(events), pc' = "callback"
    PROVE  RequestInv'
<1>0. PICK q, c, z : q \in Seq(Timed) /\ q = events /\ c = Front(q) /\ z = Last(q)
  BY DEF RequestInv, ThreadPart
<1>1. /\ c \in Seq(Timed) /\ z \in Timed
      /\ \E i \in DOMAIN q : z = q[i]
      /\ \A j \in DOMAIN c : \E i \in DOMAIN q : c[j] = q[i]
      /\ \A k : HasKey(q, k) <=> HasKey(c, k) \/ z.key = k
      /\ \A k : OneKey(q, k) => OneKey(c, k) /\ (z.key = k => ~HasKey(c, k))
  BY <1>0, PoppedFacts
<1>2. events' = c /\ firing' = z /\ z # None
  BY <1>0, <1>1, NoneAssumption DEF Timed
<1>3. z.time <= now /\ now \in Nat
  BY <1>0, <1>1 DEF Due, Timed, RequestInv, ThreadPart
<1>4. ThreadPart'
  BY <1>1, <1>2, <1>3 DEF ThreadPart
<1>5. \A k : (Firing(k)' <=> z.key = k) /\ ~Firing(k)
  BY <1>2 DEF Firing
<1>6. \A k \in Key : Pending(k) <=> Pending(k)'
  BY <1>0, <1>1, <1>2, <1>5, PendingIs
<1>7. ASSUME NEW k \in Key \ late
      PROVE  /\ Firing(k)' => outstanding[k] /\ firing'.time = asked[info[k]].at
             /\ HasKey(events', k) => outstanding[k] /\ ~Firing(k)'
             /\ OneKey(events', k)
             /\ \A i \in DOMAIN events' : events'[i].key = k => events'[i].time = asked[info[k]].at
  <2>1. /\ HasKey(q, k) => outstanding[k]
        /\ OneKey(q, k)
        /\ \A i \in DOMAIN q : q[i].key = k => q[i].time = asked[info[k]].at
    BY <1>0 DEF RequestInv, OneEventPart
  <2>. QED BY <2>1, <1>1, <1>2, <1>5
<1>. QED BY <1>4, <1>6, <1>7, RequestsKept

LEMMA ScanStep ==
    ASSUME RequestInv, UNCHANGED requestVars, firing = None, pc # "callback", NEW t \in Nat, t <= now, Scan(t)
    PROVE  RequestInv'
<1>1. CASE events # <<>> /\ Due(Last(events), t) /\ firing' = Last(events) /\ events' = Front(events) /\ pc' = "callback"
  BY <1>1, FireStep DEF Scan
<1>2. CASE pc' = "towait" /\ UNCHANGED <<firing, events>>
  <2>1. now' = now /\ now \in Nat /\ global_timer' = t
    BY DEF Scan, RequestInv, ThreadPart
  <2>. QED BY <1>2, <2>1, IdleStep
<1>. QED BY <1>1, <1>2 DEF Scan

LEMMA ThreadInv == ASSUME RequestInv, ThreadStep \/ Tick, UNCHANGED requestVars PROVE RequestInv'
<1>0. now \in Nat /\ global_timer \in Nat /\ global_timer <= now /\ (pc # "callback" => firing = None)
  BY DEF RequestInv, ThreadPart
<1>1. CASE Advance
  BY <1>0, <1>1, ScanStep DEF Advance
<1>2. CASE AdvanceFurther
  BY <1>0, <1>2, ScanStep DEF AdvanceFurther
<1>3. CASE TestStop \/ LeaveInner \/ WaitStart \/ WaitTimeout
  <2>1. UNCHANGED <<events, firing, now, global_timer>> /\ pc # "callback" /\ pc' # "callback"
    BY <1>3 DEF TestStop, LeaveInner, WaitStart, WaitTimeout, WaitEnd
  <2>. QED BY <1>0, <2>1, IdleStep
<1>4. CASE Tick
  <2>1. UNCHANGED <<events, firing, global_timer, pc>> /\ now' = now + 1
    BY <1>4 DEF Tick, threadVars
  <2>. QED BY <1>0, <2>1, IdleStep
<1>. QED BY <1>1, <1>2, <1>3, <1>4 DEF ThreadStep

-----------------------------------------------------------------------------
(***************************************************************************)
(* The requests.                                                           *)
(***************************************************************************)

\* The request that is accepted is the next one, and only its entry of asked changes.
LEMMA AcceptedRequest ==
    ASSUME RequestInv, NEW k \in Key, NEW d \in Delays, NEW r, r = issued + 1, Accept(k, d, r)
    PROVE  /\ r \in Request /\ issued' = r /\ issued' \in 0..MaxRequests /\ late' = late
           /\ now + d \in Nat /\ d \in Nat /\ now \in Nat
           /\ asked' \in [Request -> Asked \cup {None}]
           /\ asked'[r] = [key |-> k, at |-> now + d]
           /\ \A m \in 1..issued : m \in Request /\ m # r /\ asked'[m] = asked[m] /\ m \in 1..issued'
           /\ \A m \in 1..issued' : m = r \/ m \in 1..issued
<1>1. issued \in Nat /\ issued < MaxRequests /\ issued' = r /\ r \in Request /\ now \in Nat /\ d \in Nat
  BY RequestAssumption, TimeAssumption DEF Accept, RequestInv, RequestType, ThreadPart, Request
<1>2. asked' = [asked EXCEPT ![r] = [key |-> k, at |-> now + d]] /\ late' = late
  BY DEF Accept
<1>3. [key |-> k, at |-> now + d] \in Asked
  BY <1>1 DEF Asked
<1>4. asked \in [Request -> Asked \cup {None}]
  BY DEF RequestInv, RequestType
<1>5. /\ asked' \in [Request -> Asked \cup {None}] /\ asked'[r] = [key |-> k, at |-> now + d]
      /\ \A m \in Request : m # r => asked'[m] = asked[m]
  BY <1>1, <1>2, <1>3, <1>4
<1>6. \A m \in 1..issued : m \in Request /\ m # r /\ m \in 1..r
  BY <1>1, RequestAssumption DEF Request
<1>7. \A m \in 1..r : m = r \/ m \in 1..issued
  BY <1>1
<1>8. issued' \in 0..MaxRequests
  BY <1>1, RequestAssumption
<1>. QED BY <1>1, <1>2, <1>5, <1>6, <1>7, <1>8

\* A delay of zero: the request is completed at once and no timer is touched.
LEMMA AtOnceStep ==
    ASSUME RequestInv, NEW k \in Key, NEW d \in Delays, NEW r, r = issued + 1, Accept(k, d, r),
           Complete(r), UNCHANGED <<outstanding, info, timerVars>>
    PROVE  RequestInv'
<1>1. /\ r \in Request /\ issued' = r /\ issued' \in 0..MaxRequests /\ late' = late
      /\ now + d \in Nat /\ d \in Nat /\ now \in Nat
      /\ asked' \in [Request -> Asked \cup {None}]
      /\ asked'[r] = [key |-> k, at |-> now + d]
      /\ \A m \in 1..issued : m \in Request /\ m # r /\ asked'[m] = asked[m] /\ m \in 1..issued'
      /\ \A m \in 1..issued' : m = r \/ m \in 1..issued
  BY AcceptedRequest
<1>2. UNCHANGED <<events, now, pc, global_timer, firing>>
  BY DEF timerVars, threadVars
<1>3. /\ completions' \in [Request -> Nat] /\ completions'[r] = 1
      /\ \A m \in Request : m # r => completions'[m] = completions[m]
  <2>1. completions \in [Request -> Nat] /\ completions[r] = 0
    BY <1>1 DEF RequestInv, RequestType
  <2>. QED BY <2>1, <1>1 DEF Complete
<1>4. \A m \in Key : info[m] # 0 => info[m] \in 1..issued
  BY DEF RequestInv, RequestType
<1>5. ThreadPart'
  BY <1>2 DEF RequestInv, ThreadPart
<1>6. RequestType'
  <2>1. outstanding' \in [Key -> BOOLEAN] /\ info' \in [Key -> 0..issued']
    BY <1>1 DEF RequestInv, RequestType
  <2>2. \A m \in 1..issued' : asked'[m] \in Asked
    BY <1>1 DEF RequestInv, RequestType, Asked
  <2>3. \A m \in Request : m > issued' => completions'[m] = 0
    BY <1>1, <1>3 DEF RequestInv, RequestType, Request
  <2>. QED BY <1>1, <1>3, <2>1, <2>2, <2>3 DEF RequestInv, RequestType
<1>7. \A m : (Firing(m)' <=> Firing(m)) /\ (Pending(m)' <=> Pending(m))
  BY <1>2, PendingIs DEF Firing
<1>8. LostPart'
  BY <1>1, <1>3, <1>7 DEF RequestInv, LostPart
<1>9. OncePart'
  <2>1. \A m \in Key : info'[m] # 0 => asked'[info'[m]].key = m
    BY <1>1, <1>4 DEF RequestInv, OncePart
  <2>2. \A m \in Key \ late' : outstanding'[m] => info'[m] # 0 /\ completions'[info'[m]] = 0
    BY <1>1, <1>3, <1>4 DEF RequestInv, OncePart
  <2>3. \A m \in 1..issued' : asked'[m].key \notin late' => completions'[m] <= 1
    BY <1>1, <1>3 DEF RequestInv, OncePart
  <2>. QED BY <2>1, <2>2, <2>3 DEF OncePart
<1>10. OneEventPart'
  <2> SUFFICES ASSUME NEW m \in Key \ late
               PROVE  /\ Firing(m) => outstanding[m] /\ firing.time = asked'[info[m]].at
                      /\ HasKey(events, m) => outstanding[m] /\ ~Firing(m)
                      /\ OneKey(events, m)
                      /\ \A i \in DOMAIN events : events[i].key = m => events[i].time = asked'[info[m]].at
    BY <1>1, <1>2, <1>7 DEF OneEventPart
  <2>1. /\ Firing(m) => outstanding[m] /\ firing.time = asked[info[m]].at
        /\ HasKey(events, m) => outstanding[m] /\ ~Firing(m)
        /\ OneKey(events, m)
        /\ \A i \in DOMAIN events : events[i].key = m => events[i].time = asked[info[m]].at
    BY DEF RequestInv, OneEventPart
  <2>2. outstanding[m] => asked'[info[m]] = asked[info[m]]
    BY <1>1, <1>4 DEF RequestInv, OncePart
  <2>3. \A i \in DOMAIN events : events[i].key = m => outstanding[m]
    BY <2>1 DEF HasKey
  <2>. QED BY <2>1, <2>2, <2>3
<1>. QED BY <1>5, <1>6, <1>8, <1>9, <1>10 DEF RequestInv

\* Another delay: the timer is outstanding for the request, and gets an event.
LEMMA StartStep ==
    ASSUME RequestInv, NEW k \in Key, ~outstanding[k], NEW d \in Delays, NEW r, r = issued + 1, Accept(k, d, r),
           outstanding' = [outstanding EXCEPT ![k] = TRUE], info' = [info EXCEPT ![k] = r],
           ScheduleEvent(k, d), completions' = completions
    PROVE  RequestInv'
<1>1. /\ r \in Request /\ issued' = r /\ issued' \in 0..MaxRequests /\ late' = late
      /\ now + d \in Nat /\ d \in Nat /\ now \in Nat
      /\ asked' \in [Request -> Asked \cup {None}]
      /\ asked'[r] = [key |-> k, at |-> now + d]
      /\ \A m \in 1..issued : m \in Request /\ m # r /\ asked'[m] = asked[m] /\ m \in 1..issued'
      /\ \A m \in 1..issued' : m = r \/ m \in 1..issued
  BY AcceptedRequest
<1>2. PICK e : e = [key |-> k, time |-> now + d]
  OBVIOUS
<1>3. /\ events' = PushSorted(events, e) /\ UNCHANGED <<now, global_timer, firing>>
      /\ pc' = "callback" <=> pc = "callback"
  BY <1>2 DEF ScheduleEvent, Wake
<1>4. /\ events' \in Seq(Timed)
      /\ \A j \in DOMAIN events' : events'[j] = e \/ \E i \in DOMAIN events : events'[j] = events[i]
      /\ \A m : HasKey(events', m) <=> m = k \/ HasKey(events, m)
      /\ \A m : m # k /\ OneKey(events, m) => OneKey(events', m)
      /\ ~HasKey(events, k) => OneKey(events', k)
  <2>1. e \in Timed /\ e.key = k /\ events \in Seq(Timed)
    BY <1>1, <1>2 DEF Timed, RequestInv, ThreadPart
  <2>2. /\ PushSorted(events, e) \in Seq(Timed)
        /\ \A j \in DOMAIN PushSorted(events, e) :
              PushSorted(events, e)[j] = e \/ \E i \in DOMAIN events : PushSorted(events, e)[j] = events[i]
        /\ \A m : HasKey(PushSorted(events, e), m) <=> m = e.key \/ HasKey(events, m)
        /\ \A m : m # e.key /\ OneKey(events, m) => OneKey(PushSorted(events, e), m)
        /\ ~HasKey(events, e.key) => OneKey(PushSorted(events, e), e.key)
    BY <2>1, PushedFacts
  <2>. QED BY <1>3, <2>1, <2>2
<1>5. /\ info' \in [Key -> 0..issued'] /\ \A m \in Key : info'[m] = IF m = k THEN r ELSE info[m]
      /\ r # 0 /\ \A m \in Key : info[m] # 0 => info[m] \in 1..issued
  BY <1>1 DEF RequestInv, RequestType, Request
<1>6. outstanding' \in [Key -> BOOLEAN]
  BY DEF RequestInv, RequestType
<1>7. \A m \in Key : outstanding'[m] <=> m = k \/ outstanding[m]
  BY DEF RequestInv, RequestType
<1>8. ThreadPart'
  BY <1>3, <1>4 DEF RequestInv, ThreadPart
<1>9. RequestType'
  <2>2. \A m \in 1..issued' : asked'[m] \in Asked
    BY <1>1 DEF RequestInv, RequestType, Asked
  <2>3. \A m \in Request : m > issued' => completions'[m] = 0
    BY <1>1 DEF RequestInv, RequestType, Request
  <2>. QED BY <1>1, <1>5, <1>6, <2>2, <2>3 DEF RequestInv, RequestType
<1>10. \A m : Firing(m)' <=> Firing(m)
  BY <1>3 DEF Firing
<1>11. LostPart'
  <2>1. \A m \in Key : outstanding'[m] => Pending(m)'
    BY <1>4, <1>7, <1>10, PendingIs DEF RequestInv, LostPart
  <2>2. ASSUME NEW m \in 1..issued', completions'[m] = 0 PROVE \E x \in Key : outstanding'[x] /\ info'[x] = m
    <3>1. CASE m = r
      BY <3>1, <1>5, <1>7
    <3>2. CASE m \in 1..issued
      <4>1. PICK x \in Key : outstanding[x] /\ info[x] = m
        BY <2>2, <3>2 DEF RequestInv, LostPart
      <4>. QED BY <4>1, <1>5, <1>7
    <3>. QED BY <1>1, <3>1, <3>2
  <2>. QED BY <2>1, <2>2 DEF LostPart
<1>12. OncePart'
  <2>0. completions[r] = 0
    BY <1>1 DEF RequestInv, RequestType
  <2>1. \A m \in Key : info'[m] # 0 => asked'[info'[m]].key = m
    BY <1>1, <1>5 DEF RequestInv, OncePart
  <2>2. \A m \in Key \ late' : outstanding'[m] => info'[m] # 0 /\ completions'[info'[m]] = 0
    BY <1>1, <1>5, <1>7, <2>0 DEF RequestInv, OncePart
  <2>3. \A m \in 1..issued' : asked'[m].key \notin late' => completions'[m] <= 1
    BY <1>1, <2>0 DEF RequestInv, OncePart
  <2>. QED BY <2>1, <2>2, <2>3 DEF OncePart
<1>13. OneEventPart'
  <2> SUFFICES ASSUME NEW m \in Key \ late
               PROVE  /\ Firing(m) => outstanding'[m] /\ firing.time = asked'[info'[m]].at
                      /\ HasKey(events', m) => outstanding'[m] /\ ~Firing(m)
                      /\ OneKey(events', m)
                      /\ \A i \in DOMAIN events' : events'[i].key = m => events'[i].time = asked'[info'[m]].at
    BY <1>1, <1>3, <1>10 DEF OneEventPart
  <2>1. /\ Firing(m) => outstanding[m] /\ firing.time = asked[info[m]].at
        /\ HasKey(events, m) => outstanding[m] /\ ~Firing(m)
        /\ OneKey(events, m)
        /\ \A i \in DOMAIN events : events[i].key = m => events[i].time = asked[info[m]].at
    BY DEF RequestInv, OneEventPart
  <2>2. CASE m = k
    <3>1. ~HasKey(events, k) /\ ~Firing(k)
      BY <2>1, <2>2
    <3>2. \A i \in DOMAIN events' : events'[i].key = k => events'[i] = e
      BY <1>4, <3>1 DEF HasKey
    <3>3. e.time = asked'[info'[k]].at
      BY <1>1, <1>2, <1>5
    <3>. QED BY <1>4, <1>7, <2>2, <3>1, <3>2, <3>3
  <2>3. CASE m # k
    <3>1. outstanding[m] => asked'[info'[m]] = asked[info[m]]
      BY <1>1, <1>5, <2>3 DEF RequestInv, OncePart
    <3>2. \A i \in DOMAIN events' : events'[i].key = m => \E j \in DOMAIN events : events'[i] = events[j]
      BY <1>2, <1>4, <2>3
    <3>3. \A i \in DOMAIN events' : events'[i].key = m => outstanding[m] /\ events'[i].time = asked[info[m]].at
      BY <2>1, <3>2 DEF HasKey
    <3>4. outstanding'[m] <=> outstanding[m]
      BY <1>7, <2>3
    <3>. QED BY <1>4, <2>1, <2>3, <3>1, <3>3, <3>4
  <2>. QED BY <2>2, <2>3
<1>. QED BY <1>8, <1>9, <1>11, <1>12, <1>13 DEF RequestInv

LEMMA TimerAfterInv == ASSUME RequestInv, NEW k \in Key, NEW d \in Delays, TimerAfter(k, d) PROVE RequestInv'
<1>1. PICK r : r = issued + 1
  OBVIOUS
<1>2. ~outstanding[k] /\ Accept(k, d, r)
  BY <1>1 DEF TimerAfter
<1>3. \/ Complete(r) /\ UNCHANGED <<outstanding, info, timerVars>>
      \/ /\ outstanding' = [outstanding EXCEPT ![k] = TRUE] /\ info' = [info EXCEPT ![k] = r]
         /\ ScheduleEvent(k, d) /\ completions' = completions
  BY <1>2 DEF Accept
<1>. QED BY <1>1, <1>2, <1>3, AtOnceStep, StartStep

\* The request of timer k is completed and the timer no longer outstanding, by a cancel
\* or by the callback; the other timers keep what they had.
LEMMA FinishStep ==
    ASSUME RequestInv, NEW k \in Key, Complete(info[k]), outstanding' = [outstanding EXCEPT ![k] = FALSE],
           UNCHANGED <<info, issued, asked>>, late' = late \/ late' = late \cup {k},
           k \notin late => outstanding[k], ThreadPart',
           \A m \in Key : m # k => (Firing(m)' <=> Firing(m)) /\ (HasKey(events', m) <=> HasKey(events, m)),
           \A m \in Key : m # k /\ Firing(m) => firing' = firing,
           \A m \in Key : m # k /\ OneKey(events, m) => OneKey(events', m),
           \A j \in DOMAIN events' : \E i \in DOMAIN events : events'[j] = events[i],
           k \notin late' => ~Firing(k)' /\ ~HasKey(events', k)
    PROVE  RequestInv'
<1>1. outstanding' \in [Key -> BOOLEAN] /\ late' \in SUBSET Key
  BY DEF RequestInv, RequestType
<1>2. \A m \in Key : outstanding'[m] <=> m # k /\ outstanding[m]
  BY DEF RequestInv, RequestType
<1>3. /\ completions' \in [Request -> Nat]
      /\ \A r \in Request : completions'[r] = IF r = info[k] THEN completions[r] + 1 ELSE completions[r]
  <2>1. PICK n : n = info[k]
    OBVIOUS
  <2>2. completions \in [Request -> Nat] /\ completions' = [completions EXCEPT ![n] = @ + 1]
    BY <2>1 DEF Complete, RequestInv, RequestType
  <2>3. completions' = [r \in Request |-> IF r = n THEN completions[r] + 1 ELSE completions[r]]
    BY <2>2
  <2>4. \A r \in Request : completions'[r] = IF r = n THEN completions[r] + 1 ELSE completions[r]
    BY <2>3
  <2>5. \A r \in Request : (IF r = n THEN completions[r] + 1 ELSE completions[r]) \in Nat
    BY <2>2
  <2>6. completions' \in [Request -> Nat]
    BY <2>3, <2>5
  <2>. QED BY <2>1, <2>4, <2>6
<1>4. /\ \A m \in Key : info[m] # 0 => info[m] \in 1..issued
      /\ \A r \in 1..issued : r \in Request
      /\ \A r \in Request : completions[r] \in Nat
  BY RequestAssumption DEF RequestInv, RequestType, Request
<1>5. RequestType'
  <2>1. \A r \in Request : r > issued => r # info[k]
    BY DEF RequestInv, RequestType, Request
  <2>. QED BY <1>1, <1>3, <2>1 DEF RequestInv, RequestType
<1>6. LostPart'
  <2>1. \A m \in Key : outstanding'[m] => Pending(m)'
    BY <1>2, PendingIs DEF RequestInv, LostPart
  <2>2. ASSUME NEW r \in 1..issued, completions'[r] = 0 PROVE \E x \in Key : outstanding'[x] /\ info'[x] = r
    <3>1. completions[r] = 0 /\ r # info[k]
      BY <1>3, <1>4, <2>2
    <3>2. PICK x \in Key : outstanding[x] /\ info[x] = r
      BY <3>1 DEF RequestInv, LostPart
    <3>. QED BY <1>2, <3>1, <3>2
  <2>. QED BY <2>1, <2>2 DEF LostPart
<1>7. OncePart'
  <2>1. \A m \in Key : info'[m] # 0 => asked'[info'[m]].key = m
    BY DEF RequestInv, OncePart
  <2>2. ASSUME NEW m \in Key \ late', outstanding'[m] PROVE info'[m] # 0 /\ completions'[info'[m]] = 0
    <3>1. m # k /\ outstanding[m] /\ m \in Key \ late
      BY <1>2, <2>2
    <3>2. info[m] # 0 /\ completions[info[m]] = 0 /\ asked[info[m]].key = m
      BY <3>1 DEF RequestInv, OncePart
    <3>3. info[m] # info[k]
      BY <3>1, <3>2 DEF RequestInv, OncePart
    <3>. QED BY <1>3, <1>4, <3>2, <3>3
  <2>3. ASSUME NEW r \in 1..issued, asked[r].key \notin late' PROVE completions'[r] <= 1
    <3>1. completions[r] <= 1 /\ completions[r] \in Nat /\ asked[r].key \notin late /\ r \in Request
      BY <1>4, <2>3 DEF RequestInv, OncePart
    <3>2. CASE r = info[k]
      <4>1. asked[r].key = k
        BY <3>2, <1>4 DEF RequestInv, OncePart
      <4>2. completions[r] = 0
        BY <3>1, <3>2, <4>1 DEF RequestInv, OncePart
      <4>. QED BY <1>3, <3>1, <3>2, <4>2
    <3>3. CASE r # info[k]
      BY <1>3, <3>1, <3>3
    <3>. QED BY <3>2, <3>3
  <2>. QED BY <2>1, <2>2, <2>3 DEF OncePart
<1>8. OneEventPart'
  <2> SUFFICES ASSUME NEW m \in Key \ late'
               PROVE  /\ Firing(m)' => outstanding'[m] /\ firing'.time = asked[info[m]].at
                      /\ HasKey(events', m) => outstanding'[m] /\ ~Firing(m)'
                      /\ OneKey(events', m)
                      /\ \A i \in DOMAIN events' : events'[i].key = m => events'[i].time = asked[info[m]].at
    BY DEF OneEventPart
  <2>1. CASE m = k
    BY <2>1 DEF HasKey, OneKey
  <2>2. CASE m # k
    <3>1. /\ Firing(m) => outstanding[m] /\ firing.time = asked[info[m]].at
          /\ HasKey(events, m) => outstanding[m] /\ ~Firing(m)
          /\ OneKey(events, m)
          /\ \A i \in DOMAIN events : events[i].key = m => events[i].time = asked[info[m]].at
      BY DEF RequestInv, OneEventPart
    <3>2. outstanding'[m] <=> outstanding[m]
      BY <1>2, <2>2
    <3>. QED BY <2>2, <3>1, <3>2
  <2>. QED BY <2>1, <2>2
<1>. QED BY <1>5, <1>6, <1>7, <1>8 DEF RequestInv

LEMMA TimerCancelInv == ASSUME RequestInv, NEW k \in Key, TimerCancel(k) PROVE RequestInv'
<1>1. /\ outstanding[k] /\ Complete(info[k]) /\ outstanding' = [outstanding EXCEPT ![k] = FALSE]
      /\ UNCHANGED <<info, issued, asked>> /\ late' = IF Firing(k) THEN late \cup {k} ELSE late
      /\ UNCHANGED <<now, pc, global_timer, firing>>
      /\ events' = IF HasKey(events, k) THEN Erased(events, k) ELSE events
  BY DEF TimerCancel, UnscheduleEvent, threadVars, Firing, HasKey
<1>2. /\ events' \in Seq(Timed)
      /\ \A j \in DOMAIN events' : \E i \in DOMAIN events : events'[j] = events[i]
      /\ \A m : m # k => (HasKey(events', m) <=> HasKey(events, m))
      /\ \A m : OneKey(events, m) => OneKey(events', m)
      /\ OneKey(events, k) => ~HasKey(events', k)
  <2>1. events \in Seq(Timed)
    BY DEF RequestInv, ThreadPart
  <2>2. CASE HasKey(events, k)
    <3>1. \A c : c = Erased(events, k) =>
             /\ c \in Seq(Timed)
             /\ \A j \in DOMAIN c : \E i \in DOMAIN events : c[j] = events[i]
             /\ \A m : m # k /\ HasKey(events, m) => HasKey(c, m)
             /\ \A m : HasKey(c, m) => HasKey(events, m)
             /\ \A m : OneKey(events, m) => OneKey(c, m)
             /\ OneKey(events, k) => ~HasKey(c, k)
      BY <2>1, <2>2, ErasedFacts
    <3>. QED BY <1>1, <2>2, <3>1
  <2>3. CASE ~HasKey(events, k)
    BY <1>1, <2>1, <2>3
  <2>. QED BY <2>2, <2>3
<1>3. \A m : Firing(m)' <=> Firing(m)
  BY <1>1 DEF Firing
<1>4. ThreadPart'
  BY <1>1, <1>2 DEF RequestInv, ThreadPart
<1>5. k \notin late' => ~Firing(k)' /\ ~HasKey(events', k)
  BY <1>1, <1>2, <1>3 DEF RequestInv, OneEventPart
<1>. QED BY <1>1, <1>2, <1>3, <1>4, <1>5, FinishStep

\* The timer whose callback runs is outstanding unless a cancel has missed its event, and
\* its event is due and has the time of its latest request.
LEMMA FiredTimer ==
    ASSUME RequestInv, TimerCallback
    PROVE  /\ firing.key \in Key /\ Firing(firing.key) /\ firing.time <= now
           /\ firing.key \notin late => /\ outstanding[firing.key] /\ ~HasKey(events, firing.key)
                                        /\ firing.time = asked[info[firing.key]].at
<1>1. firing # None /\ firing \in Timed /\ firing.time <= now
  BY DEF TimerCallback, Callback, RequestInv, ThreadPart
<1>2. firing.key \in Key /\ Firing(firing.key)
  BY <1>1 DEF Timed, Firing
<1>. QED BY <1>1, <1>2 DEF RequestInv, OneEventPart

LEMMA TimerCallbackInv == ASSUME RequestInv, TimerCallback PROVE RequestInv'
<1>1. PICK k \in Key : k = firing.key
  BY FiredTimer
<1>2. /\ Complete(info[k]) /\ outstanding' = [outstanding EXCEPT ![k] = FALSE]
      /\ UNCHANGED <<info, issued, asked, late, events, now, global_timer>> /\ firing' = None /\ pc' # "callback"
  BY <1>1 DEF TimerCallback, Callback
<1>3. \A m : ~Firing(m)' /\ (m # k => ~Firing(m))
  BY <1>1, <1>2 DEF Firing
<1>4. ThreadPart'
  BY <1>2 DEF RequestInv, ThreadPart
<1>5. k \notin late => outstanding[k] /\ ~HasKey(events', k)
  BY <1>1, <1>2, FiredTimer
<1>. QED BY <1>2, <1>3, <1>4, <1>5, FinishStep

-----------------------------------------------------------------------------
(***************************************************************************)
(* The theorems.                                                           *)
(***************************************************************************)
LEMMA RequestInit == Init => RequestInv
<1> SUFFICES ASSUME Init PROVE RequestInv
  OBVIOUS
<1>1. ThreadPart
  BY DEF Init, TimerInit, ThreadPart
<1>2. outstanding \in [Key -> BOOLEAN] /\ \A k \in Key : ~outstanding[k]
  BY DEF Init
<1>3. RequestType
  BY <1>2, RequestAssumption DEF Init, RequestType, Request
<1>4. LostPart /\ OncePart
  BY <1>2 DEF Init, LostPart, OncePart
<1>5. OneEventPart
  BY DEF Init, TimerInit, OneEventPart, Firing, HasKey, OneKey
<1>. QED BY <1>1, <1>3, <1>4, <1>5 DEF RequestInv

LEMMA RequestStep == RequestInv /\ [Next]_allVars => RequestInv'
<1> SUFFICES ASSUME RequestInv, [Next]_allVars PROVE RequestInv'
  OBVIOUS
<1>1. CASE Next
  BY <1>1, TimerAfterInv, TimerCancelInv, TimerCallbackInv, ThreadInv DEF Next
<1>2. CASE UNCHANGED allVars
  <2>1. UNCHANGED <<events, firing, requestVars, now, global_timer, pc>>
    BY <1>2 DEF allVars, timerVars, threadVars
  <2>2. now \in Nat /\ global_timer \in Nat /\ global_timer <= now
    BY DEF RequestInv, ThreadPart
  <2>. QED BY <2>1, <2>2, IdleStep
<1>. QED BY <1>1, <1>2

\* The timers' events and their requests go together in every reachable state.
THEOREM RequestInvariant == Spec => []RequestInv
  BY RequestInit, RequestStep, PTL DEF Spec

\* No accepted request is lost: timer::after, cancel_request and the callback always
\* leave it completed, or outstanding with an event on its way.
THEOREM RequestsReach == Spec => []NoRequestLost
<1>1. RequestInv => NoRequestLost
  BY DEF RequestInv, LostPart, NoRequestLost
<1>. QED BY <1>1, RequestInvariant, PTL

\* Only a cancel that misses the event completes a request twice.
THEOREM RequestsOnce == Spec => []OnceUnlessLate
<1>1. RequestInv => OnceUnlessLate
  BY DEF RequestInv, OncePart, OnceUnlessLate, Punctual
<1>. QED BY <1>1, RequestInvariant, PTL

\* timer_callback completes the request of such a timer when its time has come, and the
\* one its event was scheduled for.
THEOREM RequestsOnTime == Spec => NotEarly
<1>1. ASSUME RequestInv, TimerCallback, NEW r \in Punctual, completions'[r] # completions[r]
      PROVE  now >= asked[r].at /\ firing.time = asked[r].at
  <2>1. r \in 1..issued /\ asked[r].key \notin late /\ r \in Request
    BY <1>1, RequestAssumption DEF Punctual, RequestInv, RequestType, Request
  <2>2. PICK k \in Key : k = firing.key
    BY <1>1, FiredTimer
  <2>3. r = info[k]
    BY <1>1, <2>1, <2>2 DEF TimerCallback, Complete, RequestInv, RequestType
  <2>4. asked[r].key = k
    BY <1>1, <2>1, <2>2, <2>3 DEF RequestInv, OncePart
  <2>5. firing.time = asked[r].at /\ firing.time <= now
    BY <1>1, <2>1, <2>2, <2>3, <2>4, FiredTimer
  <2>6. asked[r].at \in Nat /\ now \in Nat
    BY <1>1, <2>1 DEF RequestInv, RequestType, ThreadPart, Asked
  <2>. QED BY <2>5, <2>6
<1>2. RequestInv /\ [Next]_allVars =>
         [\A r \in Punctual : TimerCallback /\ completions'[r] # completions[r] =>
              now >= asked[r].at /\ firing.time = asked[r].at]_allVars
  BY <1>1
<1>. QED BY <1>2, RequestInvariant, PTL DEF Spec, NotEarly
-----------------------------------------------------------------------------
(***************************************************************************)
(* The queue of events as a bag, and its order.                            *)
(***************************************************************************)
Places(q, e) == {i \in DOMAIN q : q[i] = e}
BagOf(q) == [e \in {q[i] : i \in DOMAIN q} |-> Cardinality(Places(q, e))]
Sorted(q) == \A i, j \in DOMAIN q : i <= j => q[i].time >= q[j].time

LEMMA PlacesCount ==
    ASSUME NEW q \in Seq(Timed), NEW e
    PROVE  /\ IsFiniteSet(Places(q, e)) /\ Cardinality(Places(q, e)) \in Nat
           /\ Cardinality(Places(q, e)) > 0 <=> e \in {q[i] : i \in DOMAIN q}
<1>1. PICK L \in Nat : DOMAIN q = 1..L
  OBVIOUS
<1>2. IsFiniteSet(1..L)
  BY FS_Interval
<1>3. Places(q, e) \in SUBSET (1..L)
  BY <1>1 DEF Places
<1>4. IsFiniteSet(Places(q, e))
  BY <1>2, <1>3, FS_Subset
<1>5. Cardinality(Places(q, e)) \in Nat /\ (Cardinality(Places(q, e)) = 0 <=> Places(q, e) = {})
  BY <1>4, FS_EmptySet, FS_CardinalityType
<1>6. Places(q, e) # {} <=> e \in {q[i] : i \in DOMAIN q}
  BY DEF Places
<1>. QED BY <1>4, <1>5, <1>6

\* An event that is put into the vector is in it once more, and the others as often.
LEMMA InsertedCount ==
    ASSUME NEW q \in Seq(Timed), NEW n \in 0..Len(q), NEW e \in Timed, NEW f
    PROVE  Cardinality(Places(Insertion(q, n, e), f)) = Cardinality(Places(q, f)) + IF f = e THEN 1 ELSE 0
<1>1. PICK L \in Nat : L = Len(q) /\ DOMAIN q = 1..L /\ n \in 0..L
  OBVIOUS
<1>2. PICK c : c = Insertion(q, n, e)
  OBVIOUS
<1>3. /\ DOMAIN c = 1..(L + 1)
      /\ \A j \in 1..(L + 1) : c[j] = IF j <= n THEN q[j] ELSE IF j = n + 1 THEN e ELSE q[j - 1]
  <2>1. Inserted(c, Timed, q, n, e)
    BY <1>2, InsertionIs
  <2>. QED BY <1>1, <2>1 DEF Inserted
<1> DEFINE S == Places(q, f)
           T == Places(c, f) \ {n + 1}
           g == [i \in S |-> IF i <= n THEN i ELSE i + 1]
<1>4. ASSUME NEW i \in S PROVE g[i] \in T
  <2>1. i \in 1..L /\ q[i] = f
    BY <1>1 DEF Places
  <2>2. g[i] \in 1..(L + 1) /\ g[i] # n + 1 /\ g[i] = IF i <= n THEN i ELSE i + 1
    BY <1>1, <2>1
  <2>3. c[g[i]] = q[i]
    <3>1. PICK j \in 1..(L + 1) : j = g[i]
      BY <2>2
    <3>2. c[j] = IF j <= n THEN q[j] ELSE IF j = n + 1 THEN e ELSE q[j - 1]
      BY <1>3
    <3>3. IF i <= n THEN j <= n /\ j = i ELSE ~(j <= n) /\ j # n + 1 /\ j - 1 = i
      BY <1>1, <2>1, <2>2, <3>1
    <3>. QED BY <3>1, <3>2, <3>3
  <2>. QED BY <1>3, <2>1, <2>2, <2>3 DEF Places
<1>5. \A a, b \in S : g[a] = g[b] => a = b
  BY <1>1 DEF Places
<1>6. ASSUME NEW j \in T PROVE \E i \in S : g[i] = j
  <2>1. j \in 1..(L + 1) /\ j # n + 1 /\ c[j] = f
    BY <1>3 DEF Places
  <2>2. PICK i \in 1..L : i = IF j <= n THEN j ELSE j - 1
    BY <1>1, <2>1
  <2>3. q[i] = f
    BY <1>1, <1>3, <2>1, <2>2
  <2>4. i \in S
    BY <1>1, <2>3 DEF Places
  <2>5. g[i] = j
    BY <1>1, <2>1, <2>2, <2>4
  <2>. QED BY <2>4, <2>5
<1>7. g \in [S -> T]
  BY <1>4
<1> HIDE DEF g
<1>8. ExistsBijection(S, T)
  BY <1>5, <1>6, <1>7, Fun_IsBij DEF ExistsBijection
<1>9. IsFiniteSet(S) /\ Cardinality(S) \in Nat
  BY PlacesCount
<1>10. IsFiniteSet(T) /\ Cardinality(T) = Cardinality(S)
  BY <1>8, <1>9, FS_Bijection
<1>11. Places(c, f) = IF f = e THEN T \cup {n + 1} ELSE T
  <2>1. n + 1 \in 1..(L + 1) /\ c[n + 1] = e
    BY <1>1, <1>3
  <2>. QED BY <1>3, <2>1 DEF Places
<1>12. n + 1 \notin T
  OBVIOUS
<1> HIDE DEF S, T
<1>13. CASE f = e
  <2>1. Cardinality(T \cup {n + 1}) = Cardinality(T) + 1
    BY <1>10, <1>12, FS_AddElement
  <2>. QED BY <1>2, <1>10, <1>11, <1>13, <2>1 DEF S
<1>14. CASE f # e
  BY <1>2, <1>9, <1>10, <1>11, <1>14 DEF S
<1>. QED BY <1>13, <1>14
LEMMA InsertedBag ==
    ASSUME NEW q \in Seq(Timed), NEW n \in 0..Len(q), NEW e \in Timed
    PROVE  BagOf(Insertion(q, n, e)) = Source!(+)(BagOf(q), Source!SetToBag({e}))
<1>1. PICK c : c = Insertion(q, n, e)
  OBVIOUS
<1>2. c \in Seq(Timed)
  <2>1. Inserted(c, Timed, q, n, e)
    BY <1>1, InsertionIs
  <2>. QED BY <2>1 DEF Inserted
<1> DEFINE Count(p, f) == Cardinality(Places(p, f))
           R(p) == {p[i] : i \in DOMAIN p}
<1>3. \A f : Count(c, f) = Count(q, f) + IF f = e THEN 1 ELSE 0
  BY <1>1, InsertedCount
<1>4. \A f : /\ Count(c, f) \in Nat /\ (Count(c, f) > 0 <=> f \in R(c))
             /\ Count(q, f) \in Nat /\ (Count(q, f) > 0 <=> f \in R(q))
  BY <1>2, PlacesCount
<1>5. BagOf(c) = [f \in R(c) |-> Count(c, f)] /\ BagOf(q) = [f \in R(q) |-> Count(q, f)]
  BY DEF BagOf
<1> HIDE DEF Count, R
<1>6. R(c) = R(q) \cup {e}
  BY <1>3, <1>4
<1>7. Source!(+)(BagOf(q), Source!SetToBag({e})) =
         [f \in R(q) \cup {e} |-> (IF f \in R(q) THEN Count(q, f) ELSE 0) + (IF f \in {e} THEN 1 ELSE 0)]
  BY <1>5 DEF Source!(+), Source!SetToBag
<1>8. \A f \in R(c) : Count(c, f) = (IF f \in R(q) THEN Count(q, f) ELSE 0) + (IF f \in {e} THEN 1 ELSE 0)
  BY <1>3, <1>4
<1>. QED BY <1>1, <1>5, <1>6, <1>7, <1>8

\* Taking an element out undoes putting it in.
LEMMA RemovedBack ==
    ASSUME NEW q \in Seq(Timed), NEW p \in 1..Len(q)
    PROVE  /\ Removal(q, p) \in Seq(Timed) /\ p - 1 \in 0..Len(Removal(q, p)) /\ q[p] \in Timed
           /\ q = Insertion(Removal(q, p), p - 1, q[p])
<1>1. PICK L \in Nat : L = Len(q) /\ DOMAIN q = 1..L /\ p \in 1..L
  OBVIOUS
<1>2. PICK c : c = Removal(q, p)
  OBVIOUS
<1>3. /\ c \in Seq(Timed) /\ Len(c) = L - 1
      /\ \A j \in 1..(L - 1) : c[j] = IF j < p THEN q[j] ELSE q[j + 1]
  BY <1>1, <1>2, RemovedAt
<1>4. q[p] \in Timed
  BY <1>1
<1>5. PICK m \in 0..Len(c), e \in Timed : m = p - 1 /\ e = q[p]
  BY <1>1, <1>3, <1>4
<1>6. PICK d : d = Insertion(c, m, e)
  OBVIOUS
<1>a. Inserted(d, Timed, c, m, e)
  BY <1>3, <1>6, InsertionIs
<1>7. d \in Seq(Timed) /\ DOMAIN d = 1..(Len(c) + 1)
  BY <1>a DEF Inserted
<1>8. ASSUME NEW j \in 1..(Len(c) + 1)
      PROVE  d[j] = IF j < p THEN c[j] ELSE IF j = p THEN q[p] ELSE c[j - 1]
  <2>1. d[j] = IF j <= m THEN c[j] ELSE IF j = m + 1 THEN e ELSE c[j - 1]
    BY <1>a DEF Inserted
  <2>2. (j <= m <=> j < p) /\ m + 1 = p
    BY <1>1, <1>5
  <2>. QED BY <1>5, <1>6, <2>1, <2>2
<1>9. ASSUME NEW j \in 1..L PROVE d[j] = q[j]
  <2>1. j \in 1..(Len(c) + 1)
    BY <1>1, <1>3
  <2>2. CASE j < p
    <3>1. d[j] = c[j]
      BY <1>8, <2>1, <2>2
    <3>2. j \in 1..(L - 1)
      BY <1>1, <2>2
    <3>. QED BY <1>3, <2>2, <3>1, <3>2
  <2>3. CASE j = p
    BY <1>1, <1>8, <2>1, <2>3
  <2>4. CASE j > p
    <3>1. d[j] = c[j - 1]
      BY <1>1, <1>8, <2>1, <2>4
    <3>2. j - 1 \in 1..(L - 1) /\ ~(j - 1 < p) /\ (j - 1) + 1 = j
      BY <1>1, <2>4
    <3>. QED BY <1>3, <3>1, <3>2
  <2>. QED BY <1>1, <2>2, <2>3, <2>4
<1>10. DOMAIN d = DOMAIN q
  BY <1>1, <1>3, <1>7
<1>11. d = q
  <2>1. Len(d) = Len(q)
    BY <1>1, <1>7, <1>10
  <2>. QED BY <1>1, <1>7, <1>9, <2>1, SeqEqual
<1>. QED BY <1>2, <1>3, <1>5, <1>6, <1>11

LEMMA RemovedBag ==
    ASSUME NEW q \in Seq(Timed), NEW p \in 1..Len(q)
    PROVE  BagOf(Removal(q, p)) = Source!(-)(BagOf(q), Source!SetToBag({q[p]}))
<1>1. PICK c, e : c = Removal(q, p) /\ e = q[p]
  OBVIOUS
<1>2. c \in Seq(Timed)
  BY <1>1, RemovedBack
<1> DEFINE Count(r, f) == Cardinality(Places(r, f))
           R(r) == {r[i] : i \in DOMAIN r}
<1>3. ASSUME NEW f PROVE Count(q, f) = Count(c, f) + IF f = e THEN 1 ELSE 0
  <2>1. PICK m \in 0..Len(c) : e \in Timed /\ q = Insertion(c, m, e)
    BY <1>1, RemovedBack
  <2>2. Cardinality(Places(Insertion(c, m, e), f)) = Cardinality(Places(c, f)) + IF f = e THEN 1 ELSE 0
    BY <1>2, <2>1, InsertedCount
  <2>. QED BY <2>1, <2>2
<1>4. \A f : /\ Count(c, f) \in Nat /\ (Count(c, f) > 0 <=> f \in R(c))
             /\ Count(q, f) \in Nat /\ (Count(q, f) > 0 <=> f \in R(q))
  BY <1>2, PlacesCount
<1>5. BagOf(c) = [f \in R(c) |-> Count(c, f)] /\ BagOf(q) = [f \in R(q) |-> Count(q, f)]
  BY DEF BagOf
<1> HIDE DEF Count, R
<1>6. PICK B : B = [f \in R(q) |-> IF f \in {e} THEN Count(q, f) - 1 ELSE Count(q, f)]
  OBVIOUS
<1>7. Source!(-)(BagOf(q), Source!SetToBag({e})) = [f \in {d \in DOMAIN B : B[d] > 0} |-> B[f]]
  <2>1. B = [f \in DOMAIN BagOf(q) |-> IF f \in DOMAIN Source!SetToBag({e})
                                       THEN BagOf(q)[f] - Source!SetToBag({e})[f] ELSE BagOf(q)[f]]
    BY <1>5, <1>6 DEF Source!SetToBag
  <2>. QED BY <2>1 DEF Source!(-)
<1>8. \A f \in R(q) : B[f] = Count(c, f)
  BY <1>3, <1>4, <1>6
<1>9. {d \in DOMAIN B : B[d] > 0} = R(c)
  BY <1>3, <1>4, <1>6, <1>8
<1>10. \A f \in R(c) : B[f] = Count(c, f)
  BY <1>3, <1>4, <1>8
<1>. QED BY <1>1, <1>5, <1>7, <1>9, <1>10
-----------------------------------------------------------------------------
(***************************************************************************)
(* The vector stays sorted, so that its last event is the next one due.    *)
(***************************************************************************)

\* The events that are not earlier than e are the first ones of a sorted vector.
LEMMA PushedBehind ==
    ASSUME NEW q \in Seq(Timed), Sorted(q), NEW e \in Timed
    PROVE  \E n \in 0..Len(q) : /\ PushSorted(q, e) = Insertion(q, n, e)
                                /\ \A i \in DOMAIN q : q[i].time >= e.time <=> i <= n
<1>1. PICK L \in Nat : L = Len(q) /\ DOMAIN q = 1..L
  OBVIOUS
<1>2. PICK D : D = {i \in DOMAIN q : q[i].time >= e.time}
  OBVIOUS
<1>3. PICK m \in Nat : m \in 1..(L + 1) /\ m \notin D /\ \A k \in 1..(L + 1) : k \notin D => m <= k
  <2> DEFINE S == {k \in Nat : k \in 1..(L + 1) /\ k \notin D}
  <2>1. L + 1 \in S
    BY <1>1, <1>2
  <2>2. S \in SUBSET Nat /\ S # {}
    BY <2>1
  <2>3. PICK m \in S : \A k \in S : m <= k
    BY <2>2, LeastNat
  <2>. QED BY <2>3
<1>4. ASSUME NEW i \in 1..L PROVE q[i] \in Timed /\ q[i].time \in Nat
  <2>1. q[i] \in Timed
    BY <1>1
  <2>. QED BY <2>1 DEF Timed
<1>5. ASSUME NEW i \in 1..L PROVE i \in D <=> i <= m - 1
  <2>1. CASE i <= m - 1
    BY <1>1, <1>3, <2>1
  <2>2. CASE ~(i <= m - 1)
    <3>1. m \in 1..L /\ m <= i
      BY <1>3, <2>2
    <3>2. q[m].time >= q[i].time /\ ~(q[m].time >= e.time)
      BY <1>1, <1>2, <1>3, <3>1 DEF Sorted
    <3>3. q[m].time \in Nat /\ q[i].time \in Nat /\ e.time \in Nat
      BY <1>4, <3>1 DEF Timed
    <3>4. ~(q[i].time >= e.time)
      BY <3>2, <3>3
    <3>. QED BY <1>2, <2>2, <3>4
  <2>. QED BY <2>1, <2>2
<1>6. D = 1..(m - 1)
  <2>1. D \subseteq 1..L
    BY <1>1, <1>2
  <2>2. \A i \in 1..(m - 1) : i \in 1..L
    BY <1>1, <1>3
  <2>3. \A i \in 1..L : i <= m - 1 => i \in 1..(m - 1)
    BY <1>1, <1>3
  <2>4. \A i \in 1..(m - 1) : i <= m - 1
    BY <1>3
  <2>. QED BY <1>5, <2>1, <2>2, <2>3, <2>4
<1>7. Cardinality(D) = m - 1
  BY <1>3, <1>6, FS_Interval
<1>8. PushSorted(q, e) = Insertion(q, m - 1, e)
  BY <1>2, <1>7 DEF PushSorted, Insertion
<1>9. m - 1 \in 0..Len(q)
  BY <1>1, <1>3
<1>. QED BY <1>1, <1>2, <1>5, <1>8, <1>9

LEMMA PushedSorted ==
    ASSUME NEW q \in Seq(Timed), Sorted(q), NEW e \in Timed
    PROVE  Sorted(PushSorted(q, e))
<1>1. PICK n \in 0..Len(q) : /\ PushSorted(q, e) = Insertion(q, n, e)
                             /\ \A i \in DOMAIN q : q[i].time >= e.time <=> i <= n
  BY PushedBehind
<1>2. PICK L \in Nat : L = Len(q) /\ DOMAIN q = 1..L /\ n \in 0..L
  OBVIOUS
<1>3. PICK c : c = Insertion(q, n, e)
  OBVIOUS
<1>4. /\ DOMAIN c = 1..(L + 1)
      /\ \A j \in 1..(L + 1) : c[j] = IF j <= n THEN q[j] ELSE IF j = n + 1 THEN e ELSE q[j - 1]
  <2>1. Inserted(c, Timed, q, n, e)
    BY <1>3, InsertionIs
  <2>. QED BY <1>2, <2>1 DEF Inserted
<1>5. ASSUME NEW i \in 1..L PROVE q[i] \in Timed /\ q[i].time \in Nat
  <2>1. q[i] \in Timed
    BY <1>2
  <2>. QED BY <2>1 DEF Timed
<1>6. e.time \in Nat
  BY DEF Timed
<1>7. ASSUME NEW i \in 1..(L + 1), NEW j \in 1..(L + 1), i <= j PROVE c[i].time >= c[j].time
  <2>1. CASE i <= n /\ j <= n
    <3>1. i \in 1..L /\ j \in 1..L /\ c[i] = q[i] /\ c[j] = q[j]
      BY <1>2, <1>4, <2>1
    <3>. QED BY <1>2, <1>7, <3>1 DEF Sorted
  <2>2. CASE i <= n /\ j = n + 1
    <3>1. i \in 1..L /\ c[i] = q[i] /\ c[j] = e
      BY <1>2, <1>4, <2>2
    <3>. QED BY <1>1, <1>2, <2>2, <3>1
  <2>3. CASE i <= n /\ j > n + 1
    <3>1. i \in 1..L /\ j - 1 \in 1..L /\ i <= j - 1 /\ c[i] = q[i] /\ c[j] = q[j - 1]
      BY <1>2, <1>4, <2>3
    <3>. QED BY <1>2, <3>1 DEF Sorted
  <2>4. CASE i = n + 1 /\ j = n + 1
    BY <1>2, <1>4, <1>6, <2>4
  <2>5. CASE i = n + 1 /\ j > n + 1
    <3>1. j - 1 \in 1..L /\ ~(j - 1 <= n) /\ c[i] = e /\ c[j] = q[j - 1]
      BY <1>2, <1>4, <2>5
    <3>2. ~(q[j - 1].time >= e.time) /\ q[j - 1].time \in Nat
      BY <1>1, <1>2, <1>5, <3>1
    <3>. QED BY <1>6, <3>1, <3>2
  <2>6. CASE i > n + 1 /\ j > n + 1
    <3>1. i - 1 \in 1..L /\ j - 1 \in 1..L /\ i - 1 <= j - 1 /\ c[i] = q[i - 1] /\ c[j] = q[j - 1]
      BY <1>2, <1>4, <1>7, <2>6
    <3>. QED BY <1>2, <3>1 DEF Sorted
  <2>. QED BY <1>2, <1>7, <2>1, <2>2, <2>3, <2>4, <2>5, <2>6
<1>. QED BY <1>1, <1>3, <1>4, <1>7 DEF Sorted

LEMMA RemovedSorted ==
    ASSUME NEW q \in Seq(Timed), Sorted(q), NEW p \in 1..Len(q)
    PROVE  Sorted(Removal(q, p))
<1>1. PICK L \in Nat : L = Len(q) /\ DOMAIN q = 1..L /\ p \in 1..L
  OBVIOUS
<1>2. PICK c : c = Removal(q, p)
  OBVIOUS
<1>3. /\ DOMAIN c = 1..(L - 1)
      /\ \A j \in 1..(L - 1) : c[j] = IF j < p THEN q[j] ELSE q[j + 1]
  BY <1>1, <1>2, RemovedAt
<1>4. ASSUME NEW i \in 1..(L - 1), NEW j \in 1..(L - 1), i <= j PROVE c[i].time >= c[j].time
  <2>1. PICK a \in 1..L : a = (IF i < p THEN i ELSE i + 1) /\ c[i] = q[a]
    BY <1>1, <1>3
  <2>2. PICK b \in 1..L : b = (IF j < p THEN j ELSE j + 1) /\ c[j] = q[b]
    BY <1>1, <1>3
  <2>3. a <= b
    BY <1>1, <1>4, <2>1, <2>2
  <2>. QED BY <1>1, <2>1, <2>2, <2>3 DEF Sorted
<1>. QED BY <1>2, <1>3, <1>4 DEF Sorted

\* pop_back takes the last place.
LEMMA PoppedLast ==
    ASSUME NEW q \in Seq(Timed), q # <<>>
    PROVE  /\ Len(q) \in 1..Len(q) /\ Last(q) = q[Len(q)] /\ Last(q) \in Timed
           /\ Front(q) = Removal(q, Len(q))
<1>1. PICK L \in Nat : L = Len(q) /\ DOMAIN q = 1..L /\ L >= 1
  OBVIOUS
<1>2. SubSeq(q, L + 1, L) = <<>>
  BY <1>1
<1>3. SubSeq(q, 1, L - 1) \in Seq(Timed)
  BY <1>1
<1>4. SubSeq(q, 1, L - 1) \o <<>> = SubSeq(q, 1, L - 1)
  BY <1>3
<1>. QED BY <1>1, <1>2, <1>4 DEF Last, Front, Removal
-----------------------------------------------------------------------------
(***************************************************************************)
(* ntimer is an event source.  The order of the vector is what makes the   *)
(* event at its end the earliest; that the thread has finished one event   *)
(* when it takes the next is known from its place in the loop.             *)
(***************************************************************************)
SourceInv == ThreadPart /\ Sorted(events)

LEMMA BagIs ==
    /\ BagOf(events) = [e \in {events[i] : i \in DOMAIN events} |-> Cardinality({i \in DOMAIN events : events[i] = e})]
    /\ BagOf(events') = [e \in {events[i] : i \in DOMAIN events} |-> Cardinality({i \in DOMAIN events : events[i] = e})]'
  BY DEF BagOf, Places

\* Neither the vector nor the running callback is touched.
Idle ==
    /\ UNCHANGED <<events, firing>> /\ now' \in Nat /\ now' >= now
    /\ global_timer' \in Nat /\ global_timer' <= now' /\ (pc' = "callback" <=> pc = "callback")

LEMMA IdleSource == ASSUME SourceInv, Idle PROVE SourceInv' /\ UNCHANGED Source!sourceVars
<1>1. SourceInv'
  BY DEF SourceInv, ThreadPart, Idle, Sorted, Timed
<1>2. UNCHANGED Source!sourceVars
  BY DEF Idle, Source!sourceVars
<1>. QED BY <1>1, <1>2

LEMMA ScheduleSource ==
    ASSUME SourceInv, NEW k \in Key, NEW d \in Delays, ScheduleEvent(k, d)
    PROVE  SourceInv' /\ Source!Next
<1>1. PICK e : e = [key |-> k, time |-> now + d]
  OBVIOUS
<1>2. e \in Timed /\ e.time >= now /\ now \in Nat /\ events \in Seq(Timed) /\ Sorted(events)
  BY <1>1, TimeAssumption DEF Timed, SourceInv, ThreadPart
<1>3. /\ events' = PushSorted(events, e) /\ UNCHANGED <<now, global_timer, firing>>
      /\ pc' = "callback" <=> pc = "callback"
  BY <1>1 DEF ScheduleEvent, Wake
<1>4. PICK n \in 0..Len(events) : events' = Insertion(events, n, e)
  BY <1>2, <1>3, PushedBehind
<1>5. events' \in Seq(Timed) /\ Sorted(events')
  <2>1. Inserted(events', Timed, events, n, e)
    BY <1>2, <1>4, InsertionIs
  <2>2. Sorted(events')
    BY <1>2, <1>3, PushedSorted
  <2>. QED BY <2>1, <2>2 DEF Inserted
<1>6. SourceInv'
  BY <1>3, <1>5 DEF SourceInv, ThreadPart, Sorted
<1>7. BagOf(events') = Source!(+)(BagOf(events), Source!SetToBag({e}))
  BY <1>2, <1>4, InsertedBag
<1>8. Source!Schedule(e)
  BY <1>2, <1>3, <1>7, BagIs DEF Source!Schedule
<1>9. e \in Source!BagToSet(BagOf(events'))
  BY <1>7 DEF Source!BagToSet, Source!(+), Source!SetToBag
<1>. QED BY <1>6, <1>8, <1>9, BagIs DEF Source!Next

LEMMA UnscheduleSource ==
    ASSUME SourceInv, NEW k \in Key, UnscheduleEvent(k)
    PROVE  SourceInv' /\ (Source!Next \/ UNCHANGED Source!sourceVars)
<1>1. UNCHANGED <<now, pc, global_timer, firing>>
  BY DEF UnscheduleEvent, threadVars
<1>2. events \in Seq(Timed) /\ Sorted(events) /\ now \in Nat /\ global_timer \in Nat /\ global_timer <= now
  BY DEF SourceInv, ThreadPart
<1>3. CASE ~HasKey(events, k)
  <2>1. events' = events
    BY <1>3 DEF UnscheduleEvent, HasKey
  <2>2. Idle
    BY <1>1, <1>2, <2>1 DEF Idle
  <2>. QED BY <2>2, IdleSource
<1>4. CASE HasKey(events, k)
  <2>1. events' = Erased(events, k)
    BY <1>4 DEF UnscheduleEvent, HasKey
  <2>2. PICK p \in DOMAIN events : Erased(events, k) = Removal(events, p)
    BY <1>2, <1>4, ErasedPlace
  <2>3. p \in 1..Len(events)
    BY <1>2
  <2>4. events' \in Seq(Timed) /\ Sorted(events')
    BY <1>2, <2>1, <2>2, <2>3, RemovedBack, RemovedSorted
  <2>5. SourceInv'
    BY <1>1, <2>4 DEF SourceInv, ThreadPart, Sorted
  <2>6. PICK e : e = events[p]
    OBVIOUS
  <2>7. BagOf(events') = Source!(-)(BagOf(events), Source!SetToBag({e}))
    BY <1>2, <2>1, <2>2, <2>3, <2>6, RemovedBag
  <2>8. e \in Source!BagToSet(BagOf(events))
    BY <2>6 DEF Source!BagToSet, BagOf
  <2>9. Source!Unschedule(e)
    BY <1>1, <2>7, <2>8, BagIs DEF Source!Unschedule, Source!BagIn
  <2>. QED BY <2>5, <2>8, <2>9, BagIs DEF Source!Next
<1>. QED BY <1>3, <1>4

\* advance takes the event at the end, which no queued event is earlier than.
LEMMA ScanSource ==
    ASSUME SourceInv, NEW t \in Nat, t <= now, pc # "callback", Scan(t)
    PROVE  SourceInv' /\ (Source!Next \/ UNCHANGED Source!sourceVars)
<1>1. global_timer' = t /\ now' = now
  BY DEF Scan
<1>2. /\ events \in Seq(Timed) /\ Sorted(events) /\ now \in Nat /\ firing = None
  BY DEF SourceInv, ThreadPart
<1>3. CASE UNCHANGED <<firing, events>> /\ pc' = "towait"
  <2>1. Idle
    BY <1>1, <1>2, <1>3 DEF Idle
  <2>. QED BY <2>1, IdleSource
<1>4. CASE /\ events # <<>> /\ Due(Last(events), t)
           /\ firing' = Last(events) /\ events' = Front(events) /\ pc' = "callback"
  <2>1. PICK e : e = Last(events)
    OBVIOUS
  <2>2. PICK p \in 1..Len(events) : p = Len(events) /\ e = events[p] /\ e \in Timed /\ Front(events) = Removal(events, p)
    BY <1>2, <1>4, <2>1, PoppedLast
  <2>3. e.time <= now /\ e.time \in Nat /\ e # None
    BY <1>2, <1>4, <2>1, <2>2, NoneAssumption DEF Due, Timed
  <2>4. events' \in Seq(Timed) /\ Sorted(events')
    BY <1>2, <1>4, <2>2, RemovedBack, RemovedSorted
  <2>5. SourceInv'
    BY <1>1, <1>2, <1>4, <2>1, <2>2, <2>3, <2>4 DEF SourceInv, ThreadPart, Sorted
  <2>6. BagOf(events') = Source!(-)(BagOf(events), Source!SetToBag({e}))
    BY <1>2, <1>4, <2>2, RemovedBag
  <2>7. p \in DOMAIN events /\ \A i \in DOMAIN events : i <= p
    BY <1>2, <2>2
  <2>8. e \in Source!BagToSet(BagOf(events))
    BY <2>2, <2>7 DEF Source!BagToSet, BagOf
  <2>9. \A f \in Source!BagToSet(BagOf(events)) : e.time <= f.time
    <3>1. ASSUME NEW i \in DOMAIN events PROVE e.time <= events[i].time
      <4>1. events[i].time >= events[p].time
        BY <1>2, <2>7 DEF Sorted
      <4>2. events[i] \in Timed
        BY <1>2
      <4>3. events[i].time \in Nat
        BY <4>2 DEF Timed
      <4>. QED BY <2>2, <2>3, <4>1, <4>3
    <3>. QED BY <3>1 DEF Source!BagToSet, BagOf
  <2>10. Source!Take(e)
    BY <1>2, <1>4, <2>1, <2>3, <2>6, <2>8, <2>9, BagIs DEF Source!Take, Source!BagIn
  <2>. QED BY <2>5, <2>8, <2>10, BagIs DEF Source!Next
<1>. QED BY <1>3, <1>4 DEF Scan

LEMMA SourceStart == TimerInit => SourceInv /\ Source!Init
<1> SUFFICES ASSUME TimerInit PROVE SourceInv /\ Source!Init
  OBVIOUS
<1>1. events = <<>> /\ firing = None
  BY DEF TimerInit
<1>2. SourceInv
  BY <1>1 DEF TimerInit, SourceInv, ThreadPart, Sorted
<1>3. {events[i] : i \in DOMAIN events} = {}
  BY <1>1
<1>4. Source!Init
  BY <1>1, <1>3 DEF Source!Init, Source!EmptyBag, Source!SetToBag
<1>. QED BY <1>2, <1>4

LEMMA SourceStep == SourceInv /\ [TimerNext]_timerVars => SourceInv' /\ [Source!Next]_Source!sourceVars
<1> SUFFICES ASSUME SourceInv, [TimerNext]_timerVars PROVE SourceInv' /\ (Source!Next \/ UNCHANGED Source!sourceVars)
  OBVIOUS
<1>1. now \in Nat /\ global_timer \in Nat /\ global_timer <= now
  BY DEF SourceInv, ThreadPart
<1>2. CASE UNCHANGED timerVars
  BY <1>1, <1>2, IdleSource DEF timerVars, threadVars, Idle
<1>3. ASSUME NEW b \in BOOLEAN, SetPaused(b) PROVE Idle
  BY <1>1, <1>3 DEF SetPaused, threadVars, Idle
<1>4. CASE TestStop \/ LeaveInner \/ WaitStart \/ WaitTimeout \/ WaitSpurious
  BY <1>1, <1>4, IdleSource DEF TestStop, LeaveInner, WaitStart, WaitTimeout, WaitSpurious, WaitEnd, Idle
<1>5. CASE Advance \/ AdvanceFurther
  BY <1>1, <1>5, ScanSource DEF Advance, AdvanceFurther
<1>6. CASE Callback
  <2>1. firing # None /\ firing' = None /\ UNCHANGED <<events, now, global_timer>> /\ pc' = "scan"
    BY <1>6 DEF Callback, SourceInv, ThreadPart
  <2>2. SourceInv'
    BY <2>1 DEF SourceInv, ThreadPart, Sorted
  <2>3. Source!Finish
    BY <2>1 DEF Source!Finish
  <2>. QED BY <2>2, <2>3 DEF Source!Next
<1>7. CASE Tick
  <2>1. Idle
    BY <1>1, <1>7 DEF Tick, threadVars, Idle
  <2>. QED BY <2>1, IdleSource
<1>8. CASE DestroyStop \/ DestroyRest
  <2>1. Idle
    BY <1>1, <1>8 DEF DestroyStop, DestroyRest, DestroyPause, DestroyNotify, DestroyJoin, Wake, threadVars, Idle
  <2>. QED BY <2>1, IdleSource
<1>. QED BY <1>2, <1>3, <1>4, <1>5, <1>6, <1>7, <1>8, IdleSource, ScheduleSource, UnscheduleSource
         DEF TimerNext, ThreadStep

\* push_back, stable_sort, erase and pop_back keep the vector in the order of the times.
THEOREM QueueSorted == TimerSpec => []SourceInv
  BY SourceStart, SourceStep, PTL DEF TimerSpec

\* Any schedule, unschedule, pause, destruction and pass of the timer thread, in any order,
\* is a step of an event source or none: due events are taken earliest first, each once.
THEOREM TimerIsSource == TimerSpec => ImplementsEventSource
  BY SourceStart, SourceStep, QueueSorted, PTL DEF TimerSpec, ImplementsEventSource, Source!Spec
=============================================================================
