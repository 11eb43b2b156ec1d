-------------------------- MODULE HandleTableProofs -------------------------
(***************************************************************************)
(* Reference counts, slots and handles agree for every number of threads,  *)
(* processes, objects and slots.  The counts alone are not inductive: that *)
(* close destroys no object another slot still holds rests on the count    *)
(* being exact, and that an object created next has no slot yet rests on   *)
(* slots holding registered objects only.                                  *)
(***************************************************************************)
EXTENDS HandleTableProperties, FiniteSetTheorems, TLAPS

\* The slots of the tables f that hold o.
SlotsIn(f, o) == {s \in Table \X Slot : f[s[1]][s[2]] = o}

\* The tables f with o in slot i of tab.
With(f, tab, i, o) == [f EXCEPT ![tab][i] = o]

Tables == [Table -> [Slot -> Object \cup {None}]]

LEMMA FiniteSlots == ASSUME NEW f, NEW o PROVE IsFiniteSet(SlotsIn(f, o)) /\ Cardinality(SlotsIn(f, o)) \in Nat
<1>1. IsFiniteSet(Slot)
  BY FS_Interval, BoundsAssumption DEF Slot
<1>2. IsFiniteSet(Table)
  <2>1. IsFiniteSet(Thread \cup Process)
    BY FS_Union, TablesAssumption
  <2>2. IsFiniteSet({Kernel})
    BY FS_Singleton
  <2>3. QED
    BY <2>1, <2>2, FS_Union DEF Table
<1>3. IsFiniteSet(Table \X Slot)
  BY <1>1, <1>2, FS_Product
<1>4. SlotsIn(f, o) \in SUBSET (Table \X Slot)
  BY DEF SlotsIn
<1>5. IsFiniteSet(SlotsIn(f, o))
  BY <1>3, <1>4, FS_Subset
<1>6. QED
  BY <1>5, FS_CardinalityType

\* Filling an empty slot with o adds one slot to o's and none to another's.
LEMMA FillSlot ==
    ASSUME NEW f \in Tables, NEW tab \in Table, NEW i \in Slot, f[tab][i] = None, NEW o \in Object,
           NEW u \in Object, NEW g, g = With(f, tab, i, o)
    PROVE  /\ g \in Tables
           /\ u = o => Cardinality(SlotsIn(g, u)) = Cardinality(SlotsIn(f, u)) + 1
           /\ u # o => Cardinality(SlotsIn(g, u)) = Cardinality(SlotsIn(f, u))
<1>1. g \in Tables
  BY DEF Tables, With
<1>2. \A s \in Table \X Slot : g[s[1]][s[2]] = IF s = <<tab, i>> THEN o ELSE f[s[1]][s[2]]
  BY DEF Tables, With
<1>3. <<tab, i>> \notin SlotsIn(f, u)
  BY BoundsAssumption DEF SlotsIn
<1>4. CASE u = o
  <2>1. SlotsIn(g, u) = SlotsIn(f, u) \cup {<<tab, i>>}
    BY <1>2, <1>4 DEF SlotsIn
  <2>2. QED
    BY <2>1, <1>3, <1>1, <1>4, FiniteSlots, FS_AddElement
<1>5. CASE u # o
  <2>1. SlotsIn(g, u) = SlotsIn(f, u)
    BY <1>2, <1>5, <1>3 DEF SlotsIn
  <2>2. QED
    BY <2>1, <1>1, <1>5, FiniteSlots
<1>6. QED
  BY <1>4, <1>5

\* Emptying a slot that holds o takes one slot from o's and none from another's.
LEMMA EmptySlot ==
    ASSUME NEW f \in Tables, NEW tab \in Table, NEW i \in Slot, NEW o \in Object, f[tab][i] = o,
           NEW u \in Object, NEW g, g = With(f, tab, i, None)
    PROVE  /\ g \in Tables
           /\ u = o => Cardinality(SlotsIn(g, u)) = Cardinality(SlotsIn(f, u)) - 1
           /\ u # o => Cardinality(SlotsIn(g, u)) = Cardinality(SlotsIn(f, u))
           /\ u = o /\ Cardinality(SlotsIn(g, u)) <= 0 => \A s \in Table \X Slot : g[s[1]][s[2]] # o
<1>1. g \in Tables
  BY DEF Tables, With
<1>2. \A s \in Table \X Slot : g[s[1]][s[2]] = IF s = <<tab, i>> THEN None ELSE f[s[1]][s[2]]
  BY DEF Tables, With
<1>3. CASE u = o
  <2>1. SlotsIn(g, u) = SlotsIn(f, u) \ {<<tab, i>>} /\ <<tab, i>> \in SlotsIn(f, u)
    BY <1>2, <1>3, BoundsAssumption DEF SlotsIn
  <2>2. Cardinality(SlotsIn(g, u)) = Cardinality(SlotsIn(f, u)) - 1
    BY <2>1, FiniteSlots, FS_RemoveElement
  <2>3. Cardinality(SlotsIn(g, u)) <= 0 => SlotsIn(g, u) = {}
    BY FiniteSlots, FS_EmptySet
  <2>4. SlotsIn(g, u) = {} => \A s \in Table \X Slot : g[s[1]][s[2]] # o
    BY <1>3 DEF SlotsIn
  <2>5. QED
    BY <2>2, <2>3, <2>4, <1>1, <1>3
<1>4. CASE u # o
  <2>1. SlotsIn(g, u) = SlotsIn(f, u)
    BY <1>2, <1>4, BoundsAssumption DEF SlotsIn
  <2>2. QED
    BY <2>1, <1>1, <1>4, FiniteSlots
<1>5. QED
  BY <1>3, <1>4
-----------------------------------------------------------------------------
\* What is said of the tables and counts, and of the handles handed out.
CountInv == HandleTypeOK /\ CountsMatchSlots /\ NoDanglingSlot

HandlesTagged ==
    \A r \in held : /\ r.handle.thread = (r.tab \in Thread) /\ r.handle.kernel = (r.tab = Kernel)
                    /\ r.handle.instance <= next_instance[r.tab]

HeldInSlots ==
    ~stale /\ InstancesFit =>
        /\ \A r \in held : objects[r.tab][r.handle.index] = r.obj
        /\ \A r, q \in held : r.tab = q.tab /\ r.handle.index = q.handle.index => r = q

HandleInv == CountInv /\ HandlesTagged /\ HeldInSlots

LEMMA CountsIn == CountsMatchSlots <=> \A o \in Object : access_count[o] = Cardinality(SlotsIn(objects, o))
  BY DEF CountsMatchSlots, SlotsOf, SlotsIn

LEMMA CountsInNext ==
    CountsMatchSlots' <=> \A o \in Object : access_count'[o] = Cardinality(SlotsIn(objects', o))
  BY DEF CountsMatchSlots, SlotsOf, SlotsIn

LEMMA HandleType ==
    ASSUME NEW tab \in Table, NEW n \in Nat, NEW i \in Slot
    PROVE  /\ MakeHandle(tab, n, i) \in [index : Slot, instance : Nat, thread : BOOLEAN, kernel : BOOLEAN]
           /\ MakeHandle(tab, n, i).instance <= n
<1>1. n % 65536 \in Nat /\ n % 65536 <= n
  OBVIOUS
<1>2. QED
  BY <1>1 DEF MakeHandle

\* add_object keeps the counts exact and puts only the object it is given into
\* a slot.
LEMMA AddObjectStep ==
    ASSUME HandleInv, NEW tab \in Table, NEW o \in Object, AddObject(tab, o),
           uid_counter' \in 0..MaxObjects, registry \cup {o} \subseteq registry',
           registry' \subseteq 1..uid_counter', lasting' \subseteq 1..uid_counter', stale' = stale
    PROVE  HandleInv'
<1> DEFINE n == next_instance[tab] + 1
<1>0. /\ HandleTypeOK /\ CountsMatchSlots /\ NoDanglingSlot /\ HandlesTagged /\ HeldInSlots
      /\ objects \in Tables /\ next_instance \in [Table -> Nat] /\ access_count \in [Object -> Int]
      /\ held \subseteq HeldHandle /\ stale \in BOOLEAN /\ n \in Nat
  BY DEF HandleInv, CountInv, HandleTypeOK, Tables
<1>1. PICK i \in FirstFree(tab) : FillSlotWith(tab, i, o)
  BY DEF AddObject
<1>2. i \in Slot /\ objects[tab][i] = None
  BY <1>1 DEF FirstFree, FreeSlots
<1>3. /\ objects' = [objects EXCEPT ![tab][i] = o] /\ objects' = With(objects, tab, i, o)
      /\ next_instance' = [next_instance EXCEPT ![tab] = n]
      /\ held' = held \cup {[tab |-> tab, handle |-> MakeHandle(tab, n, i), obj |-> o]}
      /\ access_count' = [access_count EXCEPT ![o] = @ + 1]
  BY <1>1 DEF FillSlotWith, AddObject, With
<1>4. MakeHandle(tab, n, i) \in [index : Slot, instance : Nat, thread : BOOLEAN, kernel : BOOLEAN]
  BY <1>0, <1>2, HandleType
<1>5. HandleTypeOK'
  <2>1. objects' \in Tables
    BY <1>0, <1>2, <1>3, FillSlot
  <2>2. access_count' \in [Object -> Int] /\ next_instance' \in [Table -> Nat]
    BY <1>0, <1>3
  <2>3. held' \subseteq HeldHandle
    BY <1>0, <1>3, <1>4 DEF HeldHandle
  <2>4. QED
    BY <1>0, <2>1, <2>2, <2>3 DEF HandleTypeOK, Tables
<1>6. CountsMatchSlots'
  <2>0. objects \in Tables /\ objects' = With(objects, tab, i, o)
    BY <1>0, <1>3
  <2>1. ASSUME NEW u \in Object PROVE access_count'[u] = Cardinality(SlotsIn(objects', u))
    <3>1. /\ u = o => Cardinality(SlotsIn(objects', u)) = Cardinality(SlotsIn(objects, u)) + 1
          /\ u # o => Cardinality(SlotsIn(objects', u)) = Cardinality(SlotsIn(objects, u))
      BY <2>0, <1>2, FillSlot
    <3>2. access_count[u] = Cardinality(SlotsIn(objects, u)) /\ access_count[u] \in Int
      BY <1>0, CountsIn
    <3>3. QED
      BY <3>1, <3>2, <1>0, <1>3
  <2>2. QED
    BY <2>1, CountsInNext
<1>7. NoDanglingSlot'
  <2>1. \A x \in Table, j \in Slot : objects'[x][j] = IF x = tab /\ j = i THEN o ELSE objects[x][j]
    BY <1>0, <1>2, <1>3 DEF Tables
  <2>2. QED
    BY <2>1, <1>0 DEF NoDanglingSlot
<1>8. HandlesTagged'
  <2> DEFINE new == [tab |-> tab, handle |-> MakeHandle(tab, n, i), obj |-> o]
  <2>1. ASSUME NEW r \in held
        PROVE  /\ r.handle.thread = (r.tab \in Thread) /\ r.handle.kernel = (r.tab = Kernel)
               /\ r.handle.instance <= next_instance'[r.tab]
    <3>1. r.tab \in Table /\ r.handle.instance \in Nat
      BY <1>0 DEF HeldHandle
    <3>2. next_instance[r.tab] <= next_instance'[r.tab] /\ next_instance'[r.tab] \in Nat /\ next_instance[r.tab] \in Nat
      BY <3>1, <1>0, <1>3
    <3>3. QED
      BY <3>1, <3>2, <1>0 DEF HandlesTagged
  <2>2. /\ new.handle.thread = (new.tab \in Thread) /\ new.handle.kernel = (new.tab = Kernel)
        /\ new.handle.instance <= next_instance'[new.tab]
    <3>1. next_instance'[tab] = n
      BY <1>0, <1>3
    <3>2. MakeHandle(tab, n, i).instance <= n
      BY <1>0, <1>2, HandleType
    <3>3. QED
      BY <3>1, <3>2 DEF MakeHandle
  <2>3. QED
    BY <2>1, <2>2, <1>3 DEF HandlesTagged
<1>9. HeldInSlots'
  <2> SUFFICES ASSUME ~stale', InstancesFit'
               PROVE  /\ \A r \in held' : objects'[r.tab][r.handle.index] = r.obj
                      /\ \A r, q \in held' : r.tab = q.tab /\ r.handle.index = q.handle.index => r = q
    BY DEF HeldInSlots
  <2> DEFINE new == [tab |-> tab, handle |-> MakeHandle(tab, n, i), obj |-> o]
  <2>1. InstancesFit
    <3>1. \A x \in Table : next_instance[x] <= next_instance'[x] /\ next_instance[x] \in Nat /\ next_instance'[x] \in Nat
      BY <1>0, <1>3
    <3>2. QED
      BY <3>1 DEF InstancesFit, Table
  <2>2. /\ \A r \in held : objects[r.tab][r.handle.index] = r.obj
        /\ \A r, q \in held : r.tab = q.tab /\ r.handle.index = q.handle.index => r = q
    BY <2>1, <1>0 DEF HeldInSlots
  <2>3. ASSUME NEW r \in held
        PROVE  /\ ~(r.tab = tab /\ r.handle.index = i)
               /\ objects'[r.tab][r.handle.index] = r.obj
    <3>1. r.tab \in Table /\ r.handle.index \in Slot /\ r.obj \in Object
      BY <1>0 DEF HeldHandle
    <3>2. objects[r.tab][r.handle.index] = r.obj /\ r.obj # None
      BY <2>2, <3>1, BoundsAssumption
    <3>3. QED
      BY <3>1, <3>2, <1>0, <1>2, <1>3 DEF Tables
  <2>4. new.tab = tab /\ new.handle.index = i /\ new.obj = o
    BY DEF MakeHandle
  <2>5. objects'[new.tab][new.handle.index] = new.obj
    BY <2>4, <1>0, <1>2, <1>3 DEF Tables
  <2>6. QED
    BY <2>2, <2>3, <2>4, <2>5, <1>3
<1>10. QED
  BY <1>5, <1>6, <1>7, <1>8, <1>9 DEF HandleInv, CountInv
LEMMA SmallHasNoBit ==
    ASSUME NEW w \in Nat \ {0}, NEW n \in Nat, n < w PROVE ~BitSet(n, w)
<1>1. n \div w = 0
  OBVIOUS
<1>2. QED
  BY <1>1 DEF BitSet

\* Where a handle that is held is looked up, as long as the instances fit.
LEMMA HandleRoutes ==
    ASSUME HandleTypeOK, HandlesTagged, InstancesFit, NEW r \in held, NEW t \in Thread, r.tab \in Usable(t)
    PROVE  TableOf(t, r.handle) = r.tab
<1>1. /\ r.tab \in Table /\ r.handle.instance \in Nat /\ next_instance \in [Table -> Nat]
      /\ r.handle.thread = (r.tab \in Thread) /\ r.handle.kernel = (r.tab = Kernel)
      /\ r.handle.instance <= next_instance[r.tab]
  BY DEF HandleTypeOK, HeldHandle, HandlesTagged
<1>2. Owner[t] \in Process /\ Owner[t] \notin Thread /\ Owner[t] # Kernel /\ Kernel \notin Thread
  BY TablesAssumption
<1>3. CASE r.tab = t
  <2>0. r.handle.thread
    BY <1>1, <1>3, Zenon
  <2>1. r.handle.instance < 32768
    BY <1>1, <1>3 DEF InstancesFit
  <2>2. ~BitSet(r.handle.instance, 32768)
    BY <2>1, <1>1, SmallHasNoBit
  <2>3. QED
    BY <2>0, <2>2, <1>3 DEF TableOf, Local
<1>4. CASE r.tab = Owner[t]
  <2>0. ~r.handle.thread /\ ~r.handle.kernel
    BY <1>1, <1>2, <1>4, Zenon
  <2>1. r.handle.instance < 8192
    BY <1>1, <1>2, <1>4 DEF InstancesFit
  <2>2. ~BitSet(r.handle.instance, 16384) /\ ~BitSet(r.handle.instance, 8192)
    BY <2>1, <1>1, SmallHasNoBit
  <2>3. QED
    BY <2>0, <2>2, <1>4 DEF TableOf, Local, InKernel
<1>5. CASE r.tab = Kernel
  <2>0. ~r.handle.thread /\ r.handle.kernel
    BY <1>1, <1>2, <1>5, Zenon
  <2>1. r.handle.instance < 16384
    BY <1>1, <1>2, <1>5 DEF InstancesFit
  <2>2. ~BitSet(r.handle.instance, 16384)
    BY <2>1, <1>1, SmallHasNoBit
  <2>3. QED
    BY <2>0, <2>2, <1>5 DEF TableOf, Local, InKernel
<1>6. QED
  BY <1>3, <1>4, <1>5 DEF Usable

LEMMA DestroysItself ==
    ASSUME HandleTypeOK, NEW o \in registry PROVE LowerBound(o) = {o}
<1>1. \A v \in registry : v \in Int
  BY BoundsAssumption DEF HandleTypeOK
<1>2. QED
  BY <1>1 DEF LowerBound

\* close takes the closed slot's object, and destroys it only if no slot is left.
LEMMA CloseStep ==
    ASSUME HandleInv, NEW t \in Thread, NEW h, h.index \in Slot, HandleClose(t, h)
    PROVE  HandleInv'
<1> DEFINE tab == TableOf(t, h)
           i == h.index
           o == objects[tab][i]
<1>0. /\ HandleTypeOK /\ CountsMatchSlots /\ NoDanglingSlot /\ HandlesTagged /\ HeldInSlots
      /\ objects \in Tables /\ next_instance \in [Table -> Nat] /\ access_count \in [Object -> Int]
      /\ held \subseteq HeldHandle /\ stale \in BOOLEAN
      /\ registry \subseteq 1..uid_counter /\ uid_counter \in 0..MaxObjects
  BY DEF HandleInv, CountInv, HandleTypeOK, Tables
<1>1. tab \in Table
  BY TablesAssumption DEF TableOf, Table
<1>2. /\ o # None
      /\ access_count' = [access_count EXCEPT ![o] = @ - 1]
      /\ registry' = IF access_count[o] - 1 <= 0 /\ o \notin lasting
                     THEN registry \ LowerBound(o) ELSE registry
      /\ objects' = [objects EXCEPT ![tab][i] = None] /\ objects' = With(objects, tab, i, None)
      /\ held' = held \ HeldBy(t, h) /\ stale' = (stale \/ HeldBy(t, h) = {})
      /\ uid_counter' = uid_counter /\ lasting' = lasting /\ next_instance' = next_instance
  BY DEF HandleClose, CloseSlot, GetObject, With
<1> HIDE DEF tab, i, o
<1>3. i \in Slot /\ o \in Object /\ objects[tab][i] = o /\ o \in registry
  BY <1>0, <1>1, <1>2 DEF Tables, o, i, NoDanglingSlot
<1>4. LowerBound(o) = {o}
  BY <1>0, <1>3, DestroysItself
<1>5. HandleTypeOK'
  <2>1. objects' \in Tables
    BY <1>0, <1>1, <1>2, <1>3, EmptySlot
  <2>2. access_count' \in [Object -> Int]
    BY <1>0, <1>2, <1>3
  <2>3. registry' \subseteq registry /\ held' \subseteq held
    BY <1>2
  <2>4. stale' \in BOOLEAN
    BY <1>2, Zenon
  <2>5. QED
    BY <1>0, <1>2, <2>1, <2>2, <2>3, <2>4 DEF HandleTypeOK, Tables
<1>5a. objects \in Tables /\ objects' = With(objects, tab, i, None)
  BY <1>0, <1>2
<1>6. \A u \in Object : access_count'[u] = Cardinality(SlotsIn(objects', u))
  <2>1. ASSUME NEW u \in Object PROVE access_count'[u] = Cardinality(SlotsIn(objects', u))
    <3>1. /\ u = o => Cardinality(SlotsIn(objects', u)) = Cardinality(SlotsIn(objects, u)) - 1
          /\ u # o => Cardinality(SlotsIn(objects', u)) = Cardinality(SlotsIn(objects, u))
      BY <1>5a, <1>1, <1>3, EmptySlot
    <3>2. access_count[u] = Cardinality(SlotsIn(objects, u)) /\ access_count[u] \in Int
      BY <1>0, CountsIn
    <3>3. QED
      BY <3>1, <3>2, <1>0, <1>2
  <2>2. QED
    BY <2>1
<1>7. NoDanglingSlot'
  <2>1. \A x \in Table, j \in Slot : objects'[x][j] = IF x = tab /\ j = i THEN None ELSE objects[x][j]
    BY <1>0, <1>1, <1>2, <1>3 DEF Tables
  <2>2. ASSUME registry' # registry PROVE \A s \in Table \X Slot : objects'[s[1]][s[2]] # o
    <3>1. access_count'[o] <= 0
      BY <2>2, <1>0, <1>2, <1>3
    <3>2. Cardinality(SlotsIn(objects', o)) <= 0
      BY <3>1, <1>3, <1>6
    <3>3. QED
      BY <3>2, <1>5a, <1>1, <1>3, EmptySlot
  <2>3. registry' = registry \/ registry' = registry \ {o}
    BY <1>2, <1>4
  <2>4. ASSUME NEW x \in Table, NEW j \in Slot PROVE objects'[x][j] \in registry' \cup {None}
    <3>1. objects'[x][j] \in registry \cup {None}
      BY <2>1, <1>0 DEF NoDanglingSlot
    <3>2. registry' # registry => objects'[x][j] # o
      <4>1. <<x, j>> \in Table \X Slot /\ <<x, j>>[1] = x /\ <<x, j>>[2] = j
        OBVIOUS
      <4>2. QED
        BY <4>1, <2>2
    <3>3. QED
      BY <3>1, <3>2, <2>3
  <2>5. QED
    BY <2>4 DEF NoDanglingSlot
<1>8. HandlesTagged'
  BY <1>0, <1>2 DEF HandlesTagged
<1>9. HeldInSlots'
  <2> SUFFICES ASSUME ~stale', InstancesFit'
               PROVE  /\ \A r \in held' : objects'[r.tab][r.handle.index] = r.obj
                      /\ \A r, q \in held' : r.tab = q.tab /\ r.handle.index = q.handle.index => r = q
    BY DEF HeldInSlots
  <2>1. InstancesFit /\ ~stale /\ HeldBy(t, h) # {}
    <3>1. InstancesFit
      BY <1>2 DEF InstancesFit
    <3>2. ~stale /\ HeldBy(t, h) # {}
      BY <1>2, Zenon
    <3>3. QED
      BY <3>1, <3>2
  <2>2. /\ \A r \in held : objects[r.tab][r.handle.index] = r.obj
        /\ \A r, q \in held : r.tab = q.tab /\ r.handle.index = q.handle.index => r = q
    BY <2>1, <1>0 DEF HeldInSlots
  <2>3. PICK r \in held : r.handle = h /\ r.tab \in Usable(t)
    BY <2>1 DEF HeldBy
  <2>4. r.tab = tab /\ r.handle.index = i
    BY <2>1, <2>3, <1>0, HandleRoutes DEF tab, i
  <2>5. ASSUME NEW q \in held' PROVE objects'[q.tab][q.handle.index] = q.obj
    <3>1. q \in held /\ q # r
      BY <2>3, <1>2 DEF HeldBy
    <3>2. q.tab \in Table /\ q.handle.index \in Slot
      BY <3>1, <1>0 DEF HeldHandle
    <3>3. ~(q.tab = tab /\ q.handle.index = i)
      BY <3>1, <2>2, <2>4
    <3>4. QED
      BY <3>1, <3>2, <3>3, <2>2, <1>0, <1>1, <1>2, <1>3 DEF Tables
  <2>6. QED
    BY <2>5, <2>2, <1>2
<1>10. QED
  BY <1>5, <1>6, <1>7, <1>8, <1>9, CountsInNext DEF HandleInv, CountInv
-----------------------------------------------------------------------------
LEMMA InitHolds == HandleInit => HandleInv
<1> SUFFICES ASSUME HandleInit PROVE HandleInv
  OBVIOUS
<1>1. HandleTypeOK
  <2>1. /\ uid_counter \in 0..MaxObjects /\ registry \subseteq 1..uid_counter /\ lasting \subseteq 1..uid_counter
        /\ access_count \in [Object -> Int] /\ next_instance \in [Table -> Nat] /\ held \subseteq HeldHandle
    BY BoundsAssumption DEF HandleInit
  <2>2. objects \in [Table -> [Slot -> Object \cup {None}]]
    BY DEF HandleInit
  <2>3. stale \in BOOLEAN
    BY DEF HandleInit
  <2>4. QED
    BY <2>1, <2>2, <2>3 DEF HandleTypeOK
<1>2. CountsMatchSlots
  <2>1. ASSUME NEW o \in Object PROVE access_count[o] = Cardinality(SlotsOf(o))
    <3>1. SlotsOf(o) = {}
      BY BoundsAssumption DEF HandleInit, SlotsOf
    <3>2. QED
      BY <3>1, FS_EmptySet DEF HandleInit
  <2>2. QED
    BY <2>1 DEF CountsMatchSlots
<1>3. NoDanglingSlot /\ HandlesTagged /\ HeldInSlots
  BY DEF HandleInit, NoDanglingSlot, HandlesTagged, HeldInSlots
<1>4. QED
  BY <1>1, <1>2, <1>3 DEF HandleInv, CountInv

LEMMA UsableTables == ASSUME NEW t \in Thread PROVE Usable(t) \subseteq Table
  BY TablesAssumption DEF Usable, Table

\* The arguments of a step of HandleNext.
LEMMA HandleCases ==
    ASSUME HandleNext
    PROVE  \/ \E t \in Thread, tab \in Table, b \in BOOLEAN : CreateAndAdd(t, tab, b)
           \/ \E t \in Thread, tab \in Table, o \in Object : OpenObject(t, tab, o)
           \/ \E t \in Thread, tab \in Table, other \in Thread : \E h : HandleDuplicate(t, h, other, tab) /\ h.index \in Slot
           \/ \E t \in Thread : \E h : HandleClose(t, h) /\ h.index \in Slot
           \/ \E t \in Thread : \E h : HandleCloseRefused(t, h)
<1>1. PICK t \in Thread :
        \/ \E tab \in Usable(t), b \in BOOLEAN : CreateAndAdd(t, tab, b)
        \/ \E tab \in Usable(t), o \in Object : OpenObject(t, tab, o)
        \/ \E h \in Known(t), other \in Thread : \E tab \in {other, Owner[other]} :
               HandleDuplicate(t, h, other, tab)
        \/ \E h \in Known(t) : HandleClose(t, h) \/ HandleCloseRefused(t, h)
  BY DEF HandleNext
<1>2. \A h \in Known(t) : h.index \in Slot
  BY DEF Known, MakeHandle
<1>3. \A other \in Thread : {other, Owner[other]} \subseteq Table
  BY TablesAssumption DEF Table
<1>4. QED
  BY <1>1, <1>2, <1>3, UsableTables

LEMMA OpenStep ==
    ASSUME HandleInv, NEW t \in Thread, NEW tab \in Table, NEW o \in Object, OpenObject(t, tab, o)
    PROVE  HandleInv'
<1>1. /\ AddObject(tab, o) /\ o \in registry /\ registry' = registry /\ uid_counter' = uid_counter
      /\ lasting' = lasting /\ stale' = stale
  BY DEF OpenObject
<1>2. uid_counter \in 0..MaxObjects /\ registry \subseteq 1..uid_counter /\ lasting \subseteq 1..uid_counter
  BY DEF HandleInv, CountInv, HandleTypeOK
<1>3. QED
  BY <1>1, <1>2, AddObjectStep

LEMMA DuplicateStep ==
    ASSUME HandleInv, NEW t \in Thread, NEW tab \in Table, NEW other \in Thread,
           NEW h, h.index \in Slot, HandleDuplicate(t, h, other, tab)
    PROVE  HandleInv' /\ GetObject(t, h) \in registry \cap Object /\ AddObject(tab, GetObject(t, h))
<1> DEFINE o == GetObject(t, h)
<1>1. /\ AddObject(tab, o) /\ o # None /\ registry' = registry /\ uid_counter' = uid_counter
      /\ lasting' = lasting /\ stale' = stale
  BY DEF HandleDuplicate
<1>2. /\ uid_counter \in 0..MaxObjects /\ registry \subseteq 1..uid_counter /\ lasting \subseteq 1..uid_counter
      /\ objects \in Tables /\ NoDanglingSlot
  BY DEF HandleInv, CountInv, HandleTypeOK, Tables
<1>3. TableOf(t, h) \in Table
  BY TablesAssumption DEF TableOf, Table
<1>4. o \in registry /\ o \in Object
  BY <1>1, <1>2, <1>3 DEF GetObject, NoDanglingSlot, Tables
<1> HIDE DEF o
<1>5. HandleInv'
  BY <1>1, <1>2, <1>4, AddObjectStep
<1>6. QED
  BY <1>1, <1>4, <1>5 DEF o

\* An object that has not been created has no slot.
LEMMA Unborn ==
    ASSUME CountInv, NEW o \in Object, o \notin 1..uid_counter PROVE access_count[o] = 0
<1>1. o \notin registry /\ o # None
  BY BoundsAssumption DEF CountInv, HandleTypeOK
<1>2. SlotsOf(o) = {}
  BY <1>1 DEF CountInv, NoDanglingSlot, SlotsOf
<1>3. QED
  BY <1>2, FS_EmptySet DEF CountInv, CountsMatchSlots

LEMMA CreateStep ==
    ASSUME HandleInv, NEW t \in Thread, NEW tab \in Table, NEW b \in BOOLEAN, CreateAndAdd(t, tab, b)
    PROVE  HandleInv'
<1> DEFINE o == uid_counter + 1
<1>1. /\ uid_counter < MaxObjects /\ uid_counter' = o /\ registry' = registry \cup {o}
      /\ lasting' = (IF b THEN lasting \cup {o} ELSE lasting) /\ stale' = stale
      /\ AddObject(tab, o) \/ TableFull(tab)
  BY DEF CreateAndAdd
<1>2. /\ uid_counter \in 0..MaxObjects /\ registry \subseteq 1..uid_counter /\ lasting \subseteq 1..uid_counter
      /\ MaxObjects \in Nat
  BY BoundsAssumption DEF HandleInv, CountInv, HandleTypeOK
<1>3. /\ o \in Object /\ uid_counter' \in 0..MaxObjects
      /\ registry' \subseteq 1..uid_counter' /\ lasting' \subseteq 1..uid_counter'
      /\ registry \cup {o} \subseteq registry'
  BY <1>1, <1>2 DEF Object
<1> HIDE DEF o
<1>4. CASE AddObject(tab, o)
  BY <1>1, <1>3, <1>4, AddObjectStep
<1>5. CASE TableFull(tab)
  <2>1. next_instance' = next_instance /\ objects' = objects /\ access_count' = access_count /\ held' = held
    BY <1>5 DEF TableFull
  <2>2. HandleTypeOK'
    BY <2>1, <1>1, <1>3 DEF HandleInv, CountInv, HandleTypeOK
  <2>3. CountsMatchSlots' /\ NoDanglingSlot' /\ HandlesTagged' /\ HeldInSlots'
    BY <2>1, <1>1 DEF HandleInv, CountInv, CountsMatchSlots, SlotsOf, NoDanglingSlot, HandlesTagged,
        HeldInSlots, InstancesFit
  <2>4. QED
    BY <2>2, <2>3 DEF HandleInv, CountInv
<1>6. QED
  BY <1>1, <1>4, <1>5

LEMMA RefusedStep ==
    ASSUME HandleInv, NEW t \in Thread, NEW h, HandleCloseRefused(t, h)
    PROVE  HandleInv'
<1>1. /\ held' \subseteq held /\ uid_counter' = uid_counter /\ registry' = registry /\ lasting' = lasting
      /\ access_count' = access_count /\ objects' = objects /\ next_instance' = next_instance /\ stale' = stale
  BY DEF HandleCloseRefused
<1>2. HandleTypeOK'
  BY <1>1 DEF HandleInv, CountInv, HandleTypeOK
<1>3. CountsMatchSlots' /\ NoDanglingSlot'
  BY <1>1 DEF HandleInv, CountInv, CountsMatchSlots, SlotsOf, NoDanglingSlot
<1>4. HandlesTagged' /\ HeldInSlots'
  BY <1>1 DEF HandleInv, HandlesTagged, HeldInSlots, InstancesFit
<1>5. QED
  BY <1>2, <1>3, <1>4 DEF HandleInv, CountInv

LEMMA UnchangedStep == ASSUME HandleInv, UNCHANGED handleVars PROVE HandleInv'
  BY DEF handleVars, HandleInv, CountInv, HandleTypeOK, CountsMatchSlots, SlotsOf, NoDanglingSlot,
      HandlesTagged, HeldInSlots, InstancesFit

LEMMA NextHolds == HandleInv /\ [HandleNext]_handleVars => HandleInv'
<1> SUFFICES ASSUME HandleInv, [HandleNext]_handleVars PROVE HandleInv'
  OBVIOUS
<1>1. CASE HandleNext
  BY <1>1, HandleCases, CreateStep, OpenStep, DuplicateStep, CloseStep, RefusedStep
<1>2. CASE UNCHANGED handleVars
  BY <1>2, UnchangedStep
<1>3. QED
  BY <1>1, <1>2

\* HandleInv, the inductive invariant of the handle table and the object registry
\* (object_ix, kernel_system), holds in every reachable state.
THEOREM HandleInvariant == HandleSpec => []HandleInv
<1>1. HandleInit => HandleInv
  BY InitHolds
<1>2. HandleInv /\ [HandleNext]_handleVars => HandleInv'
  BY NextHolds
<1>3. QED
  BY <1>1, <1>2, PTL DEF HandleSpec

\* object_ix and kernel_obj: every access_count is exact, whoever opens,
\* duplicates and closes handles, stale ones included.
THEOREM CountsExact == HandleSpec => []CountsMatchSlots
<1>1. HandleInv => CountsMatchSlots
  BY DEF HandleInv, CountInv
<1>2. QED
  BY <1>1, HandleInvariant, PTL

\* object_ix::close and kernel_system::destroy: no handle outlives its object.
THEOREM NoHandleDangles == HandleSpec => []NoDanglingSlot
<1>1. HandleInv => NoDanglingSlot
  BY DEF HandleInv, CountInv
<1>2. QED
  BY <1>1, HandleInvariant, PTL

\* get_kernel_obj_raw: a handle leads to its object until its holder closes it,
\* as long as no handle is closed twice and no table has run out of instances.
THEOREM HandlesResolve == HandleSpec => []HeldHandleResolves
<1>1. HandleInv => HeldHandleResolves
  <2> SUFFICES ASSUME HandleInv, ~stale, InstancesFit, NEW r \in held, NEW t \in Thread, r.tab \in Usable(t)
               PROVE  GetObject(t, r.handle) = r.obj
    BY DEF HeldHandleResolves
  <2>1. TableOf(t, r.handle) = r.tab
    BY HandleRoutes DEF HandleInv, CountInv
  <2>2. objects[r.tab][r.handle.index] = r.obj
    BY DEF HandleInv, HeldInSlots
  <2>3. QED
    BY <2>1, <2>2 DEF GetObject
<1>2. QED
  BY <1>1, HandleInvariant, PTL
-----------------------------------------------------------------------------
(***************************************************************************)
(* The refinement.  Exact counts make access_count the abstract refs.      *)
(***************************************************************************)
LEMMA RefsAreCounts ==
    ASSUME CountInv PROVE [o \in Object |-> Cardinality(SlotsOf(o))] = access_count
  BY DEF CountInv, HandleTypeOK, CountsMatchSlots

LEMMA RefsAreCountsNext ==
    ASSUME CountInv' PROVE [o \in Object |-> Cardinality(SlotsOf(o))]' = access_count'
  BY DEF CountInv, HandleTypeOK, CountsMatchSlots

\* A step of add_object on a registered object.
LEMMA AddIsOpen ==
    ASSUME HandleInv, HandleInv', NEW tab \in Table, NEW o \in Object, o \in registry, AddObject(tab, o),
           registry' = registry, uid_counter' = uid_counter, lasting' = lasting
    PROVE  Store!Next
<1>1. access_count' = [access_count EXCEPT ![o] = @ + 1]
  BY DEF AddObject
<1>2. Store!Open(o)
  BY <1>1, RefsAreCounts, RefsAreCountsNext DEF Store!Open, HandleInv
<1>3. QED
  BY <1>2 DEF Store!Next

LEMMA CreateIsCreate ==
    ASSUME HandleInv, HandleInv', NEW t \in Thread, NEW tab \in Table, NEW b \in BOOLEAN,
           CreateAndAdd(t, tab, b)
    PROVE  Store!Next
<1> DEFINE o == uid_counter + 1
<1>1. /\ uid_counter < MaxObjects /\ uid_counter' = o /\ registry' = registry \cup {o}
      /\ lasting' = (IF b THEN lasting \cup {o} ELSE lasting)
      /\ AddObject(tab, o) \/ TableFull(tab)
  BY DEF CreateAndAdd
<1>2. uid_counter \in 0..MaxObjects /\ MaxObjects \in Nat /\ access_count \in [Object -> Int]
  BY BoundsAssumption DEF HandleInv, CountInv, HandleTypeOK
<1>3. o \in Object /\ o \notin 1..uid_counter /\ 1..uid_counter' = (1..uid_counter) \cup {o}
  BY <1>1, <1>2 DEF Object
<1>4. access_count[o] = 0
  BY <1>3, Unborn DEF HandleInv
<1>5. access_count' = access_count \/ access_count' = [access_count EXCEPT ![o] = 1]
  BY <1>1, <1>2, <1>3, <1>4 DEF AddObject, TableFull
<1>6. Store!Create(o)
  BY <1>1, <1>3, <1>5, RefsAreCounts, RefsAreCountsNext DEF Store!Create, HandleInv
<1>7. QED
  BY <1>3, <1>6 DEF Store!Next

LEMMA CloseIsClose ==
    ASSUME HandleInv, HandleInv', NEW t \in Thread, NEW h, h.index \in Slot, HandleClose(t, h)
    PROVE  Store!Next
<1> DEFINE tab == TableOf(t, h)
           o == objects[tab][h.index]
<1>1. tab \in Table
  BY TablesAssumption DEF TableOf, Table
<1>2. /\ o # None
      /\ access_count' = [access_count EXCEPT ![o] = @ - 1]
      /\ registry' = IF access_count[o] - 1 <= 0 /\ o \notin lasting
                     THEN registry \ LowerBound(o) ELSE registry
      /\ uid_counter' = uid_counter /\ lasting' = lasting
  BY DEF HandleClose, CloseSlot, GetObject
<1>3. o \in Object /\ o \in registry /\ <<tab, h.index>> \in SlotsIn(objects, o)
  BY <1>1, <1>2 DEF HandleInv, CountInv, HandleTypeOK, NoDanglingSlot, SlotsIn
<1> HIDE DEF tab, o
<1>4. LowerBound(o) = {o}
  BY <1>3, DestroysItself DEF HandleInv, CountInv
<1>5. access_count[o] \in Nat /\ access_count[o] > 0
  <2>1. SlotsIn(objects, o) # {} /\ access_count[o] = Cardinality(SlotsIn(objects, o))
    BY <1>3, CountsIn DEF HandleInv, CountInv
  <2>2. Cardinality(SlotsIn(objects, o)) # 0 /\ Cardinality(SlotsIn(objects, o)) \in Nat
    BY <2>1, FiniteSlots, FS_EmptySet
  <2>3. QED
    BY <2>1, <2>2
<1>6. registry' = IF access_count[o] = 1 /\ o \notin lasting THEN registry \ {o} ELSE registry
  BY <1>2, <1>4, <1>5
<1>7. Store!Close(o)
  BY <1>2, <1>5, <1>6, RefsAreCounts, RefsAreCountsNext DEF Store!Close, HandleInv
<1>8. QED
  BY <1>3, <1>7 DEF Store!Next

\* create_and_add, mirror and close, seen as the birth, sharing and death of
\* objects: an object lives exactly until its last handle is closed.
THEOREM HandlesImplementStore == HandleSpec => ImplementsObjectStore
<1>1. HandleInit => Store!Init
  <2> SUFFICES ASSUME HandleInit PROVE Store!Init
    OBVIOUS
  <2>1. [o \in Object |-> Cardinality(SlotsOf(o))] = access_count
    BY InitHolds, RefsAreCounts DEF HandleInv
  <2>2. 1..uid_counter = {}
    BY DEF HandleInit
  <2>3. QED
    BY <2>1, <2>2 DEF HandleInit, Store!Init
<1>2. HandleInv /\ HandleInv' /\ [HandleNext]_handleVars => [Store!Next]_(Store!storeVars)
  <2> SUFFICES ASSUME HandleInv, HandleInv', [HandleNext]_handleVars
               PROVE  Store!Next \/ UNCHANGED Store!storeVars
    OBVIOUS
  <2>1. ASSUME NEW t \in Thread, NEW tab \in Table, NEW b \in BOOLEAN, CreateAndAdd(t, tab, b)
        PROVE  Store!Next
    BY <2>1, CreateIsCreate
  <2>2. ASSUME NEW t \in Thread, NEW tab \in Table, NEW o \in Object, OpenObject(t, tab, o)
        PROVE  Store!Next
    BY <2>2, AddIsOpen DEF OpenObject
  <2>3. ASSUME NEW t \in Thread, NEW tab \in Table, NEW other \in Thread, NEW h, h.index \in Slot,
               HandleDuplicate(t, h, other, tab)
        PROVE  Store!Next
    <3>1. /\ GetObject(t, h) \in registry /\ GetObject(t, h) \in Object
          /\ AddObject(tab, GetObject(t, h))
      BY <2>3, DuplicateStep
    <3>2. registry' = registry /\ uid_counter' = uid_counter /\ lasting' = lasting
      BY <2>3 DEF HandleDuplicate
    <3>3. QED
      BY <3>1, <3>2, AddIsOpen
  <2>4. ASSUME NEW t \in Thread, NEW h, h.index \in Slot, HandleClose(t, h) PROVE Store!Next
    BY <2>4, CloseIsClose
  <2>5. ASSUME NEW t \in Thread, NEW h, HandleCloseRefused(t, h) PROVE UNCHANGED Store!storeVars
    BY <2>5 DEF HandleCloseRefused, Store!storeVars, SlotsOf
  <2>6. CASE UNCHANGED handleVars
    BY <2>6 DEF handleVars, Store!storeVars, SlotsOf
  <2>7. CASE HandleNext
    BY <2>7, HandleCases, <2>1, <2>2, <2>3, <2>4, <2>5
  <2>8. QED
    BY <2>6, <2>7
<1>3. QED
  BY <1>1, <1>2, HandleInvariant, PTL DEF HandleSpec, Store!Spec, ImplementsObjectStore
=============================================================================
