------------------------ MODULE HandleTableProperties -----------------------
(* What must hold of objects and handles, whatever the threads do. *)
EXTENDS HandleTable

HeldHandle == [tab : Table, handle : [index : Slot, instance : Nat, thread : BOOLEAN, kernel : BOOLEAN],
               obj : Object]

\* Every variable has its type; the objects created so far are numbered in order.
HandleTypeOK ==
    /\ uid_counter \in 0..MaxObjects
    /\ registry \subseteq 1..uid_counter /\ lasting \subseteq 1..uid_counter
    /\ access_count \in [Object -> Int]
    /\ objects \in [Table -> [Slot -> Object \cup {None}]]
    /\ next_instance \in [Table -> Nat]
    /\ held \subseteq HeldHandle /\ stale \in BOOLEAN

SlotsOf(o) == {s \in Table \X Slot : objects[s[1]][s[2]] = o}

\* An object's access_count is the number of slots, in all tables together,
\* that hold it, also when tables are full and stale handles are closed.
CountsMatchSlots == \A o \in Object : access_count[o] = Cardinality(SlotsOf(o))

\* No slot is left with an object that has been destroyed: close destroys the
\* object it was given and only when no other slot holds it.
NoDanglingSlot == \A tab \in Table, i \in Slot : objects[tab][i] \in registry \cup {None}

\* The instances made so far do not reach the bits that name the table.
InstancesFit ==
    /\ \A t \in Thread : next_instance[t] < 32768
    /\ next_instance[Kernel] < 16384
    /\ \A p \in Process : next_instance[p] < 8192

\* A handle that its holder has not closed leads to the object it was made for,
\* as long as nobody closes a handle twice and the instances fit.
HeldHandleResolves ==
    ~stale /\ InstancesFit =>
        \A r \in held, t \in Thread : r.tab \in Usable(t) => GetObject(t, r.handle) = r.obj

Store == INSTANCE ObjectStore WITH
             born <- 1..uid_counter, live <- registry,
             refs <- [o \in Object |-> Cardinality(SlotsOf(o))]

\* With tables, slots and counts hidden, an object lives until its last handle
\* is closed, and a thread or process for ever.
ImplementsObjectStore == Store!Spec
=============================================================================
