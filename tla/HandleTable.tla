----------------------------- MODULE HandleTable ----------------------------
(***************************************************************************)
(* Kernel objects and the tables of handles to them: object_ix.cpp, the    *)
(* object containers of kernel.h/kernel.cpp and the supervisor calls that  *)
(* create, open, duplicate and close handles.  There is one table for the  *)
(* kernel, one per process and one per thread.                             *)
(*                                                                         *)
(* A handle is a 32-bit number: the slot's index in the low bits, the      *)
(* table's next_instance in the 16 high ones, bit 30 for a thread's table  *)
(* and bit 29 for the kernel's, or-ed over the instance.  Here it is a     *)
(* record of what was or-ed together; Local and InKernel read the bits.    *)
(*                                                                         *)
(* A container holds its objects in the order of their uids, so that it is *)
(* the set of those uids.  The vector of all handles ever made, read only  *)
(* by last_thread_handle, is left out.                                     *)
(***************************************************************************)
EXTENDS Integers, FiniteSets

CONSTANTS Thread, Process,
          Owner,            \* the process of each thread
          Kernel,           \* stands for the kernel's own table
          None,             \* a null pointer
          Capacity,         \* slots of a table, 0x100 in the code
          FirstInstance,    \* next_instance of each table at the start: how many
                            \* handles it has made before
          MaxObjects,       \* bound: objects created
          MaxOpens          \* bound: handles made by each table

Table == Thread \cup Process \cup {Kernel}
Slot == 0..(Capacity - 1)
Object == 1..MaxObjects

ASSUME TablesAssumption ==
    /\ Thread \cap Process = {} /\ Kernel \notin Thread \cup Process
    /\ Owner \in [Thread -> Process]
    /\ IsFiniteSet(Thread) /\ IsFiniteSet(Process)

ASSUME BoundsAssumption ==
    /\ Capacity \in Nat \ {0} /\ MaxObjects \in Nat /\ MaxOpens \in [Table -> Nat]
    /\ FirstInstance \in [Table -> Nat]
    /\ None \notin Object

VARIABLES uid_counter,     \* the objects created so far are 1..uid_counter
          registry,        \* the containers: objects not destroyed
          lasting,         \* the threads and processes among the objects
          access_count,
          objects,         \* the object in each slot of each table
          next_instance,
          held,            \* history: handles given out and not yet closed by a
                           \* holder, with their table and object
          stale            \* history: a slot was closed through a handle that
                           \* its caller no longer held

handleVars == <<uid_counter, registry, lasting, access_count, objects, next_instance, held, stale>>

\* object_ix_record::object has no initial value in the code.  None stands for it:
\* get_object, has and count look at a slot only when it is not free, and a thread
\* closes only handles that were made (Known), whose slot add_object has set.
HandleInit ==
    /\ uid_counter = 0 /\ registry = {} /\ lasting = {}
    /\ access_count = [o \in Object |-> 0]
    /\ objects = [tab \in Table |-> [i \in Slot |-> None]]
    /\ next_instance = FirstInstance
    /\ held = {} /\ stale = FALSE

-----------------------------------------------------------------------------
\* Bit k of n, given 2^k.
BitSet(n, weight) == (n \div weight) % 2 = 1

\* Faulty variant: the bit of a thread's table is left out.
MakeHandleUntagged(tab, n, i) ==
    [index |-> i, instance |-> n % 65536, thread |-> FALSE, kernel |-> tab = Kernel]

\* object_ix::make_handle
MakeHandle(tab, n, i) ==
    [index |-> i, instance |-> n % 65536, thread |-> tab \in Thread, kernel |-> tab = Kernel]

\* inspect_handle: bits 30 and 31 together are 01; bit 29 is set.
Local(h) == (h.thread \/ BitSet(h.instance, 16384)) /\ ~BitSet(h.instance, 32768)
InKernel(h) == h.kernel \/ BitSet(h.instance, 8192)

\* The table in which thread t's handle h is looked up.
TableOf(t, h) == IF Local(h) THEN t ELSE IF InKernel(h) THEN Kernel ELSE Owner[t]

\* get_kernel_obj_raw and object_ix::get_object: the instance is not compared.
GetObject(t, h) == objects[TableOf(t, h)][h.index]

\* The tables whose handles thread t may use.
Usable(t) == {t, Owner[t], Kernel}

\* std::find_if for a free slot.
FreeSlots(tab) == {i \in Slot : objects[tab][i] = None}
FirstFree(tab) == {i \in FreeSlots(tab) : \A j \in FreeSlots(tab) : i <= j}

\* The slot i of tab is filled with o, and the new handle handed out.
FillSlotWith(tab, i, o) ==
    LET n == next_instance[tab] + 1
    IN /\ next_instance' = [next_instance EXCEPT ![tab] = n]
       /\ objects' = [objects EXCEPT ![tab][i] = o]
       /\ held' = held \cup {[tab |-> tab, handle |-> MakeHandle(tab, n, i), obj |-> o]}

\* Faulty variant: the new reference is not counted.
AddObjectUncounted(tab, o) ==
    (\E i \in FirstFree(tab) : FillSlotWith(tab, i, o)) /\ UNCHANGED access_count

\* object_ix::add_object where there is a free slot.
AddObject(tab, o) ==
    /\ \E i \in FirstFree(tab) : FillSlotWith(tab, i, o)
    /\ access_count' = [access_count EXCEPT ![o] = @ + 1]

\* add_object on a full table: INVALID_HANDLE.
TableFull(tab) == FreeSlots(tab) = {} /\ UNCHANGED <<next_instance, objects, access_count, held>>

MayOpen(tab) == next_instance[tab] < FirstInstance[tab] + MaxOpens[tab]

-----------------------------------------------------------------------------
\* create_and_add for a thread or process, or for any other object: created and
\* registered, then opened.  On a full table the object stays registered.
CreateAndAdd(t, tab, isLasting) ==
    /\ uid_counter < MaxObjects /\ MayOpen(tab) /\ tab \in Usable(t)
    /\ uid_counter' = uid_counter + 1
    /\ registry' = registry \cup {uid_counter + 1}
    /\ lasting' = IF isLasting THEN lasting \cup {uid_counter + 1} ELSE lasting
    /\ AddObject(tab, uid_counter + 1) \/ TableFull(tab)
    /\ UNCHANGED stale

\* handle_open_object and every other call that opens a registered object it
\* found by name or by pointer: mirror(obj, owner), open_handle.
OpenObject(t, tab, o) ==
    /\ o \in registry /\ tab \in Usable(t) /\ MayOpen(tab)
    /\ AddObject(tab, o)
    /\ UNCHANGED <<uid_counter, registry, lasting, stale>>

\* handle_duplicate: the handle is resolved for the caller t and opened for the
\* thread whose handle was given.  A handle that resolves to nothing crashes
\* the emulator in add_object.
HandleDuplicate(t, h, other, tab) ==
    /\ GetObject(t, h) # None /\ tab \in {other, Owner[other]} /\ MayOpen(tab)
    /\ AddObject(tab, GetObject(t, h))
    /\ UNCHANGED <<uid_counter, registry, lasting, stale>>

\* kernel_system::destroy: the first object whose uid is not below o's.
LowerBound(o) == {u \in registry : u >= o /\ \A v \in registry : v >= o => u <= v}

\* Faulty variant: destroyed while another handle is open.
CloseSlotEarly(tab, i, o) ==
    /\ access_count' = [access_count EXCEPT ![o] = @ - 1]
    /\ registry' = IF access_count[o] - 1 <= 1 /\ o \notin lasting
                   THEN registry \ LowerBound(o) ELSE registry
    /\ objects' = [objects EXCEPT ![tab][i] = None]

\* Faulty variant: the last close does not destroy.
CloseSlotKeeps(tab, i, o) ==
    /\ access_count' = [access_count EXCEPT ![o] = @ - 1]
    /\ registry' = IF access_count[o] - 1 < 0 /\ o \notin lasting
                   THEN registry \ LowerBound(o) ELSE registry
    /\ objects' = [objects EXCEPT ![tab][i] = None]

\* object_ix::close on a slot that holds o.
CloseSlot(tab, i, o) ==
    /\ access_count' = [access_count EXCEPT ![o] = @ - 1]
    /\ registry' = IF access_count[o] - 1 <= 0 /\ o \notin lasting
                   THEN registry \ LowerBound(o) ELSE registry
    /\ objects' = [objects EXCEPT ![tab][i] = None]

\* The handle h as thread t may hold it.
HeldBy(t, h) == {r \in held : r.handle = h /\ r.tab \in Usable(t)}

\* handle_close and kernel_system::close: whatever the slot holds now is closed.
HandleClose(t, h) ==
    LET o == GetObject(t, h)
    IN /\ o # None
       /\ CloseSlot(TableOf(t, h), h.index, o)
       /\ held' = held \ HeldBy(t, h)
       /\ stale' = (stale \/ HeldBy(t, h) = {})
       /\ UNCHANGED <<uid_counter, lasting, next_instance>>

\* A handle to an empty slot is refused with -1; its holder forgets it.
HandleCloseRefused(t, h) ==
    /\ GetObject(t, h) = None /\ HeldBy(t, h) # {}
    /\ held' = held \ HeldBy(t, h)
    /\ UNCHANGED <<uid_counter, registry, lasting, access_count, objects, next_instance, stale>>

\* The handles a thread may come up with: any its tables have made so far.
Known(t) == UNION {{MakeHandle(tab, n, i) : n \in (FirstInstance[tab] + 1)..next_instance[tab], i \in Slot}
                      : tab \in Usable(t)}

HandleNext ==
    \E t \in Thread :
        \/ \E tab \in Usable(t), b \in BOOLEAN : CreateAndAdd(t, tab, b)
        \/ \E tab \in Usable(t), o \in Object : OpenObject(t, tab, o)
        \/ \E h \in Known(t), other \in Thread : \E tab \in {other, Owner[other]} :
               HandleDuplicate(t, h, other, tab)
        \/ \E h \in Known(t) : HandleClose(t, h) \/ HandleCloseRefused(t, h)

HandleSpec == HandleInit /\ [][HandleNext]_handleVars
=============================================================================
