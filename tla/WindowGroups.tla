----------------------------- MODULE WindowGroups ---------------------------
(***************************************************************************)
(* Window groups, keyboard focus and the event queues of the window server:*)
(* the sibling list under the root window (winbase.cpp), the focus of the  *)
(* screen (screen.cpp, wingroup.cpp), the event queue of each client       *)
(* (fifo.h, fifo.cpp) and the input shipped to them (io.cpp).              *)
(*                                                                         *)
(* One screen.  Groups are never freed: their Free opcode has no handler.  *)
(* Nobody captures keys.  assert is compiled out, as in a release build.   *)
(* External: a client has at most one event_ready request outstanding.     *)
(***************************************************************************)
EXTENDS Integers, SequencesExt

CONSTANTS Group, Client, NoGroup,
          ClientOf,         \* the client that creates each group
          Priority,         \* priorities that are set; 0 is the initial one
          Position,         \* ordinal positions that are set; negative means last
          MaximumElement,   \* base_fifo::maximum_element, 32 in the code
          MaxQueue          \* bound: length of an event queue

ASSUME WindowAssumption ==
    /\ ClientOf \in [Group -> Client] /\ NoGroup \notin Group
    /\ Priority \subseteq Nat /\ Position \subseteq Int
    /\ MaximumElement \in Nat \ {0} /\ MaxQueue \in Nat

VARIABLES child,            \* the groups under the root, front first
          priority,
          receivable,       \* flag_focus_receiveable
          focus,            \* of the screen
          q,                \* q_ of each client's events
          listening,        \* the clients whose event_ready request is pending
          keys,             \* evts_ of the key shipper
          key_block_active,
          crashed           \* a null pointer was used

windowVars == <<child, priority, receivable, focus, q, listening, keys, key_block_active, crashed>>

WindowInit ==
    /\ child = <<>> /\ priority = [g \in Group |-> 0]
    /\ receivable = {} /\ focus = NoGroup
    /\ q = [c \in Client |-> <<>>] /\ listening = {} /\ keys = <<>>
    /\ key_block_active = FALSE /\ crashed = FALSE

------------------------------------------------------------------------------
IsFocus(e) == e.type \in {"focus_lost", "focus_gained"}

\* Faulty: of a pair only the second event is erased.
PurgeAtHalf(s, i) ==
    IF i > Len(s) THEN s
    ELSE IF s[i].type \in {"key", "touch"} THEN RemoveAt(s, i)
    ELSE IF IsFocus(s[i]) /\ i < Len(s) /\ IsFocus(s[i + 1]) THEN RemoveAt(s, i + 1)
    ELSE s

\* One turn of do_purge's loop: what is erased, the loop goes on at the next index.
\* Key ups and downs fall into the default case and are kept.
PurgeAt(s, i) ==
    IF i > Len(s) THEN s
    ELSE IF s[i].type \in {"key", "touch"} THEN RemoveAt(s, i)
    ELSE IF IsFocus(s[i]) /\ i < Len(s) /\ IsFocus(s[i + 1]) THEN RemoveAt(RemoveAt(s, i + 1), i)
    ELSE s

\* do_purge, turn by turn
Purged(s) ==
    LET turn[i \in 0..Len(s)] == IF i = 0 THEN s ELSE PurgeAt(turn[i - 1], i)
    IN turn[Len(s)]

\* event_fifo::queue_event: a full queue is purged, and the event queued in any case.
QueueEvent(s, e) == Append(IF Len(s) = MaximumElement THEN Purged(s) ELSE s, e)

\* One event after another.
QueueAll(s, es) ==
    LET turn[i \in 0..Len(es)] == IF i = 0 THEN s ELSE QueueEvent(turn[i - 1], es[i])
    IN turn[Len(es)]

\* Events queued for client c; the first completes a pending request.
QueueEvents(c, es) ==
    /\ q' = [q EXCEPT ![c] = QueueAll(@, es)]
    /\ Len(q'[c]) <= MaxQueue
    /\ listening' = IF es = <<>> THEN listening ELSE listening \ {c}

------------------------------------------------------------------------------
\* find_group_to_focus
GroupToFocus(list, able) ==
    LET can == {i \in DOMAIN list : list[i] \in able}
    IN IF can = {} THEN NoGroup ELSE list[Min(can)]

\* screen::update_focus, with no closing group: when the focus moves, lost_focus is
\* called for the group that has it now, and so is gain_focus.
UpdateFocus(list, able) ==
    LET new == GroupToFocus(list, able)
    IN /\ focus' = new
       /\ \/ /\ new = focus /\ UNCHANGED <<q, listening, crashed>>
          \/ /\ new # focus /\ new = NoGroup
             /\ crashed' = TRUE /\ UNCHANGED <<q, listening>>
          \/ /\ new # focus /\ new # NoGroup
             /\ QueueEvents(ClientOf[new],
                    (IF focus = NoGroup THEN <<>> ELSE <<[type |-> "focus_lost", to |-> new]>>)
                        \o <<[type |-> "focus_gained", to |-> new]>>)
             /\ UNCHANGED crashed

\* create_window_group: the new group goes to the front, whatever its priority.
CreateWindowGroup(g, wants) ==
    /\ ~crashed /\ g \notin Range(child)
    /\ child' = <<g>> \o child
    /\ IF focus = NoGroup \/ wants
       THEN receivable' = receivable \cup {g} /\ UpdateFocus(child', receivable')
       ELSE UNCHANGED <<receivable, focus, q, listening, crashed>>
    /\ UNCHANGED <<priority, keys, key_block_active>>

\* window_group::receive_focus
ReceiveFocus(g, enable) ==
    /\ ~crashed /\ g \in Range(child)
    /\ receivable' = IF enable THEN receivable \cup {g} ELSE receivable \ {g}
    /\ UpdateFocus(child, receivable')
    /\ UNCHANGED <<child, priority, keys, key_block_active>>

------------------------------------------------------------------------------
\* The number of consecutive windows of list from index i on that are in set.
RunFrom(list, i, set) ==
    Max({n \in 0..Len(list) : i + n <= Len(list) + 1 /\ \A j \in i..(i + n - 1) : list[j] \in set})

\* The steps of "while (pos-- != 0 && ...)" when the rest of the condition allows n.
Steps(pos, n) == IF pos < 0 THEN n ELSE Min({pos, n})

\* window::move_window within the same parent
MoveWindow(list, pri, g, pos) ==
    LET rest == RemoveAt(list, CHOOSE i \in DOMAIN list : list[i] = g)
        above == RunFrom(rest, 1, {w \in Group : pri[g] < pri[w]})
        peers == RunFrom(rest, above + 1, {w \in Group : pri[w] = pri[g]})
    IN InsertAt(rest, above + Steps(pos, peers) + 1, g)

\* Faulty: a window at the head of its peers counts as in place.
CheckOrderHead(list, pri, g, pos) ==
    LET skipped == RunFrom(list, 1, {w \in Group : w = g \/ pri[g] < pri[w]})
        cur == IF skipped > 0 /\ list[skipped] = g THEN skipped ELSE skipped + 1
    IN cur > Len(list) \/ list[cur] # g

\* window::check_order_change; of the test for a window right behind one of lower
\* priority, the code compares the window with itself.
CheckOrderChange(list, pri, g, pos) ==
    LET skipped == RunFrom(list, 1, {w \in Group : w = g \/ pri[g] < pri[w]})
        cur == IF skipped > 0 /\ list[skipped] = g THEN skipped ELSE skipped + 1
        peers == RunFrom(list, cur + 1, {w \in Group : pri[g] = pri[w]})
    IN cur > Len(list) \/ list[cur + Steps(pos, peers)] # g

\* SetOrdinalPositionPri; with the priority unchanged also SetOrdinalPosition and
\* set_window_group_ordinal_position.  The focus is left where it was.
SetOrdinalPosition(g, pri, pos) ==
    /\ ~crashed /\ g \in Range(child)
    /\ priority' = [priority EXCEPT ![g] = pri]
    /\ child' = IF CheckOrderChange(child, priority', g, pos)
                THEN MoveWindow(child, priority', g, pos) ELSE child
    /\ UNCHANGED <<receivable, focus, q, listening, keys, key_block_active, crashed>>

------------------------------------------------------------------------------
\* get_ready: completed at once when there is an event.
GetReady(c) ==
    /\ ~crashed /\ c \notin listening
    /\ listening' = IF q[c] = <<>> THEN listening \cup {c} ELSE listening
    /\ UNCHANGED <<child, priority, receivable, focus, q, keys, key_block_active, crashed>>

\* get_event; an empty queue gives a null event.
GetEvent(c) ==
    /\ ~crashed /\ q[c] # <<>>
    /\ q' = [q EXCEPT ![c] = Tail(@)]
    /\ UNCHANGED <<child, priority, receivable, focus, listening, keys, key_block_active, crashed>>

\* The events one key leads to: a press may be followed by a key event.
Shipped(g, key) ==
    <<[type |-> key, to |-> g]>>
        \o IF key_block_active /\ key = "key_down" THEN <<[type |-> "key", to |-> g]>> ELSE <<>>

\* handle_input_from_driver and start_shipping: without a focus the keys are kept.
KeyInput(key) ==
    /\ ~crashed /\ child # <<>>
    /\ IF focus = NoGroup
       THEN Len(keys) < MaxQueue /\ keys' = Append(keys, key) /\ UNCHANGED <<q, listening>>
       ELSE /\ keys' = <<>>
            /\ QueueEvents(ClientOf[focus],
                   FlattenSeq([i \in 1..(Len(keys) + 1) |-> Shipped(focus, Append(keys, key)[i])]))
    /\ UNCHANGED <<child, priority, receivable, focus, key_block_active, crashed>>

\* A touch on a window of group g.
TouchInput(g) ==
    /\ ~crashed /\ g \in Range(child)
    /\ QueueEvents(ClientOf[g], <<[type |-> "touch", to |-> g]>>)
    /\ UNCHANGED <<child, priority, receivable, focus, keys, key_block_active, crashed>>

\* External: the application architecture blocks simultaneous keys, or not.
SetKeyBlock ==
    /\ ~crashed /\ key_block_active' = ~key_block_active
    /\ UNCHANGED <<child, priority, receivable, focus, q, listening, keys, crashed>>

WindowNext ==
    \/ \E g \in Group : \/ \E b \in BOOLEAN : CreateWindowGroup(g, b) \/ ReceiveFocus(g, b)
                        \/ \E pri \in Priority, pos \in Position : SetOrdinalPosition(g, pri, pos)
                        \/ TouchInput(g)
    \/ \E c \in Client : GetReady(c) \/ GetEvent(c)
    \/ \E key \in {"key_down", "key_up"} : KeyInput(key)
    \/ SetKeyBlock

WindowSpec == WindowInit /\ [][WindowNext]_windowVars
------------------------------------------------------------------------------
\* The focus events of s alternate, and the last one is of type t.
Alternate(s) ==
    \A i, j \in DOMAIN s :
        i < j /\ IsFocus(s[i]) /\ IsFocus(s[j]) /\ s[i].type = s[j].type =>
            \E k \in (i + 1)..(j - 1) : IsFocus(s[k])

EndsWith(s, t) ==
    \A i \in DOMAIN s : IsFocus(s[i]) /\ s[i].type # t => \E k \in (i + 1)..Len(s) : IsFocus(s[k])

\* "Focus lost/gain pair ... Not purge ... Lone focus lost/gain" (fifo.cpp): whatever
\* is purged between two events of a focus change, the focus events a client has
\* still to fetch alternate and end with a gain; and nobody listens beside an event.
FocusEventsPaired ==
    \A c \in Client :
        /\ c \in listening => q[c] = <<>>
        /\ Alternate(q[c]) /\ EndsWith(q[c], "focus_gained")

\* Some window in front of g has a lower priority, as one that was just created or
\* just lowered may: the case check_order_change overlooks.
BehindLower(pri, g) ==
    \E i, j \in DOMAIN child : i < j /\ child[j] = g /\ pri[child[i]] < pri[g]

\* "True if the window needs to be reordered" (winbase.h): when check_order_change
\* finds a window in place, for the priority and position it is given and in any order
\* that earlier calls left behind, then moving it there would change nothing, but for
\* the case it overlooks.
OrderCheckExact ==
    \A i \in DOMAIN child, p \in Priority, pos \in Position :
        LET g == child[i]
            pri == [priority EXCEPT ![g] = p]
        IN CheckOrderChange(child, pri, g, pos) \/ BehindLower(pri, g)
             \/ MoveWindow(child, pri, g, pos) = child

\* "Occurs when a window group loses keyboard focus" (common.h): the group that had
\* the focus is told when it has it no more.
FocusLossTold ==
    [][focus' # focus /\ focus # NoGroup =>
        \E i \in DOMAIN q'[ClientOf[focus]] :
            q'[ClientOf[focus]][i] = [type |-> "focus_lost", to |-> focus]]_windowVars
=============================================================================
