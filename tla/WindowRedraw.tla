----------------------------- MODULE WindowRedraw ---------------------------
(***************************************************************************)
(* Redrawing client windows (winuser.cpp): the region of each window that  *)
(* is invalid, and the client's queue of redraw events (fifo.cpp).         *)
(*                                                                         *)
(* Windows of one client, of the redrawn type.  The priority of a redraw   *)
(* event follows the order of the windows, which may change at any time:   *)
(* it is chosen.  The two Invalidate opcodes have no break in              *)
(* execute_command: each of them also begins a redraw.  External: at most  *)
(* one redraw_ready request is pending.                                    *)
(***************************************************************************)
EXTENDS Region

CONSTANTS Win,
          Size,             \* the sizes <<w, h>> a window may have
          Full,             \* the initial one
          ClientRect,       \* the rectangles clients send; any corners will do
          RedrawPriority,   \* the values of redraw_priority
          MaxPaints         \* bound: invalidations and redraws begun

ASSUME RedrawAssumption ==
    /\ Full \in Size /\ Size \subseteq Nat \X Nat
    /\ ClientRect \subseteq [x1 : Int, y1 : Int, x2 : Int, y2 : Int]
    /\ RedrawPriority \subseteq Nat /\ MaxPaints \in Nat

VARIABLES size, visible,    \* of each window
          redraw_region,
          redraw_rect_curr, \* the rectangle begin_redraw set; in a set, empty if none
          in_redraw,        \* flags_in_redraw
          redraws,          \* the client's queue: [win, rect, pri]
          redraw_nof,       \* a redraw_ready request is pending
          paints,           \* invalidations and redraws begun so far
          owed              \* history: cells invalidated while visible, not yet fetched

redrawVars == <<size, visible, redraw_region, redraw_rect_curr, in_redraw, redraws, redraw_nof,
                paints, owed>>

Bounding(sz) == Rect(0, 0, sz[1], sz[2])

RedrawInit ==
    /\ size = [w \in Win |-> Full] /\ visible = [w \in Win |-> TRUE]
    /\ redraw_region = [w \in Win |-> <<>>] /\ redraw_rect_curr = [w \in Win |-> {}]
    /\ in_redraw = {} /\ redraws = <<>> /\ redraw_nof = FALSE /\ paints = 0
    /\ owed = [w \in Win |-> {}]

------------------------------------------------------------------------------
\* Faulty: queued rectangles that contain the new one are dropped.
DropCovering(s, k, e) ==
    IF k > s.limit THEN s
    ELSE IF s.q[k].win = e.win /\ Covers(s.q[k].rect, e.rect)
    THEN [q |-> RemoveAt(s.q, k), limit |-> s.limit - 1] ELSE s

\* redraw_fifo::queue_event: one turn of its loop drops a queued rectangle that the
\* new one contains, and skips the next.
DropCovered(s, k, e) ==
    IF k > s.limit THEN s
    ELSE IF s.q[k].win = e.win /\ Covers(e.rect, s.q[k].rect)
    THEN [q |-> RemoveAt(s.q, k), limit |-> s.limit - 1] ELSE s

\* What the loop leaves of the queue.
Uncovered(queue_, e) ==
    LET turn[k \in 0..Len(queue_)] ==
            IF k = 0 THEN [q |-> queue_, limit |-> Len(queue_)] ELSE DropCovered(turn[k - 1], k, e)
    IN turn[Len(queue_)].q

\* The new event goes behind those of its priority; the queue is always sorted.
QueueRedraw(queue_, e) ==
    LET kept == Uncovered(queue_, e)
        later == {i \in DOMAIN kept : kept[i].pri > e.pri}
    IN InsertAt(kept, IF later = {} THEN Len(kept) + 1 ELSE Min(later), e)

\* client->queue_redraw for one rectangle after another.
QueueRects(queue_, w, rects, pri) ==
    LET turn[i \in 0..Len(rects)] ==
            IF i = 0 THEN queue_
            ELSE QueueRedraw(turn[i - 1], [win |-> w, rect |-> rects[i], pri |-> pri])
    IN turn[Len(rects)]

\* trigger_redraw
TriggerRedraw == redraw_nof' = (redraw_nof /\ redraws' = <<>>)

Painted == paints < MaxPaints /\ paints' = paints + 1

\* window_user::invalidate of a rectangle, once the invalid region is "region"
Invalidate(w, r, region) ==
    /\ redraw_region' = [redraw_region EXCEPT ![w] = IF Empty(r) THEN region ELSE AddRect(region, r)]
    /\ IF visible[w] /\ ~Empty(r)
       THEN /\ \E pri \in RedrawPriority :
                   redraws' = QueueRedraw(redraws, [win |-> w, rect |-> r, pri |-> pri])
            /\ TriggerRedraw
            /\ owed' = [owed EXCEPT ![w] = @ \cup Cells(r)]
       ELSE UNCHANGED <<redraws, redraw_nof, owed>>

\* window_user::begin_redraw, refused during a redraw
StartRedraw(w, r) ==
    IF w \in in_redraw THEN UNCHANGED <<in_redraw, redraw_rect_curr>>
    ELSE /\ in_redraw' = in_redraw \cup {w}
         /\ redraw_rect_curr' = [redraw_rect_curr EXCEPT ![w] = {r}]

\* window_user::activate
Activate(w) ==
    /\ Painted /\ Invalidate(w, Bounding(size[w]), redraw_region[w])
    /\ UNCHANGED <<size, visible, redraw_rect_curr, in_redraw>>

\* The opcodes Invalidate and InvalidateFull: a rectangle that is not within the window
\* is not invalidated; whether it is or not, execute_command goes on to begin_redraw
\* with it.
InvalidateRect(w, r) ==
    /\ Painted
    /\ IF Covers(Bounding(size[w]), r) THEN Invalidate(w, r, redraw_region[w])
       ELSE UNCHANGED <<redraw_region, redraws, redraw_nof, owed>>
    /\ StartRedraw(w, r)
    /\ UNCHANGED <<size, visible>>

\* window_user::set_extent with another size: all of the window is invalid.
SetExtent(w, sz) ==
    /\ sz # size[w] /\ size' = [size EXCEPT ![w] = sz]
    /\ Painted /\ Invalidate(w, Bounding(sz), <<>>)
    /\ UNCHANGED <<visible, redraw_rect_curr, in_redraw>>

\* walk with should_purge_window_user_redraw: the events of window w are erased.
WithoutWindow(queue_, w) ==
    LET left[i \in 0..Len(queue_)] ==
            IF i = 0 THEN <<>>
            ELSE IF queue_[i].win = w THEN left[i - 1] ELSE Append(left[i - 1], queue_[i])
    IN left[Len(queue_)]

\* window_user::set_visible: hiding a window purges its redraw events.
SetVisible(w, vis) ==
    /\ visible' = [visible EXCEPT ![w] = vis]
    /\ IF vis THEN UNCHANGED <<redraws, owed>>
       ELSE /\ redraws' = WithoutWindow(redraws, w)
            /\ owed' = [owed EXCEPT ![w] = {}]
    /\ UNCHANGED <<size, redraw_region, redraw_rect_curr, in_redraw, redraw_nof, paints>>

\* The opcodes BeginRedraw and BeginRedrawFull
BeginRedraw(w, r) ==
    /\ w \notin in_redraw /\ Painted /\ StartRedraw(w, r)
    /\ UNCHANGED <<size, visible, redraw_region, redraws, redraw_nof, owed>>

\* window_user::end_redraw: the rest of the invalid region is queued again.
EndRedraw(w) ==
    LET rest == IF redraw_rect_curr[w] = {} THEN redraw_region[w]
                ELSE Eliminate(redraw_region[w], CHOOSE r \in redraw_rect_curr[w] : TRUE)
    IN /\ redraw_region' = [redraw_region EXCEPT ![w] = rest]
       /\ redraw_rect_curr' = [redraw_rect_curr EXCEPT ![w] = {}]
       /\ in_redraw' = in_redraw \ {w}
       /\ \E pri \in RedrawPriority : redraws' = QueueRects(redraws, w, rest, pri)
       /\ TriggerRedraw
       /\ owed' = [owed EXCEPT ![w] = @ \cup AllCells(rest)]
       /\ UNCHANGED <<size, visible, paints>>

\* window_server_client::get_redraw
GetRedraw ==
    /\ redraws # <<>> /\ redraws' = Tail(redraws)
    /\ LET e == Head(redraws)
       IN owed' = [owed EXCEPT ![e.win] = @ \ Cells(e.rect)]
    /\ UNCHANGED <<size, visible, redraw_region, redraw_rect_curr, in_redraw, redraw_nof,
                   paints>>

\* get_ready with is_redraw: completed at once when there is an event.
RedrawReady ==
    /\ ~redraw_nof /\ redraw_nof' = (redraws = <<>>)
    /\ UNCHANGED <<size, visible, redraw_region, redraw_rect_curr, in_redraw, redraws,
                   paints, owed>>

RedrawNext ==
    \/ \E w \in Win :
        \/ Activate(w)
        \/ \E r \in ClientRect \cup {Bounding(size[w])} : InvalidateRect(w, r) \/ BeginRedraw(w, r)
        \/ \E sz \in Size : SetExtent(w, sz)
        \/ \E vis \in BOOLEAN : SetVisible(w, vis)
        \/ EndRedraw(w)
    \/ GetRedraw \/ RedrawReady

RedrawSpec == RedrawInit /\ [][RedrawNext]_redrawVars
------------------------------------------------------------------------------
\* What a visible window was asked to redraw and its client has not fetched is in the
\* queue: "The new redraw rect contains the old queued redraw rect" (fifo.cpp) is the
\* only reason why an event is dropped, through every order of invalidations,
\* resizing and redraws; and no client waits beside a queued event.
RedrawsCover ==
    /\ \A w \in Win : owed[w] \subseteq
            UNION {Cells(redraws[i].rect) : i \in {k \in DOMAIN redraws : redraws[k].win = w}}
    /\ redraw_nof => redraws = <<>>
=============================================================================
