-------------------------------- MODULE Region ------------------------------
(***************************************************************************)
(* Rectangles (vecx.h) and regions (region.cpp).  A rectangle holds the    *)
(* cells with x1 <= x < x2 and y1 <= y < y2; a region is the vector rects_.*)
(* A side may be zero or, from a client, turned inside out.                *)
(***************************************************************************)
EXTENDS Integers, SequencesExt

Rect(x1, y1, x2, y2) == [x1 |-> x1, y1 |-> y1, x2 |-> x2, y2 |-> y2]

Cells(r) == (r.x1..(r.x2 - 1)) \X (r.y1..(r.y2 - 1))
AllCells(rects) == UNION {Cells(rects[i]) : i \in DOMAIN rects}

\* rect::empty: both sides are zero.
Empty(r) == r.x1 = r.x2 /\ r.y1 = r.y2

\* rect::contains
Covers(r, s) == r.x2 >= s.x2 /\ r.y2 >= s.y2 /\ r.x1 <= s.x1 /\ r.y1 <= s.y1

Apart(r, s) == r.x2 <= s.x1 \/ r.x1 >= s.x2 \/ r.y2 <= s.y1 \/ r.y1 >= s.y2

\* rect::intersect of rectangles that are not apart
Intersect(r, s) == Rect(Max({r.x1, s.x1}), Max({r.y1, s.y1}), Min({r.x2, s.x2}), Min({r.y2, s.y2}))

\* region::bounding_rect of a region that is not empty
BoundingRect(rects) ==
    LET all == Range(rects)
    IN Rect(Min({r.x1 : r \in all}), Min({r.y1 : r \in all}),
            Max({r.x2 : r \in all}), Max({r.y2 : r \in all}))

PieceIf(test, x1, y1, x2, y2) == IF test THEN <<Rect(x1, y1, x2, y2)>> ELSE <<>>

\* The pieces of the new rectangle that add_rect pushes when it meets an old one.
NewPieces(r, i) ==
    PieceIf(i.y2 # r.y2, r.x1, i.y1, r.x2, r.y2) \o PieceIf(i.y1 # r.y1, r.x1, r.y1, r.x2, i.y1)
    \o PieceIf(i.x2 # r.x2, i.x2, i.y1, r.x2, i.y2) \o PieceIf(i.x1 # r.x1, r.x1, i.y1, i.x1, i.y2)

\* region::add_rect looks at the first rectangle that the new one meets: it is either
\* kept, when it covers the new one, or replaced by pieces of the new one.
AddRect(rects, r) ==
    LET met == {k \in DOMAIN rects : ~Apart(rects[k], r)}
    IN IF rects = <<>> \/ Covers(r, BoundingRect(rects)) THEN <<r>>
       ELSE IF met = {} THEN Append(rects, r)
       ELSE LET k == Min(met)
            IN IF Covers(rects[k], r) THEN rects
               ELSE RemoveAt(rects \o NewPieces(r, Intersect(r, rects[k])), k)

\* The pieces of an old rectangle o that eliminate leaves around the intersection.
OldPieces(o, i) ==
    PieceIf(o.y2 # i.y2, o.x1, i.y2, o.x2, o.y2) \o PieceIf(o.x2 # i.x2, i.x2, i.y1, o.x2, i.y2)
    \o PieceIf(i.x1 # o.x1, o.x1, i.y1, i.x1, i.y2) \o PieceIf(i.y1 # o.y1, o.x1, o.y1, o.x2, i.y1)

\* region::eliminate: one turn of the loop at index k over the first "limit"
\* rectangles.  What follows an erased rectangle is skipped.  Two rectangles without
\* width or height may cross in an empty one: nothing is erased.
EliminateAt(s, k, r) ==
    IF s.done \/ k > s.limit THEN s
    ELSE IF s.rects[k] = r THEN [s EXCEPT !.rects = RemoveAt(@, k), !.done = TRUE]
    ELSE IF Empty(s.rects[k]) \/ Apart(s.rects[k], r) \/ Empty(Intersect(r, s.rects[k])) THEN s
    ELSE [s EXCEPT !.limit = @ - 1,
                   !.rects = RemoveAt(@, k) \o OldPieces(@[k], Intersect(r, @[k]))]

Eliminate(rects, r) ==
    LET turn[k \in 0..Len(rects)] ==
            IF k = 0 THEN [rects |-> rects, limit |-> Len(rects), done |-> FALSE]
            ELSE EliminateAt(turn[k - 1], k, r)
    IN IF Empty(r) THEN rects ELSE turn[Len(rects)].rects
=============================================================================
