------------------------------- MODULE Layout -------------------------------
(***************************************************************************)
(* Where the pointer goes when it is pushed over the edge of a machine     *)
(* (crates/is-core/src/layout.rs and the geometry of model.rs).  Pure      *)
(* operators over a layout: a function from the machines that have reported*)
(* screens to the rectangles they cover in workspace coordinates.          *)
(*                                                                         *)
(* Coordinates are integers.  The code's i32 saturates two billion pixels  *)
(* out, which no desk reaches.                                             *)
(***************************************************************************)
EXTENDS Integers, FiniteSetsExt

Point == [x : Int, y : Int]

Rect == [x : Int, y : Int, width : Nat, height : Nat]

MaxX(r) == r.x + r.width
MaxY(r) == r.y + r.height

\* Half-open on the far edges.
Contains(r, p) == /\ p.x >= r.x /\ p.x < MaxX(r)
                  /\ p.y >= r.y /\ p.y < MaxY(r)

Between(v, lo, hi) == IF v < lo THEN lo ELSE IF v > hi THEN hi ELSE v

\* The last coordinate of a span, or its origin when the span is empty.
Last(from, to) == IF to - 1 > from THEN to - 1 ELSE from

\* The nearest point inside the rectangle.
Clamp(r, p) == [x |-> Between(p.x, r.x, Last(r.x, MaxX(r))),
                y |-> Between(p.y, r.y, Last(r.y, MaxY(r)))]

Translate(r, by) ==
  [x |-> r.x + by.x, y |-> r.y + by.y, width |-> r.width, height |-> r.height]

\* Rect::union over the screens of a machine: the box around all of them.
Union(rects) ==
  LET left == Min({r.x : r \in rects})
      top == Min({r.y : r \in rects})
  IN  [x |-> left, y |-> top,
       width |-> Max({MaxX(r) : r \in rects}) - left,
       height |-> Max({MaxY(r) : r \in rects}) - top]

\* MachineRecord::bounds, for a machine with at least one screen.
Bounds(screens, position) == Union({Translate(r, position) : r \in screens})

-----------------------------------------------------------------------------
Direction == {"Right", "Left", "Down", "Up"}

IsHorizontal(d) == d \in {"Right", "Left"}

Magnitude(n) == IF n < 0 THEN -n ELSE n

\* The dominant axis of travel, for a target that is outside.
DirectionOf(exit, target) ==
  LET dx == target.x - exit.x
      dy == target.y - exit.y
  IN  IF Magnitude(dx) >= Magnitude(dy)
      THEN IF dx > 0 THEN "Right" ELSE "Left"
      ELSE IF dy > 0 THEN "Down" ELSE "Up"

\* The span of r across the direction of travel covers the exit point.
Covers(r, exit, d) ==
  IF IsHorizontal(d) THEN exit.y >= r.y /\ exit.y < MaxY(r)
                     ELSE exit.x >= r.x /\ exit.x < MaxX(r)

\* r lies ahead of the exit point.
Ahead(r, exit, d) ==
  CASE d = "Right" -> r.x > exit.x
    [] d = "Left"  -> MaxX(r) <= exit.x
    [] d = "Down"  -> r.y > exit.y
    [] d = "Up"    -> MaxY(r) <= exit.y

\* Wrong form of the distance: to the far edge on the left and above.
DistanceToFarEdge(r, exit, d) ==
  CASE d = "Right" -> r.x - exit.x
    [] d = "Left"  -> exit.x - r.x
    [] d = "Down"  -> r.y - exit.y
    [] d = "Up"    -> exit.y - r.y

\* From the exit point to the near edge of r.  The near edge of a machine on the
\* left or above is the one past its last pixel.
Distance(r, exit, d) ==
  CASE d = "Right" -> r.x - exit.x
    [] d = "Left"  -> exit.x - MaxX(r)
    [] d = "Down"  -> r.y - exit.y
    [] d = "Up"    -> exit.y - MaxY(r)

\* candidates_along, as a set.
CandidatesAlong(layout, current, exit, d) ==
  {m \in DOMAIN layout \ {current} :
     Covers(layout[m], exit, d) /\ Ahead(layout[m], exit, d)}

\* The order of candidates: by distance, then by identifier.
First(layout, S, exit, d, m) ==
  /\ m \in S
  /\ \A n \in S :
       LET a == Distance(layout[m], exit, d)
           b == Distance(layout[n], exit, d)
       IN  a < b \/ (a = b /\ m <= n)

\* Wrong form: an offline machine in the way is passed over under Block too.
ChosenAlwaysSkips(layout, online, edge, S, exit, d) ==
  {m \in S \cap online : First(layout, S \cap online, exit, d, m)}

\* Block: the nearest machine, if it is online.  SkipOver: the nearest of those
\* that are online.
Chosen(layout, online, edge, S, exit, d) ==
  IF edge = "Block"
  THEN {m \in S : First(layout, S, exit, d, m) /\ m \in online}
  ELSE {m \in S \cap online : First(layout, S \cap online, exit, d, m)}

\* Wrong form of entry_point: the pointer always enters at the left or top edge.
EntryPointAtOrigin(r, exit, d) ==
  Clamp(r, IF IsHorizontal(d) THEN [x |-> r.x, y |-> exit.y] ELSE [x |-> exit.x, y |-> r.y])

\* entry_point: just inside the near edge, at the same height or width.
EntryPoint(r, exit, d) ==
  Clamp(r, CASE d = "Right" -> [x |-> r.x, y |-> exit.y]
             [] d = "Left"  -> [x |-> MaxX(r) - 1, y |-> exit.y]
             [] d = "Down"  -> [x |-> exit.x, y |-> r.y]
             [] d = "Up"    -> [x |-> exit.x, y |-> MaxY(r) - 1])

\* Resolution: the machine that has the pointer and where it is on it.
At(machine, point) == [machine |-> machine, point |-> point]

\* resolve_cursor, for a machine that has bounds.
ResolveCursor(layout, online, edge, current, target) ==
  LET exit == Clamp(layout[current], target)
      d == DirectionOf(exit, target)
      chosen == Chosen(layout, online, edge,
                       CandidatesAlong(layout, current, exit, d), exit, d)
  IN  IF Contains(layout[current], target) THEN At(current, target)
      ELSE IF exit = target \/ chosen = {} THEN At(current, exit)
      ELSE LET m == CHOOSE n \in chosen : TRUE
           IN  At(m, EntryPoint(layout[m], exit, d))

-----------------------------------------------------------------------------
(* Walking over a layout, for the statement of properties *)

Disjoint(r, s) == MaxX(r) <= s.x \/ MaxX(s) <= r.x \/ MaxY(r) <= s.y \/ MaxY(s) <= r.y

Unit(d) ==
  CASE d = "Right" -> [x |-> 1, y |-> 0] [] d = "Left" -> [x |-> -1, y |-> 0]
    [] d = "Down" -> [x |-> 0, y |-> 1] [] d = "Up" -> [x |-> 0, y |-> -1]

Along(p, d, k) == [x |-> p.x + k * Unit(d).x, y |-> p.y + k * Unit(d).y]

=============================================================================
