----------------------------- MODULE DeskProofs -----------------------------
(***************************************************************************)
(* Proofs about the routing of the pointer and the arrangement it goes     *)
(* over.  First Layout, for every layout of machines that do not overlap,  *)
(* of any number, size and position; then Desk, whatever machines are      *)
(* paired, dragged and switched on and off: what every variable holds,     *)
(* that a crossing can be taken back, that routing is a walk, and that a   *)
(* card lands where it is dropped.                                         *)
(***************************************************************************)
EXTENDS Desk, FiniteSetTheorems, TLAPS

-----------------------------------------------------------------------------
(* Layout: rectangles, exits and entries *)

\* A rectangle with at least one pixel.
Solid == {r \in Rect : r.width > 0 /\ r.height > 0}

Opposite(d) ==
  CASE d = "Right" -> "Left" [] d = "Left" -> "Right"
    [] d = "Down" -> "Up" [] d = "Up" -> "Down"

\* The numbers of a rectangle with at least one pixel.
LEMMA SolidFacts ==
  ASSUME NEW r \in Solid
  PROVE  /\ r.x \in Int /\ r.y \in Int /\ MaxX(r) \in Int /\ MaxY(r) \in Int
         /\ r.x < MaxX(r) /\ r.y < MaxY(r)
BY DEF Solid, Rect, MaxX, MaxY

\* Clamping lands inside, and moves a coordinate to the edge it is beyond.
LEMMA ClampFacts ==
  ASSUME NEW r \in Solid, NEW p \in Point, NEW q, q = Clamp(r, p)
  PROVE  /\ q = [x |-> q.x, y |-> q.y]
         /\ q.x \in Int /\ q.y \in Int
         /\ Contains(r, q)
         /\ p.x >= r.x /\ p.x < MaxX(r) => q.x = p.x
         /\ p.y >= r.y /\ p.y < MaxY(r) => q.y = p.y
         /\ p.x < r.x => q.x = r.x
         /\ p.x >= MaxX(r) => q.x = MaxX(r) - 1
         /\ p.y < r.y => q.y = r.y
         /\ p.y >= MaxY(r) => q.y = MaxY(r) - 1
<1>1. /\ r.x \in Int /\ r.y \in Int /\ MaxX(r) \in Int /\ MaxY(r) \in Int
      /\ r.x < MaxX(r) /\ r.y < MaxY(r)
  BY SolidFacts
<1>2. p.x \in Int /\ p.y \in Int
  BY DEF Point
<1>3. /\ q = [x |-> Between(p.x, r.x, Last(r.x, MaxX(r))),
              y |-> Between(p.y, r.y, Last(r.y, MaxY(r)))]
      /\ Last(r.x, MaxX(r)) = MaxX(r) - 1
      /\ Last(r.y, MaxY(r)) = MaxY(r) - 1
  BY <1>1 DEF Clamp, Last
<1>4. q = [x |-> q.x, y |-> q.y]
  BY <1>3
<1>5. /\ q.x = Between(p.x, r.x, MaxX(r) - 1)
      /\ q.y = Between(p.y, r.y, MaxY(r) - 1)
  BY <1>3
<1> QED
  BY <1>1, <1>2, <1>4, <1>5 DEF Between, Contains

\* Where the pointer leaves a machine: on the edge that faces the direction.
LEMMA ExitFacts ==
  ASSUME NEW r \in Solid, NEW p \in Point, ~Contains(r, p),
         NEW q, q = Clamp(r, p), NEW d, d = DirectionOf(q, p)
  PROVE  /\ q # p /\ d \in Direction
         /\ d = "Right" => q.x = MaxX(r) - 1
         /\ d = "Left" => q.x = r.x
         /\ d = "Down" => q.y = MaxY(r) - 1
         /\ d = "Up" => q.y = r.y
<1>1. /\ r.x \in Int /\ r.y \in Int /\ MaxX(r) \in Int /\ MaxY(r) \in Int
      /\ r.x < MaxX(r) /\ r.y < MaxY(r)
  BY SolidFacts
<1>2. p.x \in Int /\ p.y \in Int
  BY DEF Point
<1>3. /\ q.x \in Int /\ q.y \in Int
      /\ Contains(r, q)
      /\ p.x >= r.x /\ p.x < MaxX(r) => q.x = p.x
      /\ p.y >= r.y /\ p.y < MaxY(r) => q.y = p.y
      /\ p.x < r.x => q.x = r.x
      /\ p.x >= MaxX(r) => q.x = MaxX(r) - 1
      /\ p.y < r.y => q.y = r.y
      /\ p.y >= MaxY(r) => q.y = MaxY(r) - 1
  BY ClampFacts
<1>4. q # p
  BY <1>3
<1>5. q.x # p.x \/ q.y # p.y
  BY <1>1, <1>2, <1>3 DEF Contains
<1>6. /\ d = "Right" => p.x > q.x
      /\ d = "Left" => p.x < q.x
      /\ d = "Down" => p.y > q.y
      /\ d = "Up" => p.y < q.y
      /\ d \in Direction
  BY <1>2, <1>3, <1>5 DEF DirectionOf, Magnitude, Direction
<1> QED
  BY <1>1, <1>2, <1>3, <1>4, <1>6

\* Where the pointer enters a machine whose span covers the exit point.
LEMMA EntryFacts ==
  ASSUME NEW r \in Solid, NEW q \in Point, NEW d \in Direction, Covers(r, q, d),
         NEW e, e = EntryPoint(r, q, d)
  PROVE  /\ e \in Point /\ Contains(r, e)
         /\ d = "Right" => e = [x |-> r.x, y |-> q.y]
         /\ d = "Left" => e = [x |-> MaxX(r) - 1, y |-> q.y]
         /\ d = "Down" => e = [x |-> q.x, y |-> r.y]
         /\ d = "Up" => e = [x |-> q.x, y |-> MaxY(r) - 1]
<1> DEFINE p == CASE d = "Right" -> [x |-> r.x, y |-> q.y]
                  [] d = "Left"  -> [x |-> MaxX(r) - 1, y |-> q.y]
                  [] d = "Down"  -> [x |-> q.x, y |-> r.y]
                  [] d = "Up"    -> [x |-> q.x, y |-> MaxY(r) - 1]
<1>1. /\ r.x \in Int /\ r.y \in Int /\ MaxX(r) \in Int /\ MaxY(r) \in Int
      /\ r.x < MaxX(r) /\ r.y < MaxY(r)
  BY SolidFacts
<1>2. q.x \in Int /\ q.y \in Int
  BY DEF Point
<1>3. /\ d = "Right" => p = [x |-> r.x, y |-> q.y]
      /\ d = "Left" => p = [x |-> MaxX(r) - 1, y |-> q.y]
      /\ d = "Down" => p = [x |-> q.x, y |-> r.y]
      /\ d = "Up" => p = [x |-> q.x, y |-> MaxY(r) - 1]
  BY DEF Direction
<1>4. e = Clamp(r, p)
  BY DEF EntryPoint
<1> HIDE DEF p
<1>5. p \in Point /\ Contains(r, p) /\ p = [x |-> p.x, y |-> p.y]
  <2>1. CASE d = "Right"
    BY <1>1, <1>2, <1>3, <2>1 DEF Covers, IsHorizontal, Contains, Point
  <2>2. CASE d = "Left"
    BY <1>1, <1>2, <1>3, <2>2 DEF Covers, IsHorizontal, Contains, Point
  <2>3. CASE d = "Down"
    BY <1>1, <1>2, <1>3, <2>3 DEF Covers, IsHorizontal, Contains, Point
  <2>4. CASE d = "Up"
    BY <1>1, <1>2, <1>3, <2>4 DEF Covers, IsHorizontal, Contains, Point
  <2> QED
    BY <2>1, <2>2, <2>3, <2>4 DEF Direction
<1>6. /\ e = [x |-> e.x, y |-> e.y]
      /\ p.x >= r.x /\ p.x < MaxX(r) => e.x = p.x
      /\ p.y >= r.y /\ p.y < MaxY(r) => e.y = p.y
  BY <1>4, <1>5, ClampFacts
<1>7. e = p
  BY <1>5, <1>6 DEF Contains
<1> QED
  BY <1>3, <1>5, <1>7

\* One pixel back from the entry point is outside again, in the opposite direction.
LEMMA BackFacts ==
  ASSUME NEW r \in Solid, NEW q \in Point, NEW d \in Direction, Covers(r, q, d),
         NEW e, e = EntryPoint(r, q, d), NEW b, b = Along(e, d, -1)
  PROVE  /\ b \in Point /\ ~Contains(r, b)
         /\ Clamp(r, b) = e /\ b # e
         /\ DirectionOf(e, b) = Opposite(d)
<1>1. /\ r.x \in Int /\ r.y \in Int /\ MaxX(r) \in Int /\ MaxY(r) \in Int
      /\ r.x < MaxX(r) /\ r.y < MaxY(r)
  BY SolidFacts
<1>2. /\ e \in Point /\ Contains(r, e)
      /\ d = "Right" => e = [x |-> r.x, y |-> q.y]
      /\ d = "Left" => e = [x |-> MaxX(r) - 1, y |-> q.y]
      /\ d = "Down" => e = [x |-> q.x, y |-> r.y]
      /\ d = "Up" => e = [x |-> q.x, y |-> MaxY(r) - 1]
  BY EntryFacts
<1>3. e.x \in Int /\ e.y \in Int /\ e = [x |-> e.x, y |-> e.y]
  BY <1>2 DEF Point
<1>4. /\ d = "Right" => b = [x |-> e.x - 1, y |-> e.y]
      /\ d = "Left" => b = [x |-> e.x + 1, y |-> e.y]
      /\ d = "Down" => b = [x |-> e.x, y |-> e.y - 1]
      /\ d = "Up" => b = [x |-> e.x, y |-> e.y + 1]
  BY <1>3 DEF Along, Unit
<1>5. b \in Point /\ b.x \in Int /\ b.y \in Int
  BY <1>3, <1>4 DEF Point, Direction
<1> DEFINE c == Clamp(r, b)
<1>6. /\ c = [x |-> c.x, y |-> c.y]
      /\ b.x >= r.x /\ b.x < MaxX(r) => c.x = b.x
      /\ b.y >= r.y /\ b.y < MaxY(r) => c.y = b.y
      /\ b.x < r.x => c.x = r.x
      /\ b.x >= MaxX(r) => c.x = MaxX(r) - 1
      /\ b.y < r.y => c.y = r.y
      /\ b.y >= MaxY(r) => c.y = MaxY(r) - 1
  BY <1>5, ClampFacts
<1> HIDE DEF c
<1>7. CASE d = "Right"
  <2>1. e.x = r.x /\ b.x = e.x - 1 /\ b.y = e.y
    BY <1>2, <1>4, <1>7
  <2>2. ~Contains(r, b) /\ b # e /\ c.x = e.x /\ c.y = e.y
    BY <1>1, <1>2, <1>3, <1>6, <2>1 DEF Contains
  <2>3. DirectionOf(e, b) = "Left"
    BY <1>3, <2>1 DEF DirectionOf, Magnitude
  <2> QED
    BY <1>3, <1>5, <1>6, <1>7, <2>2, <2>3 DEF c, Opposite
<1>8. CASE d = "Left"
  <2>1. e.x = MaxX(r) - 1 /\ b.x = e.x + 1 /\ b.y = e.y
    BY <1>2, <1>4, <1>8
  <2>2. ~Contains(r, b) /\ b # e /\ c.x = e.x /\ c.y = e.y
    BY <1>1, <1>2, <1>3, <1>6, <2>1 DEF Contains
  <2>3. DirectionOf(e, b) = "Right"
    BY <1>3, <2>1 DEF DirectionOf, Magnitude
  <2> QED
    BY <1>3, <1>5, <1>6, <1>8, <2>2, <2>3 DEF c, Opposite
<1>9. CASE d = "Down"
  <2>1. e.y = r.y /\ b.y = e.y - 1 /\ b.x = e.x
    BY <1>2, <1>4, <1>9
  <2>2. ~Contains(r, b) /\ b # e /\ c.x = e.x /\ c.y = e.y
    BY <1>1, <1>2, <1>3, <1>6, <2>1 DEF Contains
  <2>3. DirectionOf(e, b) = "Up"
    BY <1>3, <2>1 DEF DirectionOf, Magnitude
  <2> QED
    BY <1>3, <1>5, <1>6, <1>9, <2>2, <2>3 DEF c, Opposite
<1>10. CASE d = "Up"
  <2>1. e.y = MaxY(r) - 1 /\ b.y = e.y + 1 /\ b.x = e.x
    BY <1>2, <1>4, <1>10
  <2>2. ~Contains(r, b) /\ b # e /\ c.x = e.x /\ c.y = e.y
    BY <1>1, <1>2, <1>3, <1>6, <2>1 DEF Contains
  <2>3. DirectionOf(e, b) = "Down"
    BY <1>3, <2>1 DEF DirectionOf, Magnitude
  <2> QED
    BY <1>3, <1>5, <1>6, <1>10, <2>2, <2>3 DEF c, Opposite
<1> QED
  BY <1>7, <1>8, <1>9, <1>10 DEF Direction

\* The machine that was left at q lies ahead of the way back, and the way back
\* enters it at q.
LEMMA WayBack ==
  ASSUME NEW c \in Solid, NEW m \in Solid,
         NEW q \in Point, NEW d \in Direction, Contains(c, q),
         d = "Right" => q.x = MaxX(c) - 1, d = "Left" => q.x = c.x,
         d = "Down" => q.y = MaxY(c) - 1, d = "Up" => q.y = c.y,
         Covers(m, q, d), Ahead(m, q, d),
         NEW e, e = EntryPoint(m, q, d)
  PROVE  /\ e \in Point /\ Opposite(d) \in Direction
         /\ Covers(c, e, Opposite(d)) /\ Ahead(c, e, Opposite(d))
         /\ EntryPoint(c, e, Opposite(d)) = q
<1>1. /\ c.x \in Int /\ c.y \in Int /\ MaxX(c) \in Int /\ MaxY(c) \in Int
      /\ c.x < MaxX(c) /\ c.y < MaxY(c)
  BY SolidFacts
<1>2. /\ m.x \in Int /\ m.y \in Int /\ MaxX(m) \in Int /\ MaxY(m) \in Int
      /\ m.x < MaxX(m) /\ m.y < MaxY(m)
  BY SolidFacts
<1>3. q.x \in Int /\ q.y \in Int /\ q = [x |-> q.x, y |-> q.y]
  BY DEF Point
<1>4. /\ e \in Point
      /\ d = "Right" => e = [x |-> m.x, y |-> q.y]
      /\ d = "Left" => e = [x |-> MaxX(m) - 1, y |-> q.y]
      /\ d = "Down" => e = [x |-> q.x, y |-> m.y]
      /\ d = "Up" => e = [x |-> q.x, y |-> MaxY(m) - 1]
  BY EntryFacts
<1>5. Opposite(d) \in Direction
  BY DEF Opposite, Direction
<1>6. Covers(c, e, Opposite(d)) /\ Ahead(c, e, Opposite(d))
  <2>1. CASE d = "Right"
    BY <1>1, <1>2, <1>3, <1>4, <2>1 DEF Contains, Ahead, Covers, IsHorizontal, Opposite
  <2>2. CASE d = "Left"
    BY <1>1, <1>2, <1>3, <1>4, <2>2 DEF Contains, Ahead, Covers, IsHorizontal, Opposite
  <2>3. CASE d = "Down"
    BY <1>1, <1>2, <1>3, <1>4, <2>3 DEF Contains, Ahead, Covers, IsHorizontal, Opposite
  <2>4. CASE d = "Up"
    BY <1>1, <1>2, <1>3, <1>4, <2>4 DEF Contains, Ahead, Covers, IsHorizontal, Opposite
  <2> QED
    BY <2>1, <2>2, <2>3, <2>4 DEF Direction
<1> DEFINE f == EntryPoint(c, e, Opposite(d))
<1>7. /\ Opposite(d) = "Right" => f = [x |-> c.x, y |-> e.y]
      /\ Opposite(d) = "Left" => f = [x |-> MaxX(c) - 1, y |-> e.y]
      /\ Opposite(d) = "Down" => f = [x |-> e.x, y |-> c.y]
      /\ Opposite(d) = "Up" => f = [x |-> e.x, y |-> MaxY(c) - 1]
  BY <1>4, <1>5, <1>6, EntryFacts
<1> HIDE DEF f
<1>8. f = q
  <2>1. CASE d = "Right"
    BY <1>3, <1>4, <1>7, <2>1 DEF Opposite
  <2>2. CASE d = "Left"
    BY <1>3, <1>4, <1>7, <2>2 DEF Opposite
  <2>3. CASE d = "Down"
    BY <1>3, <1>4, <1>7, <2>3 DEF Opposite
  <2>4. CASE d = "Up"
    BY <1>3, <1>4, <1>7, <2>4 DEF Opposite
  <2> QED
    BY <2>1, <2>2, <2>3, <2>4 DEF Direction
<1> QED
  BY <1>4, <1>5, <1>6, <1>8 DEF f

\* Seen from where m was entered, no third machine n is as near as the machine c
\* that was left, unless n lay between the two already.
LEMMA NothingBetween ==
  ASSUME NEW c \in Solid, NEW m \in Solid,
         NEW q \in Point, NEW d \in Direction, Contains(c, q),
         d = "Right" => q.x = MaxX(c) - 1, d = "Left" => q.x = c.x,
         d = "Down" => q.y = MaxY(c) - 1, d = "Up" => q.y = c.y,
         Covers(m, q, d), Ahead(m, q, d),
         NEW e, e = EntryPoint(m, q, d),
         NEW n \in Solid, Disjoint(n, c),
         Covers(n, e, Opposite(d)), Ahead(n, e, Opposite(d))
  PROVE  \/ Distance(c, e, Opposite(d)) < Distance(n, e, Opposite(d))
         \/ /\ Covers(n, q, d) /\ Ahead(n, q, d)
            /\ Distance(n, q, d) < Distance(m, q, d)
<1>1. /\ c.x \in Int /\ c.y \in Int /\ MaxX(c) \in Int /\ MaxY(c) \in Int
      /\ c.x < MaxX(c) /\ c.y < MaxY(c)
  BY SolidFacts
<1>2. /\ m.x \in Int /\ m.y \in Int /\ MaxX(m) \in Int /\ MaxY(m) \in Int
      /\ m.x < MaxX(m) /\ m.y < MaxY(m)
  BY SolidFacts
<1>3. /\ n.x \in Int /\ n.y \in Int /\ MaxX(n) \in Int /\ MaxY(n) \in Int
      /\ n.x < MaxX(n) /\ n.y < MaxY(n)
  BY SolidFacts
<1>4. q.x \in Int /\ q.y \in Int
  BY DEF Point
<1>5. /\ d = "Right" => e = [x |-> m.x, y |-> q.y]
      /\ d = "Left" => e = [x |-> MaxX(m) - 1, y |-> q.y]
      /\ d = "Down" => e = [x |-> q.x, y |-> m.y]
      /\ d = "Up" => e = [x |-> q.x, y |-> MaxY(m) - 1]
  BY EntryFacts
<1>6. CASE d = "Right"
  BY <1>1, <1>2, <1>3, <1>4, <1>5, <1>6
     DEF Contains, Ahead, Covers, IsHorizontal, Opposite, Distance, Disjoint
<1>7. CASE d = "Left"
  BY <1>1, <1>2, <1>3, <1>4, <1>5, <1>7
     DEF Contains, Ahead, Covers, IsHorizontal, Opposite, Distance, Disjoint
<1>8. CASE d = "Down"
  BY <1>1, <1>2, <1>3, <1>4, <1>5, <1>8
     DEF Contains, Ahead, Covers, IsHorizontal, Opposite, Distance, Disjoint
<1>9. CASE d = "Up"
  BY <1>1, <1>2, <1>3, <1>4, <1>5, <1>9
     DEF Contains, Ahead, Covers, IsHorizontal, Opposite, Distance, Disjoint
<1> QED
  BY <1>6, <1>7, <1>8, <1>9 DEF Direction

-----------------------------------------------------------------------------
(* Walking over a layout *)

\* The pixel of a walk from q on which it enters r, for an r that lies ahead.
Entering(r, q, d) == IF d \in {"Right", "Down"} THEN Distance(r, q, d) ELSE Distance(r, q, d) + 1

\* A walk meets what lies ahead, first at the point where the pointer would enter it.
LEMMA WalkMeetsAhead ==
  ASSUME NEW r \in Solid, NEW q \in Point, NEW d \in Direction,
         Covers(r, q, d), Ahead(r, q, d),
         NEW k, k = Entering(r, q, d)
  PROVE  /\ k \in Nat \ {0}
         /\ Along(q, d, k) = EntryPoint(r, q, d)
         /\ Contains(r, Along(q, d, k))
<1>1. /\ r.x \in Int /\ r.y \in Int /\ MaxX(r) \in Int /\ MaxY(r) \in Int
      /\ r.x < MaxX(r) /\ r.y < MaxY(r)
  BY SolidFacts
<1>2. q.x \in Int /\ q.y \in Int
  BY DEF Point
<1> DEFINE e == EntryPoint(r, q, d)
<1>3. /\ Contains(r, e)
      /\ d = "Right" => e = [x |-> r.x, y |-> q.y]
      /\ d = "Left" => e = [x |-> MaxX(r) - 1, y |-> q.y]
      /\ d = "Down" => e = [x |-> q.x, y |-> r.y]
      /\ d = "Up" => e = [x |-> q.x, y |-> MaxY(r) - 1]
  BY EntryFacts
<1> HIDE DEF e
<1>4. CASE d = "Right"
  <2>1. k = r.x - q.x /\ r.x > q.x
    BY <1>4 DEF Entering, Distance, Ahead
  <2>2. Along(q, d, k) = [x |-> q.x + k * 1, y |-> q.y + k * 0]
    BY <1>4 DEF Along, Unit
  <2>3. k \in Nat \ {0} /\ q.x + k * 1 = r.x /\ q.y + k * 0 = q.y
    BY <1>1, <1>2, <2>1
  <2> QED
    BY <1>3, <1>4, <2>2, <2>3 DEF e
<1>5. CASE d = "Left"
  <2>1. k = q.x - MaxX(r) + 1 /\ MaxX(r) <= q.x
    BY <1>5 DEF Entering, Distance, Ahead
  <2>2. Along(q, d, k) = [x |-> q.x + k * (-1), y |-> q.y + k * 0]
    BY <1>5 DEF Along, Unit
  <2>3. k \in Nat \ {0} /\ q.x + k * (-1) = MaxX(r) - 1 /\ q.y + k * 0 = q.y
    BY <1>1, <1>2, <2>1
  <2> QED
    BY <1>3, <1>5, <2>2, <2>3 DEF e
<1>6. CASE d = "Down"
  <2>1. k = r.y - q.y /\ r.y > q.y
    BY <1>6 DEF Entering, Distance, Ahead
  <2>2. Along(q, d, k) = [x |-> q.x + k * 0, y |-> q.y + k * 1]
    BY <1>6 DEF Along, Unit
  <2>3. k \in Nat \ {0} /\ q.x + k * 0 = q.x /\ q.y + k * 1 = r.y
    BY <1>1, <1>2, <2>1
  <2> QED
    BY <1>3, <1>6, <2>2, <2>3 DEF e
<1>7. CASE d = "Up"
  <2>1. k = q.y - MaxY(r) + 1 /\ MaxY(r) <= q.y
    BY <1>7 DEF Entering, Distance, Ahead
  <2>2. Along(q, d, k) = [x |-> q.x + k * 0, y |-> q.y + k * (-1)]
    BY <1>7 DEF Along, Unit
  <2>3. k \in Nat \ {0} /\ q.x + k * 0 = q.x /\ q.y + k * (-1) = MaxY(r) - 1
    BY <1>1, <1>2, <2>1
  <2> QED
    BY <1>3, <1>7, <2>2, <2>3 DEF e
<1> QED
  BY <1>4, <1>5, <1>6, <1>7 DEF Direction

\* What a walk from the edge of c meets, and is not on top of c, lies ahead, and was
\* entered no later than there.
LEMMA WalkMeetsOnlyAhead ==
  ASSUME NEW c \in Solid, NEW r \in Solid, Disjoint(c, r) \/ Disjoint(r, c),
         NEW q \in Point, NEW d \in Direction, Contains(c, q),
         NEW k \in Nat \ {0}, Contains(r, Along(q, d, k))
  PROVE  Covers(r, q, d) /\ Ahead(r, q, d) /\ Entering(r, q, d) <= k
<1>1. /\ r.x \in Int /\ r.y \in Int /\ MaxX(r) \in Int /\ MaxY(r) \in Int
      /\ r.x < MaxX(r) /\ r.y < MaxY(r)
  BY SolidFacts
<1>2. /\ c.x \in Int /\ c.y \in Int /\ MaxX(c) \in Int /\ MaxY(c) \in Int
      /\ c.x < MaxX(c) /\ c.y < MaxY(c)
  BY SolidFacts
<1>3. q.x \in Int /\ q.y \in Int
  BY DEF Point
<1>4. ~Contains(r, q)
  BY <1>1, <1>2, <1>3 DEF Contains, Disjoint
<1> DEFINE p == Along(q, d, k)
<1>5. CASE d = "Right"
  <2>1. p.x = q.x + k * 1 /\ p.y = q.y + k * 0
    BY <1>5 DEF Along, Unit
  <2>2. p.x = q.x + k /\ p.y = q.y
    BY <1>3, <2>1
  <2> HIDE DEF p
  <2>3. Contains(r, p)
    BY DEF p
  <2> QED
    BY <1>1, <1>3, <1>4, <1>5, <2>2, <2>3
       DEF Contains, Covers, Ahead, Entering, Distance, IsHorizontal
<1>6. CASE d = "Left"
  <2>1. p.x = q.x + k * (-1) /\ p.y = q.y + k * 0
    BY <1>6 DEF Along, Unit
  <2>2. p.x = q.x - k /\ p.y = q.y
    BY <1>3, <2>1
  <2> HIDE DEF p
  <2>3. Contains(r, p)
    BY DEF p
  <2> QED
    BY <1>1, <1>3, <1>4, <1>6, <2>2, <2>3
       DEF Contains, Covers, Ahead, Entering, Distance, IsHorizontal
<1>7. CASE d = "Down"
  <2>1. p.x = q.x + k * 0 /\ p.y = q.y + k * 1
    BY <1>7 DEF Along, Unit
  <2>2. p.x = q.x /\ p.y = q.y + k
    BY <1>3, <2>1
  <2> HIDE DEF p
  <2>3. Contains(r, p)
    BY DEF p
  <2> QED
    BY <1>1, <1>3, <1>4, <1>7, <2>2, <2>3
       DEF Contains, Covers, Ahead, Entering, Distance, IsHorizontal
<1>8. CASE d = "Up"
  <2>1. p.x = q.x + k * 0 /\ p.y = q.y + k * (-1)
    BY <1>8 DEF Along, Unit
  <2>2. p.x = q.x /\ p.y = q.y - k
    BY <1>3, <2>1
  <2> HIDE DEF p
  <2>3. Contains(r, p)
    BY DEF p
  <2> QED
    BY <1>1, <1>3, <1>4, <1>8, <2>2, <2>3
       DEF Contains, Covers, Ahead, Entering, Distance, IsHorizontal
<1> QED
  BY <1>5, <1>6, <1>7, <1>8 DEF Direction

\* No pixel belongs to two machines that do not overlap.
LEMMA OneUnderAPixel ==
  ASSUME NEW r \in Solid, NEW s \in Solid, Disjoint(r, s),
         NEW p, p.x \in Int, p.y \in Int, Contains(r, p), Contains(s, p)
  PROVE  FALSE
<1>1. /\ r.x \in Int /\ r.y \in Int /\ MaxX(r) \in Int /\ MaxY(r) \in Int
  BY SolidFacts
<1>2. /\ s.x \in Int /\ s.y \in Int /\ MaxX(s) \in Int /\ MaxY(s) \in Int
  BY SolidFacts
<1> QED
  BY <1>1, <1>2 DEF Contains, Disjoint

\* Requirement 8, for every layout: the pointer is never handed to a machine that
\* is not online, nor to one that has no screens (resolve_cursor).
THEOREM NeverUnavailable ==
  ASSUME NEW layout, NEW on, NEW mode, NEW current, NEW target,
         NEW to, to = ResolveCursor(layout, on, mode, current, target),
         to.machine # current
  PROVE  to.machine \in on /\ to.machine \in DOMAIN layout
<1> DEFINE exit == Clamp(layout[current], target)
           d == DirectionOf(exit, target)
           S == CandidatesAlong(layout, current, exit, d)
           chosen == Chosen(layout, on, mode, S, exit, d)
           m == CHOOSE n \in chosen : TRUE
<1>1. S \subseteq DOMAIN layout
  BY DEF CandidatesAlong
<1> HIDE DEF exit, d, S
<1>2. chosen \subseteq S \cap on
  BY DEF Chosen
<1> HIDE DEF chosen
<1>3. chosen # {} => m \in chosen
  OBVIOUS
<1> HIDE DEF m
<1>4. \/ to = At(current, target) \/ to = At(current, exit)
      \/ chosen # {} /\ to = At(m, EntryPoint(layout[m], exit, d))
  BY DEF ResolveCursor, exit, d, S, chosen, m
<1>5. chosen # {} /\ to.machine = m
  BY <1>4 DEF At
<1> QED
  BY <1>1, <1>2, <1>3, <1>5

\* A crossing can be taken back, for every layout of machines that do not overlap
\* and both behaviours at an offline edge: one pixel in the opposite direction
\* returns the pointer to the machine and the very pixel it left, provided that
\* machine is online (resolve_cursor, candidates_along, entry_point).
THEOREM CrossingCanBeTakenBack ==
  ASSUME NEW M \in SUBSET Nat, NEW layout \in [M -> Solid],
         \A m, n \in M : m # n => Disjoint(layout[m], layout[n]),
         NEW on, NEW mode, NEW current \in M, current \in on,
         NEW target \in Point,
         NEW exit, exit = Clamp(layout[current], target),
         NEW d, d = DirectionOf(exit, target),
         NEW to, to = ResolveCursor(layout, on, mode, current, target),
         to.machine # current
  PROVE  ResolveCursor(layout, on, mode, to.machine, Along(to.point, d, -1))
           = At(current, exit)
<1> DEFINE S == CandidatesAlong(layout, current, exit, d)
           T == IF mode = "Block" THEN S ELSE S \cap on
           chosen == Chosen(layout, on, mode, S, exit, d)
           m == CHOOSE n \in chosen : TRUE
           e == EntryPoint(layout[m], exit, d)
<1>1. /\ ~Contains(layout[current], target) /\ chosen # {}
      /\ to = At(m, e)
  BY DEF ResolveCursor, At
<1>2. m \in chosen
  BY <1>1
<1>3. \A n \in chosen : n \in T /\ First(layout, T, exit, d, n) /\ n \in on
  BY DEF Chosen
<1> HIDE DEF chosen, m
<1>4. m \in T /\ First(layout, T, exit, d, m) /\ m \in on
  BY <1>2, <1>3
<1>5. m \in S /\ m \in M /\ m # current
  BY <1>4 DEF CandidatesAlong
<1>6. Covers(layout[m], exit, d) /\ Ahead(layout[m], exit, d)
  BY <1>5 DEF CandidatesAlong
<1> HIDE DEF S
<1>7. layout[current] \in Solid /\ layout[m] \in Solid
  BY <1>5
<1>8. /\ d \in Direction
      /\ d = "Right" => exit.x = MaxX(layout[current]) - 1
      /\ d = "Left" => exit.x = layout[current].x
      /\ d = "Down" => exit.y = MaxY(layout[current]) - 1
      /\ d = "Up" => exit.y = layout[current].y
  BY <1>1, <1>7, ExitFacts
<1>9. exit \in Point /\ Contains(layout[current], exit)
  BY <1>7, ClampFacts DEF Point
<1> DEFINE b == Along(e, d, -1)
           o == Opposite(d)
<1>10. /\ b \in Point /\ ~Contains(layout[m], b) /\ Clamp(layout[m], b) = e /\ b # e
       /\ DirectionOf(e, b) = o
  BY <1>6, <1>7, <1>8, <1>9, BackFacts
<1>11. /\ Covers(layout[current], e, o) /\ Ahead(layout[current], e, o)
       /\ EntryPoint(layout[current], e, o) = exit
  BY <1>6, <1>7, <1>8, <1>9, WayBack
<1> DEFINE S2 == CandidatesAlong(layout, m, e, o)
           T2 == IF mode = "Block" THEN S2 ELSE S2 \cap on
           chosen2 == Chosen(layout, on, mode, S2, e, o)
<1>12. current \in S2 /\ current \in T2
  BY <1>5, <1>11 DEF CandidatesAlong
<1>13. ASSUME NEW n \in T2, n # current
       PROVE  Distance(layout[current], e, o) < Distance(layout[n], e, o)
  <2>1. n \in S2 /\ (mode # "Block" => n \in on)
    BY <1>13
  <2>2. n \in M /\ n # m /\ Covers(layout[n], e, o) /\ Ahead(layout[n], e, o)
    BY <2>1 DEF CandidatesAlong
  <2>3. layout[n] \in Solid /\ Disjoint(layout[n], layout[current])
    BY <1>13, <2>2
  <2>4. \/ Distance(layout[current], e, o) < Distance(layout[n], e, o)
        \/ /\ Covers(layout[n], exit, d) /\ Ahead(layout[n], exit, d)
           /\ Distance(layout[n], exit, d) < Distance(layout[m], exit, d)
    BY <1>6, <1>7, <1>8, <1>9, <2>2, <2>3, NothingBetween
  <2>5. Covers(layout[n], exit, d) /\ Ahead(layout[n], exit, d) => n \in T
    BY <1>13, <2>1, <2>2 DEF S, CandidatesAlong
  <2>6. n \in T => \/ Distance(layout[m], exit, d) < Distance(layout[n], exit, d)
                   \/ Distance(layout[m], exit, d) = Distance(layout[n], exit, d)
    BY <1>4 DEF First
  <2>7. Distance(layout[m], exit, d) \in Int /\ Distance(layout[n], exit, d) \in Int
    <3>1. /\ layout[m].x \in Int /\ layout[m].y \in Int
          /\ MaxX(layout[m]) \in Int /\ MaxY(layout[m]) \in Int
      BY <1>7, SolidFacts
    <3>2. /\ layout[n].x \in Int /\ layout[n].y \in Int
          /\ MaxX(layout[n]) \in Int /\ MaxY(layout[n]) \in Int
      BY <2>3, SolidFacts
    <3>3. exit.x \in Int /\ exit.y \in Int
      BY <1>9 DEF Point
    <3> QED
      BY <1>8, <3>1, <3>2, <3>3 DEF Distance, Direction
  <2> QED
    BY <2>4, <2>5, <2>6, <2>7
<1>14. First(layout, T2, e, o, current)
  <2>1. current <= current
    OBVIOUS
  <2> QED
    BY <1>12, <1>13, <2>1 DEF First
<1>15. ASSUME NEW n \in T2, n # current, First(layout, T2, e, o, n)
       PROVE  FALSE
  <2>1. \/ Distance(layout[n], e, o) < Distance(layout[current], e, o)
        \/ Distance(layout[n], e, o) = Distance(layout[current], e, o)
    BY <1>12, <1>15 DEF First
  <2>2. Distance(layout[current], e, o) < Distance(layout[n], e, o)
    BY <1>13, <1>15
  <2>3. n \in M
    BY <1>15 DEF CandidatesAlong
  <2>4. e \in Point /\ o \in Direction
    BY <1>6, <1>7, <1>8, <1>9, WayBack
  <2>5. Distance(layout[current], e, o) \in Int /\ Distance(layout[n], e, o) \in Int
    <3>1. /\ layout[current].x \in Int /\ layout[current].y \in Int
          /\ MaxX(layout[current]) \in Int /\ MaxY(layout[current]) \in Int
      BY <1>7, SolidFacts
    <3>2. /\ layout[n].x \in Int /\ layout[n].y \in Int
          /\ MaxX(layout[n]) \in Int /\ MaxY(layout[n]) \in Int
      BY <2>3, SolidFacts
    <3>3. e.x \in Int /\ e.y \in Int
      BY <2>4 DEF Point
    <3> HIDE DEF e, o
    <3> QED
      BY <2>4, <3>1, <3>2, <3>3 DEF Distance, Direction
  <2> HIDE DEF e, o
  <2> QED
    BY <2>1, <2>2, <2>5
<1>16. /\ \A n \in chosen2 : n \in T2 /\ First(layout, T2, e, o, n)
       /\ First(layout, T2, e, o, current) => current \in chosen2
  BY <1>12 DEF Chosen
<1> HIDE DEF chosen2, T2, S2, e, o
<1>17. chosen2 = {current}
  BY <1>12, <1>14, <1>15, <1>16
<1>18. (CHOOSE n \in chosen2 : TRUE) = current
  BY <1>17
<1>19. ResolveCursor(layout, on, mode, m, b) = At(current, EntryPoint(layout[current], e, o))
  BY <1>10, <1>17, <1>18 DEF ResolveCursor, chosen2, S2
<1>20. to.machine = m /\ to.point = e
  BY <1>1 DEF At
<1> QED
  BY <1>11, <1>19, <1>20

-----------------------------------------------------------------------------
(* Least and greatest elements *)

\* Some element of a finite set has the least value.  A counterexample of least
\* cardinality would have one without it.
LEMMA FiniteHasLeast ==
  ASSUME NEW S, IsFiniteSet(S), S # {}, NEW f \in [S -> Int]
  PROVE  \E x \in S : \A y \in S : f[x] <= f[y]
<1> DEFINE Least(A) == \E x \in A : \A y \in A : f[x] <= f[y]
           Bad == {n \in Nat : \E A \in SUBSET S : A # {} /\ ~Least(A) /\ Cardinality(A) = n}
           R == {ss \in Nat \X Nat : ss[1] < ss[2]}
<1>1. ASSUME Bad # {} PROVE FALSE
  <2>1. IsWellFoundedOn(R, Nat)
    BY NatLessThanWellFounded DEF OpToRel
  <2> HIDE DEF R
  <2>2. PICK n \in Bad : \A k \in Bad : ~(<<k, n>> \in R)
    BY <1>1, <2>1, WFMin
  <2>3. \A k \in Bad : ~(k < n)
    BY <2>2 DEF R
  <2>4. PICK A \in SUBSET S : A # {} /\ ~Least(A) /\ Cardinality(A) = n
    OBVIOUS
  <2>5. PICK a \in A : TRUE
    BY <2>4
  <2> DEFINE B == A \ {a}
  <2>6. IsFiniteSet(A)
    BY FS_Subset
  <2>6a. IsFiniteSet(B) /\ Cardinality(B) = n - 1 /\ n \in Nat /\ Cardinality(B) \in Nat
    BY <2>4, <2>5, <2>6, FS_RemoveElement, FS_CardinalityType
  <2>7. B = {} \/ Least(B)
    <3>1. SUFFICES ASSUME B # {}, ~Least(B) PROVE FALSE
      OBVIOUS
    <3>2. n - 1 \in Bad
      BY <2>6a, <3>1
    <3> QED
      BY <2>3, <2>6a, <3>2
  <2>8. \A y \in A : f[y] \in Int
    OBVIOUS
  <2>9. CASE B = {}
    <3>1. A = {a}
      BY <2>5, <2>9
    <3> QED
      BY <2>4, <2>8, <3>1
  <2>10. CASE Least(B)
    <3>1. PICK b \in B : \A y \in B : f[b] <= f[y]
      BY <2>10
    <3>2. CASE f[b] <= f[a]
      <4>1. \A y \in A : f[b] <= f[y]
        BY <3>1, <3>2
      <4> QED
        BY <2>4, <4>1
    <3>3. CASE ~(f[b] <= f[a])
      <4>1. \A y \in A : f[a] <= f[y]
        BY <2>5, <2>8, <3>1, <3>3
      <4> QED
        BY <2>4, <2>5, <4>1
    <3> QED
      BY <3>2, <3>3
  <2> QED
    BY <2>7, <2>9, <2>10
<1>2. Cardinality(S) \in Nat
  BY FS_CardinalityType
<1> QED
  BY <1>1, <1>2

\* Min and Max over what a finite set of things is measured by.
LEMMA MinMaxFacts ==
  ASSUME NEW S, IsFiniteSet(S), S # {}, NEW f \in [S -> Int],
         NEW T, \A x \in S : f[x] \in T, \A t \in T : \E x \in S : t = f[x]
  PROVE  /\ Min(T) \in Int /\ \E x \in S : Min(T) = f[x]
         /\ \A x \in S : Min(T) <= f[x]
         /\ Max(T) \in Int /\ \E x \in S : Max(T) = f[x]
         /\ \A x \in S : Max(T) >= f[x]
<1>1. \E t \in T : \A u \in T : t <= u
  <2>1. PICK x \in S : \A y \in S : f[x] <= f[y]
    BY FiniteHasLeast
  <2> QED
    BY <2>1
<1>2. \E t \in T : \A u \in T : t >= u
  <2> DEFINE g == [x \in S |-> -f[x]]
  <2>1. g \in [S -> Int]
    OBVIOUS
  <2>2. PICK x \in S : \A y \in S : g[x] <= g[y]
    BY <2>1, FiniteHasLeast
  <2>3. \A y \in S : f[x] \in Int /\ f[y] \in Int /\ -f[x] <= -f[y]
    BY <2>2
  <2>4. \A y \in S : f[x] >= f[y]
    BY <2>3
  <2> QED
    BY <2>4
<1>3. Min(T) \in T /\ \A u \in T : Min(T) <= u
  BY <1>1 DEF Min
<1>4. Max(T) \in T /\ \A u \in T : Max(T) >= u
  BY <1>2 DEF Max
<1> QED
  BY <1>3, <1>4

-----------------------------------------------------------------------------
(* What a machine covers *)

\* The box around screens that have pixels has some.
LEMMA UnionSolid ==
  ASSUME NEW s, IsFiniteSet(s), s # {}, s \subseteq Solid
  PROVE  Union(s) \in Solid
<1> DEFINE left == Min({r.x : r \in s})
           top == Min({r.y : r \in s})
           right == Max({MaxX(r) : r \in s})
           bottom == Max({MaxY(r) : r \in s})
<1>1. \A r \in s : /\ r.x \in Int /\ r.y \in Int /\ MaxX(r) \in Int /\ MaxY(r) \in Int
                   /\ r.x < MaxX(r) /\ r.y < MaxY(r)
  BY SolidFacts
<1>2. PICK r \in s : TRUE
  OBVIOUS
<1>3. left \in Int /\ left <= r.x
  <2> DEFINE f == [q \in s |-> q.x]
             T == {q.x : q \in s}
  <2>1. /\ f \in [s -> Int] /\ f[r] = r.x
        /\ \A q \in s : f[q] \in T
        /\ \A t \in T : \E q \in s : t = f[q]
    BY <1>1
  <2>2. left = Min(T)
    OBVIOUS
  <2> HIDE DEF f, T, left
  <2> QED
    BY <1>2, <2>1, <2>2, MinMaxFacts
<1>4. top \in Int /\ top <= r.y
  <2> DEFINE f == [q \in s |-> q.y]
             T == {q.y : q \in s}
  <2>1. /\ f \in [s -> Int] /\ f[r] = r.y
        /\ \A q \in s : f[q] \in T
        /\ \A t \in T : \E q \in s : t = f[q]
    BY <1>1
  <2>2. top = Min(T)
    OBVIOUS
  <2> HIDE DEF f, T, top
  <2> QED
    BY <1>2, <2>1, <2>2, MinMaxFacts
<1>5. right \in Int /\ right >= MaxX(r)
  <2> DEFINE f == [q \in s |-> MaxX(q)]
             T == {MaxX(q) : q \in s}
  <2>1. /\ f \in [s -> Int] /\ f[r] = MaxX(r)
        /\ \A q \in s : f[q] \in T
        /\ \A t \in T : \E q \in s : t = f[q]
    BY <1>1
  <2>2. right = Max(T)
    OBVIOUS
  <2> HIDE DEF f, T, right
  <2> QED
    BY <1>2, <2>1, <2>2, MinMaxFacts
<1>6. bottom \in Int /\ bottom >= MaxY(r)
  <2> DEFINE f == [q \in s |-> MaxY(q)]
             T == {MaxY(q) : q \in s}
  <2>1. /\ f \in [s -> Int] /\ f[r] = MaxY(r)
        /\ \A q \in s : f[q] \in T
        /\ \A t \in T : \E q \in s : t = f[q]
    BY <1>1
  <2>2. bottom = Max(T)
    OBVIOUS
  <2> HIDE DEF f, T, bottom
  <2> QED
    BY <1>2, <2>1, <2>2, MinMaxFacts
<1>7. Union(s) = [x |-> left, y |-> top, width |-> right - left, height |-> bottom - top]
  BY DEF Union
<1> HIDE DEF left, top, right, bottom
<1>8. right - left \in Nat \ {0} /\ bottom - top \in Nat \ {0}
  BY <1>1, <1>3, <1>4, <1>5, <1>6
<1> QED
  BY <1>3, <1>4, <1>7, <1>8 DEF Solid, Rect

\* Screens that are put somewhere.
LEMMA Translated ==
  ASSUME NEW s, IsFiniteSet(s), s # {}, s \subseteq Solid, NEW p \in Point,
         NEW T, T = {Translate(r, p) : r \in s}
  PROVE  /\ IsFiniteSet(T) /\ T # {} /\ T \subseteq Solid
         /\ \A r \in s : Translate(r, p).x = r.x + p.x /\ Translate(r, p).y = r.y + p.y
<1>1. p.x \in Int /\ p.y \in Int
  BY DEF Point
<1>2. ASSUME NEW r \in s
      PROVE  /\ Translate(r, p) \in Solid
             /\ Translate(r, p).x = r.x + p.x /\ Translate(r, p).y = r.y + p.y
  <2>1. r \in [x : Int, y : Int, width : Nat, height : Nat] /\ r.width > 0 /\ r.height > 0
    BY DEF Solid, Rect
  <2>2. Translate(r, p) = [x |-> r.x + p.x, y |-> r.y + p.y, width |-> r.width, height |-> r.height]
    BY <2>1 DEF Translate
  <2>3. r.x + p.x \in Int /\ r.y + p.y \in Int
    BY <1>1, <2>1
  <2> QED
    BY <2>1, <2>2, <2>3 DEF Solid, Rect
<1> DEFINE f == [r \in s |-> Translate(r, p)]
<1>3. f \in Surjection(s, T)
  BY DEF Surjection
<1> HIDE DEF f
<1>4. IsFiniteSet(T)
  BY <1>3, FS_Surjection
<1> QED
  BY <1>2, <1>4

\* What a machine covers has pixels, and its corner is its position plus the corner of
\* its screens in its own coordinates.
Corner(s) == [x |-> Min({r.x : r \in s}), y |-> Min({r.y : r \in s})]

LEMMA BoundsFacts ==
  ASSUME NEW s, IsFiniteSet(s), s # {}, s \subseteq Solid, NEW p \in Point
  PROVE  /\ Bounds(s, p) \in Solid /\ Corner(s) \in Point
         /\ Bounds(s, p).x = Corner(s).x + p.x /\ Bounds(s, p).y = Corner(s).y + p.y
<1> DEFINE T == {Translate(r, p) : r \in s}
<1>1. p.x \in Int /\ p.y \in Int
  BY DEF Point
<1>2. /\ IsFiniteSet(T) /\ T # {} /\ T \subseteq Solid
      /\ \A r \in s : Translate(r, p).x = r.x + p.x /\ Translate(r, p).y = r.y + p.y
  BY Translated
<1>3. \A r \in s : r.x \in Int /\ r.y \in Int
  BY SolidFacts
<1>4. Bounds(s, p) \in Solid
  BY <1>2, UnionSolid DEF Bounds
<1>5. Bounds(s, p).x = Min({q.x : q \in T}) /\ Bounds(s, p).y = Min({q.y : q \in T})
  BY DEF Bounds, Union
<1>6. Corner(s).x \in Int /\ Bounds(s, p).x = Corner(s).x + p.x
  <2> DEFINE f == [r \in s |-> r.x]
             g == [r \in s |-> r.x + p.x]
             F == {r.x : r \in s}
             G == {q.x : q \in T}
  <2>1. /\ f \in [s -> Int]
        /\ \A r \in s : f[r] \in F
        /\ \A t \in F : \E r \in s : t = f[r]
    BY <1>3
  <2>2. /\ g \in [s -> Int]
        /\ \A r \in s : g[r] \in G
        /\ \A t \in G : \E r \in s : t = g[r]
    BY <1>1, <1>2, <1>3
  <2>3. \A r \in s : g[r] = f[r] + p.x /\ f[r] \in Int
    BY <1>3
  <2>4. Corner(s).x = Min(F) /\ Bounds(s, p).x = Min(G)
    BY <1>5 DEF Corner
  <2> HIDE DEF f, g, F, G, T
  <2>5. /\ Min(F) \in Int /\ \E r \in s : Min(F) = f[r]
        /\ \A r \in s : Min(F) <= f[r]
    BY <2>1, MinMaxFacts
  <2>6. /\ Min(G) \in Int /\ \E r \in s : Min(G) = g[r]
        /\ \A r \in s : Min(G) <= g[r]
    BY <2>2, MinMaxFacts
  <2>7. Min(G) = Min(F) + p.x
    BY <1>1, <2>3, <2>5, <2>6
  <2> QED
    BY <2>4, <2>5, <2>7
<1>7. Corner(s).y \in Int /\ Bounds(s, p).y = Corner(s).y + p.y
  <2> DEFINE f == [r \in s |-> r.y]
             g == [r \in s |-> r.y + p.y]
             F == {r.y : r \in s}
             G == {q.y : q \in T}
  <2>1. /\ f \in [s -> Int]
        /\ \A r \in s : f[r] \in F
        /\ \A t \in F : \E r \in s : t = f[r]
    BY <1>3
  <2>2. /\ g \in [s -> Int]
        /\ \A r \in s : g[r] \in G
        /\ \A t \in G : \E r \in s : t = g[r]
    BY <1>1, <1>2, <1>3
  <2>3. \A r \in s : g[r] = f[r] + p.y /\ f[r] \in Int
    BY <1>3
  <2>4. Corner(s).y = Min(F) /\ Bounds(s, p).y = Min(G)
    BY <1>5 DEF Corner
  <2> HIDE DEF f, g, F, G, T
  <2>5. /\ Min(F) \in Int /\ \E r \in s : Min(F) = f[r]
        /\ \A r \in s : Min(F) <= f[r]
    BY <2>1, MinMaxFacts
  <2>6. /\ Min(G) \in Int /\ \E r \in s : Min(G) = g[r]
        /\ \A r \in s : Min(G) <= g[r]
    BY <2>2, MinMaxFacts
  <2>7. Min(G) = Min(F) + p.y
    BY <1>1, <2>3, <2>5, <2>6
  <2> QED
    BY <2>4, <2>5, <2>7
<1> HIDE DEF T
<1> QED
  BY <1>4, <1>6, <1>7 DEF Corner, Point

-----------------------------------------------------------------------------
(* The invariant *)

\* TypeOK, and that the screens are a function of the machines.
Inv == TypeOK /\ screens = [m \in Machine |-> screens[m]]

\* The desktop is made of rectangles with pixels.
LEMMA DesktopSolid ==
  ASSUME Inv
  PROVE  /\ Placed \subseteq Machine /\ IsFiniteSet(Placed) /\ Desktop \in [Placed -> Solid]
         /\ \A m \in Placed : /\ IsFiniteSet(screens[m]) /\ screens[m] # {}
                              /\ screens[m] \subseteq Solid
<1>1. Placed \subseteq Machine
  BY DEF Placed, Inv, TypeOK
<1>2. IsFiniteSet(Placed)
  BY <1>1, FS_Subset, DeskAssumption
<1>3. \A m \in Placed : screens[m] # {} /\ screens[m] \in Screens[m] /\ position[m] \in Point
  BY <1>1 DEF Placed, Inv, TypeOK
<1>4. \A m \in Placed : IsFiniteSet(screens[m]) /\ screens[m] \subseteq Solid
  BY <1>1, <1>3, DeskAssumption DEF Solid
<1>5. \A m \in Placed : Bounds(screens[m], position[m]) \in Solid
  BY <1>3, <1>4, BoundsFacts
<1> QED
  BY <1>1, <1>2, <1>3, <1>4, <1>5 DEF Desktop

LEMMA FreePositionIsPoint ==
  ASSUME Inv
  PROVE  FreePosition \in Point
<1>1. CASE Placed = {}
  BY <1>1 DEF FreePosition, Point
<1>2. CASE Placed # {}
  <2> DEFINE f == [m \in Placed |-> MaxX(Desktop[m])]
             T == {MaxX(Desktop[m]) : m \in Placed}
  <2>1. f \in [Placed -> Int]
    BY DesktopSolid, SolidFacts
  <2>2. (\A m \in Placed : f[m] \in T) /\ \A t \in T : \E m \in Placed : t = f[m]
    OBVIOUS
  <2> HIDE DEF f, T
  <2>3. Max(T) \in Int
    BY <1>2, <2>1, <2>2, DesktopSolid, MinMaxFacts
  <2> USE DEF T
  <2> QED
    BY <1>2, <2>3 DEF FreePosition, Point
<1> QED
  BY <1>1, <1>2

\* A record that may be written.
IsRecord(r) ==
  /\ r \in [machine : Machine, position : Point, screens : SUBSET Rect]
  /\ r.screens = {} \/ r.screens \in Screens[r.machine]

\* What the tasks hold is records, and a refresher holds one.
Held ==
  /\ \A r \in edits \cup reports : IsRecord(r) /\ (r \in reports => r.screens # {})
  /\ \A q, r \in reports : q.machine = r.machine => q = r

\* move_machine puts a machine on a point, by the screens of the record it writes.
LEMMA MovedFacts ==
  ASSUME NEW r, IsRecord(r), NEW c \in Corners
  PROVE  /\ IsRecord(Moved(r, c))
         /\ Moved(r, c).machine = r.machine /\ Moved(r, c).screens = r.screens
         /\ r.screens # {} => /\ Moved(r, c).position.x = c.x - Corner(r.screens).x
                              /\ Moved(r, c).position.y = c.y - Corner(r.screens).y
         /\ r.screens = {} => Moved(r, c).position = c
<1> DEFINE all == Bounds(r.screens, r.position)
           offset == IF r.screens = {} THEN Origin
                     ELSE [x |-> all.x - r.position.x, y |-> all.y - r.position.y]
<1>1. c \in Point /\ c.x \in Int /\ c.y \in Int /\ c = [x |-> c.x, y |-> c.y]
  BY DeskAssumption DEF Point
<1>2. r.position \in Point /\ r.position.x \in Int /\ r.position.y \in Int
  BY DEF IsRecord, Point
<1>3. r.screens # {} => /\ Corner(r.screens) \in Point
                        /\ offset.x = Corner(r.screens).x /\ offset.y = Corner(r.screens).y
  <2> SUFFICES ASSUME r.screens # {}
               PROVE  /\ Corner(r.screens) \in Point
                      /\ offset.x = Corner(r.screens).x /\ offset.y = Corner(r.screens).y
    OBVIOUS
  <2>1. IsFiniteSet(r.screens) /\ r.screens \subseteq Solid
    BY DeskAssumption DEF IsRecord, Solid
  <2>2. /\ Corner(r.screens) \in Point
        /\ all.x = Corner(r.screens).x + r.position.x
        /\ all.y = Corner(r.screens).y + r.position.y
    BY <1>2, <2>1, BoundsFacts
  <2>3. /\ offset.x = all.x - r.position.x
        /\ offset.y = all.y - r.position.y
    OBVIOUS
  <2>4. Corner(r.screens).x \in Int /\ Corner(r.screens).y \in Int
    BY <2>2 DEF Point
  <2> HIDE DEF offset, all
  <2> QED
    BY <1>2, <2>2, <2>3, <2>4
<1>4. r.screens = {} => offset.x = 0 /\ offset.y = 0
  BY DEF Origin
<1>5. Moved(r, c) = [r EXCEPT !.position = [x |-> c.x - offset.x, y |-> c.y - offset.y]]
  BY DEF Moved
<1> HIDE DEF offset, all
<1>6. offset.x \in Int /\ offset.y \in Int
  BY <1>3, <1>4 DEF Point
<1>7. [x |-> c.x - offset.x, y |-> c.y - offset.y] \in Point
  BY <1>1, <1>6 DEF Point
<1>8. /\ Moved(r, c).machine = r.machine /\ Moved(r, c).screens = r.screens
      /\ Moved(r, c).position = [x |-> c.x - offset.x, y |-> c.y - offset.y]
  BY <1>5 DEF IsRecord
<1>9. IsRecord(Moved(r, c))
  BY <1>5, <1>7, <1>8 DEF IsRecord
<1>10. r.screens = {} => Moved(r, c).position = c
  BY <1>1, <1>4, <1>8
<1> QED
  BY <1>3, <1>8, <1>9, <1>10

\* What a record holds that is read.
LEMMA ReadFacts ==
  ASSUME Inv, NEW m \in members
  PROVE  IsRecord(Record(m)) /\ Record(m).machine = m
<1>1. m \in Machine /\ position[m] \in Point /\ (screens[m] = {} \/ screens[m] \in Screens[m])
  BY DEF Inv, TypeOK
<1>2. screens[m] \subseteq Rect
  BY <1>1, DeskAssumption
<1> QED
  BY <1>1, <1>2 DEF Record, IsRecord

LEMMA InvParts == Inv => Held
<1> SUFFICES ASSUME Inv PROVE Held
  OBVIOUS
<1>1. \A r \in edits \cup reports :
        /\ r \in [machine : Machine, position : Point, screens : SUBSET Rect]
        /\ r.screens \in Screens[r.machine] \/ (r.screens = {} /\ r \notin reports)
  BY DEF Inv, TypeOK
<1>2. \A m \in Machine : {} \notin Screens[m]
  BY DeskAssumption
<1>3. \A r \in edits \cup reports : IsRecord(r)
  BY <1>1 DEF IsRecord
<1>4. \A r \in reports : r.screens # {}
  <2> TAKE r \in reports
  <2>1. r.machine \in Machine /\ r.screens \in Screens[r.machine]
    BY <1>1
  <2> QED
    BY <1>2, <2>1
<1>5. \A q, r \in reports : q.machine = r.machine => q = r
  BY DEF Inv, TypeOK
<1> QED
  BY <1>3, <1>4, <1>5 DEF Held

\* A record that is written leaves the document in order.
LEMMA UpsertKeeps ==
  ASSUME Inv, NEW r, IsRecord(r), Upsert(r), Held'
  PROVE  Inv'
<1>1. r.machine \in Machine /\ r.position \in Point
  BY DEF IsRecord
<1>2. members' \subseteq Machine /\ position' \in [Machine -> Point]
  BY <1>1 DEF Upsert, Inv, TypeOK
<1>3. screens' = [m \in Machine |-> IF m = r.machine THEN r.screens ELSE screens[m]]
  BY <1>1 DEF Upsert, Inv
<1>4. \A m \in Machine : screens'[m] = {} \/ screens'[m] \in Screens[m]
  BY <1>3 DEF Inv, TypeOK, IsRecord
<1>5. \A m \in Machine \ members' : screens'[m] = {} /\ position'[m] = Origin
  BY <1>3 DEF Upsert, Inv, TypeOK
<1>6. due' \subseteq Reporting
  BY DEF Upsert, Announced, Inv, TypeOK
<1>7. \A q \in edits' \cup reports' : q.screens \in Screens[q.machine] \/ (q.screens = {} /\ q \notin reports')
  BY DEF Held, IsRecord
<1>8. screens' = [m \in Machine |-> screens'[m]]
  BY <1>3
<1> QED
  BY <1>2, <1>4, <1>5, <1>6, <1>7, <1>8 DEF Inv, TypeOK, Held, IsRecord

\* A task that is between its halves holds a record, also after any step that takes
\* records away.
LEMMA FewerHeld ==
  ASSUME Held, edits' \subseteq edits, reports' \subseteq reports
  PROVE  Held'
BY DEF Held, IsRecord

LEMMA EditKeeps ==
  ASSUME Inv, NEW r \in edits, NEW with, IsRecord(with), Edit(r, with)
  PROVE  Inv'
<1>1. edits' \subseteq edits /\ reports' = reports /\ Upsert(with)
  BY DEF Edit
<1> QED
  BY <1>1, InvParts, FewerHeld, UpsertKeeps

LEMMA NextKeeps == Inv /\ [Next]_vars => Inv'
<1> SUFFICES ASSUME Inv, [Next]_vars PROVE Inv'
  OBVIOUS
<1>1. Origin \in Point /\ Held
  BY InvParts DEF Origin, Point
<1>2. ASSUME NEW m \in Machine, Pair(m) PROVE Inv'
  <2>1. edits' = edits /\ reports' = reports /\ due' \subseteq Reporting
    BY <1>2 DEF Pair, Announced, Inv, TypeOK
  <2> QED
    BY <1>2, <2>1, FreePositionIsPoint DEF Pair, Inv, TypeOK
<1>3. ASSUME NEW m \in Machine, Unpair(m) PROVE Inv'
  <2>1. edits' = edits /\ reports' = reports /\ due' \subseteq Reporting
    BY <1>3 DEF Unpair, Announced, Inv, TypeOK
  <2> QED
    BY <1>1, <1>3, <2>1 DEF Unpair, Inv, TypeOK
<1>4. ASSUME NEW m \in Machine, ReadRecord(m) PROVE Inv'
  <2>1. /\ m \in members /\ edits' = edits \cup {Record(m)}
        /\ UNCHANGED <<document, reports, due>>
    BY <1>4 DEF ReadRecord
  <2>2. Held'
    <3>1. Record(m) \in reports => Record(m).screens # {}
      BY <1>1 DEF Held
    <3> QED
      BY <1>1, <2>1, <3>1, ReadFacts DEF Held, IsRecord, document
  <2> QED
    BY <2>1, <2>2 DEF Inv, TypeOK, Held, IsRecord, document
<1>5. ASSUME NEW m \in Machine, NEW s \in Screens[m], PublishLocalFacts(m, s) PROVE Inv'
  <2>1. /\ due' \subseteq Reporting /\ edits' = edits
        /\ UNCHANGED document
    BY <1>5 DEF PublishLocalFacts, Inv, TypeOK
  <2>2. CASE reports' = reports
    BY <2>1, <2>2 DEF Inv, TypeOK, document
  <2>3. CASE reports' # reports
    <3> DEFINE q == [Record(m) EXCEPT !.screens = s]
    <3>1. m \in members /\ reports' = reports \cup {q} /\ \A r \in reports : r.machine # m
      BY <1>5, <2>3 DEF PublishLocalFacts
    <3>2. IsRecord(Record(m)) /\ Record(m).machine = m
      BY <3>1, ReadFacts
    <3>3. s # {} /\ s \subseteq Rect
      BY DeskAssumption
    <3>4. IsRecord(q) /\ q.machine = m /\ q.screens # {} /\ q.screens \in Screens[m]
      BY <3>2, <3>3 DEF IsRecord
    <3> HIDE DEF q
    <3>5. Held'
      BY <1>1, <2>1, <3>1, <3>4 DEF Held, IsRecord
    <3>6. \A r \in edits' \cup reports' :
            r.screens \in Screens[r.machine] \/ (r.screens = {} /\ r \notin reports')
      BY <3>5 DEF Held, IsRecord
    <3> QED
      BY <2>1, <3>5, <3>6 DEF Inv, TypeOK, Held, IsRecord, document
  <2> QED
    BY <2>2, <2>3
<1>6. ASSUME NEW m \in Machine, WriteFacts(m) PROVE Inv'
  <2>1. PICK r \in reports : reports' = reports \ {r} /\ Upsert(r) /\ edits' = edits
    BY <1>6 DEF WriteFacts
  <2>2. IsRecord(r) /\ Held'
    BY <1>1, <2>1, FewerHeld DEF Held
  <2> QED
    BY <2>1, <2>2, UpsertKeeps
<1>7. ASSUME NEW r \in edits, RenameMachine(r) PROVE Inv'
  BY <1>1, <1>7, EditKeeps DEF RenameMachine, Held
<1>8. ASSUME NEW r \in edits, NEW c \in Corners, MoveMachine(r, c) PROVE Inv'
  BY <1>1, <1>8, EditKeeps, MovedFacts DEF MoveMachine, Held
<1>9. CASE UNCHANGED vars
  BY <1>9 DEF vars, document, tasks, Inv, TypeOK
<1> QED
  BY <1>2, <1>3, <1>4, <1>5, <1>6, <1>7, <1>8, <1>9 DEF Next, Refresher

LEMMA InitHolds == Init => Inv
<1> SUFFICES ASSUME Init PROVE Inv
  OBVIOUS
<1>1. PICK s \in Screens[Founder] : screens = [m \in Machine |-> IF m = Founder THEN s ELSE {}]
  BY DEF Init
<1>2. Origin \in Point /\ Founder \in Machine
  BY DeskAssumption DEF Origin, Point
<1>3. screens = [m \in Machine |-> screens[m]]
  BY <1>1
<1>4. \A m \in Machine : screens[m] = {} \/ screens[m] \in Screens[m]
  BY <1>1
<1>5. \A m \in Machine \ {Founder} : screens[m] = {}
  BY <1>1
<1> QED
  BY <1>2, <1>3, <1>4, <1>5 DEF Init, Inv, TypeOK

LEMMA Inductive == Spec => []Inv
BY InitHolds, NextKeeps, PTL DEF Spec

-----------------------------------------------------------------------------
(* A walk over the desktop *)

\* No edge of any machine lies further out than the extent of the desk.
LEMMA ExtentBounds ==
  ASSUME NEW M, IsFiniteSet(M), M # {}, NEW desk \in [M -> Solid],
         NEW E, E = Extent(desk)
  PROVE  /\ E \in Nat
         /\ \A m \in M : /\ desk[m].x <= E /\ desk[m].x >= -E
                         /\ desk[m].y <= E /\ desk[m].y >= -E
                         /\ MaxX(desk[m]) <= E /\ MaxX(desk[m]) >= -E
                         /\ MaxY(desk[m]) <= E /\ MaxY(desk[m]) >= -E
<1> DEFINE Greater(a, b) == IF a >= b THEN a ELSE b
           f == [m \in M |-> Greater(Greater(Magnitude(desk[m].x), Magnitude(desk[m].y)),
                                     Greater(Magnitude(MaxX(desk[m])), Magnitude(MaxY(desk[m]))))]
           T == {f[m] : m \in M}
           U == UNION {{desk[m].x, desk[m].y, MaxX(desk[m]), MaxY(desk[m])} : m \in DOMAIN desk}
           V == {Magnitude(c) : c \in U}
<1>1. \A m \in M : /\ desk[m].x \in Int /\ desk[m].y \in Int
                   /\ MaxX(desk[m]) \in Int /\ MaxY(desk[m]) \in Int
  BY SolidFacts
<1>2. ASSUME NEW m \in M
      PROVE  /\ f[m] \in Int
             /\ f[m] >= Magnitude(desk[m].x) /\ f[m] >= Magnitude(desk[m].y)
             /\ f[m] >= Magnitude(MaxX(desk[m])) /\ f[m] >= Magnitude(MaxY(desk[m]))
             /\ \/ f[m] = Magnitude(desk[m].x) \/ f[m] = Magnitude(desk[m].y)
                \/ f[m] = Magnitude(MaxX(desk[m])) \/ f[m] = Magnitude(MaxY(desk[m]))
  <2>1. /\ Magnitude(desk[m].x) \in Int /\ Magnitude(desk[m].y) \in Int
        /\ Magnitude(MaxX(desk[m])) \in Int /\ Magnitude(MaxY(desk[m])) \in Int
    BY <1>1 DEF Magnitude
  <2> QED
    BY <2>1
<1>3. U = UNION {{desk[m].x, desk[m].y, MaxX(desk[m]), MaxY(desk[m])} : m \in M}
  OBVIOUS
<1>4. \A m \in M : f[m] \in V
  BY <1>2, <1>3
<1>5. \A v \in V : \E m \in M : f[m] >= v
  BY <1>2, <1>3
<1>6. f \in [M -> Int] /\ (\A m \in M : f[m] \in T) /\ \A t \in T : \E m \in M : t = f[m]
  BY <1>2
<1>7. E = CHOOSE x \in V : \A y \in V : x >= y
  BY DEF Extent, Max
<1> HIDE DEF f, T, U, V
<1>8. PICK top \in M : Max(T) = f[top] /\ \A m \in M : f[top] >= f[m]
  BY <1>6, MinMaxFacts
<1>9. \A v \in V : f[top] >= v
  <2> SUFFICES ASSUME NEW v \in V PROVE f[top] >= v
    OBVIOUS
  <2>1. PICK m \in M : f[m] >= v
    BY <1>5
  <2>2. v \in Int
    BY <1>1, <1>3 DEF V, Magnitude
  <2> QED
    BY <1>2, <1>8, <2>1, <2>2
<1>10. E \in V /\ \A v \in V : E >= v
  BY <1>4, <1>7, <1>9
<1>11. \A m \in M : /\ Magnitude(desk[m].x) \in V /\ Magnitude(desk[m].y) \in V
                    /\ Magnitude(MaxX(desk[m])) \in V /\ Magnitude(MaxY(desk[m])) \in V
  BY <1>3 DEF V
<1>12. E \in Nat
  <2>1. PICK c \in U : E = Magnitude(c)
    BY <1>10 DEF V
  <2>2. c \in Int
    BY <1>1, <1>3
  <2> QED
    BY <2>1, <2>2 DEF Magnitude
<1> QED
  <2> SUFFICES ASSUME NEW m \in M
               PROVE  /\ desk[m].x <= E /\ desk[m].x >= -E
                      /\ desk[m].y <= E /\ desk[m].y >= -E
                      /\ MaxX(desk[m]) <= E /\ MaxX(desk[m]) >= -E
                      /\ MaxY(desk[m]) <= E /\ MaxY(desk[m]) >= -E
    BY <1>12
  <2>1. /\ E >= Magnitude(desk[m].x) /\ E >= Magnitude(desk[m].y)
        /\ E >= Magnitude(MaxX(desk[m])) /\ E >= Magnitude(MaxY(desk[m]))
    BY <1>10, <1>11
  <2> QED
    BY <1>1, <1>12, <2>1 DEF Magnitude

\* Twice the extent and one pixel more is enough to meet whatever lies ahead.
LEMMA WalkIsLongEnough ==
  ASSUME NEW M, IsFiniteSet(M), NEW desk \in [M -> Solid], NEW current \in M, NEW m \in M,
         NEW q \in Point, NEW d \in Direction, Contains(desk[current], q), Ahead(desk[m], q, d)
  PROVE  Entering(desk[m], q, d) <= 2 * Extent(desk) + 1 /\ 2 * Extent(desk) + 1 \in Nat
<1>1. PICK E : E = Extent(desk)
  OBVIOUS
<1>2. /\ E \in Nat
      /\ \A n \in M : /\ desk[n].x <= E /\ desk[n].x >= -E
                      /\ desk[n].y <= E /\ desk[n].y >= -E
                      /\ MaxX(desk[n]) <= E /\ MaxX(desk[n]) >= -E
                      /\ MaxY(desk[n]) <= E /\ MaxY(desk[n]) >= -E
  BY <1>1, ExtentBounds
<1>3. \A n \in M : /\ desk[n].x \in Int /\ desk[n].y \in Int
                   /\ MaxX(desk[n]) \in Int /\ MaxY(desk[n]) \in Int
  BY SolidFacts
<1>4. q.x \in Int /\ q.y \in Int
  BY DEF Point
<1>5. /\ q.x >= desk[current].x /\ q.x < MaxX(desk[current])
      /\ q.y >= desk[current].y /\ q.y < MaxY(desk[current])
  BY DEF Contains
<1>6. /\ d = "Right" => Entering(desk[m], q, d) = desk[m].x - q.x
      /\ d = "Left" => Entering(desk[m], q, d) = q.x - MaxX(desk[m]) + 1
      /\ d = "Down" => Entering(desk[m], q, d) = desk[m].y - q.y
      /\ d = "Up" => Entering(desk[m], q, d) = q.y - MaxY(desk[m]) + 1
  BY DEF Entering, Distance
<1>7. Entering(desk[m], q, d) <= 2 * E + 1
  <2>1. CASE d = "Right"
    BY <1>2, <1>3, <1>4, <1>5, <1>6, <2>1
  <2>2. CASE d = "Left"
    BY <1>2, <1>3, <1>4, <1>5, <1>6, <2>2
  <2>3. CASE d = "Down"
    BY <1>2, <1>3, <1>4, <1>5, <1>6, <2>3
  <2>4. CASE d = "Up"
    BY <1>2, <1>3, <1>4, <1>5, <1>6, <2>4
  <2> QED
    BY <2>1, <2>2, <2>3, <2>4 DEF Direction
<1> QED
  BY <1>1, <1>2, <1>7

\* Of machines that do not overlap and lie ahead, the one a walk meets first comes first
\* in the order of the candidates, and it alone does.
LEMMA FirstIsMetFirst ==
  ASSUME NEW M \in SUBSET Nat, NEW desk \in [M -> Solid],
         \A m, n \in M : m # n => Disjoint(desk[m], desk[n]),
         NEW q \in Point, NEW d \in Direction,
         NEW T \in SUBSET M, \A m \in T : Covers(desk[m], q, d) /\ Ahead(desk[m], q, d),
         NEW m \in T, \A n \in T : Entering(desk[m], q, d) <= Entering(desk[n], q, d),
         NEW n \in T
  PROVE  First(desk, T, q, d, n) <=> n = m
<1>1. \A o \in T : /\ Entering(desk[o], q, d) \in Nat \ {0}
                   /\ Contains(desk[o], Along(q, d, Entering(desk[o], q, d)))
                   /\ Along(q, d, Entering(desk[o], q, d)) = EntryPoint(desk[o], q, d)
  BY WalkMeetsAhead
<1>2. \A o \in T : Distance(desk[o], q, d) \in Int
  <2>1. \A o \in T : /\ desk[o].x \in Int /\ desk[o].y \in Int
                     /\ MaxX(desk[o]) \in Int /\ MaxY(desk[o]) \in Int
    BY SolidFacts
  <2>2. q.x \in Int /\ q.y \in Int
    BY DEF Point
  <2> QED
    BY <2>1, <2>2 DEF Distance, Direction
<1>3. ASSUME NEW o \in T, o # m
      PROVE  Distance(desk[m], q, d) < Distance(desk[o], q, d)
  <2>1. Entering(desk[m], q, d) # Entering(desk[o], q, d)
    <3> SUFFICES ASSUME Entering(desk[m], q, d) = Entering(desk[o], q, d) PROVE FALSE
      OBVIOUS
    <3> DEFINE p == Along(q, d, Entering(desk[m], q, d))
    <3>1. Contains(desk[m], p) /\ Contains(desk[o], p)
      BY <1>1
    <3>2. p \in Point
      BY <1>1, EntryFacts
    <3>3. p.x \in Int /\ p.y \in Int
      BY <3>2 DEF Point
    <3> HIDE DEF p
    <3>4. Disjoint(desk[m], desk[o])
      BY <1>3
    <3> QED
      BY <3>1, <3>3, <3>4, OneUnderAPixel
  <2>2. Entering(desk[m], q, d) < Entering(desk[o], q, d)
    BY <1>1, <2>1
  <2> QED
    BY <1>2, <2>2 DEF Entering
<1>4. First(desk, T, q, d, m)
  <2>1. m <= m
    OBVIOUS
  <2> QED
    BY <1>3, <2>1 DEF First
<1>5. ASSUME First(desk, T, q, d, n), n # m PROVE FALSE
  <2>1. Distance(desk[n], q, d) < Distance(desk[m], q, d)
        \/ Distance(desk[n], q, d) = Distance(desk[m], q, d)
    BY <1>5 DEF First
  <2> QED
    BY <1>2, <1>3, <1>5, <2>1
<1> QED
  BY <1>4, <1>5

\* What RoutedLikeAWalk says of one push of the pointer.
LikeAWalk(M, desk, on, mode, current, exit, d, to) ==
  LET stops == IF mode = "Block" THEN M ELSE on
      met == {k \in 1 .. (2 * Extent(desk) + 1) :
                MetAt(desk, exit, d, k) \cap (stops \ {current}) # {}}
      there == MetAt(desk, exit, d, Min(met))
  IN  IF met = {} \/ there \cap on = {} THEN to = At(current, exit)
      ELSE to.machine \in there /\ to.point = Along(exit, d, Min(met))

\* For every layout without overlap the pointer goes where a walk would take it.
LEMMA RouteIsAWalk ==
  ASSUME NEW M \in SUBSET Nat, IsFiniteSet(M), NEW desk \in [M -> Solid],
         \A m, n \in M : m # n => Disjoint(desk[m], desk[n]),
         NEW on, NEW mode, NEW current \in M,
         NEW target \in Point, ~Contains(desk[current], target),
         NEW exit, exit = Clamp(desk[current], target),
         NEW d, d = DirectionOf(exit, target),
         NEW to, to = ResolveCursor(desk, on, mode, current, target)
  PROVE  LikeAWalk(M, desk, on, mode, current, exit, d, to)
<1> DEFINE stops == IF mode = "Block" THEN M ELSE on
           met == {k \in 1 .. (2 * Extent(desk) + 1) :
                     MetAt(desk, exit, d, k) \cap (stops \ {current}) # {}}
           there == MetAt(desk, exit, d, Min(met))
<1> SUFFICES IF met = {} \/ there \cap on = {} THEN to = At(current, exit)
             ELSE to.machine \in there /\ to.point = Along(exit, d, Min(met))
  BY DEF LikeAWalk
<1> DEFINE S == CandidatesAlong(desk, current, exit, d)
           T == IF mode = "Block" THEN S ELSE S \cap on
           chosen == Chosen(desk, on, mode, S, exit, d)
<1>1. /\ exit # target /\ d \in Direction /\ exit \in Point /\ Contains(desk[current], exit)
      /\ exit.x \in Int /\ exit.y \in Int
  BY ExitFacts, ClampFacts DEF Point
<1>2. /\ S \subseteq M \ {current} /\ T \subseteq S
      /\ \A m \in T : Covers(desk[m], exit, d) /\ Ahead(desk[m], exit, d)
      /\ \A m \in M \ {current} : m \in stops /\ Covers(desk[m], exit, d) /\ Ahead(desk[m], exit, d)
                                    => m \in T
      /\ T \subseteq stops
  BY DEF CandidatesAlong
<1>3. chosen = {m \in T : First(desk, T, exit, d, m) /\ m \in on}
  BY DEF Chosen
<1>4. /\ chosen = {} => to = At(current, exit)
      /\ \A m : chosen = {m} => to = At(m, EntryPoint(desk[m], exit, d))
  <2>1. to = IF chosen = {} THEN At(current, exit)
             ELSE LET m == CHOOSE n \in chosen : TRUE
                  IN  At(m, EntryPoint(desk[m], exit, d))
    BY <1>1 DEF ResolveCursor
  <2> HIDE DEF chosen
  <2>2. ASSUME NEW m, chosen = {m} PROVE (CHOOSE n \in chosen : TRUE) = m
    BY <2>2
  <2> QED
    BY <2>1, <2>2
<1> HIDE DEF chosen, T, S
<1>5. \A m \in T : /\ Entering(desk[m], exit, d) \in Nat \ {0}
                   /\ Along(exit, d, Entering(desk[m], exit, d)) = EntryPoint(desk[m], exit, d)
                   /\ Contains(desk[m], Along(exit, d, Entering(desk[m], exit, d)))
  BY <1>1, <1>2, WalkMeetsAhead
<1>6. ASSUME NEW m \in T PROVE Entering(desk[m], exit, d) \in met
  <2>1. m \in M /\ m # current /\ Ahead(desk[m], exit, d)
    BY <1>2
  <2>2. /\ Entering(desk[m], exit, d) <= 2 * Extent(desk) + 1
        /\ 2 * Extent(desk) + 1 \in Nat
    BY <1>1, <2>1, WalkIsLongEnough
  <2>3. Entering(desk[m], exit, d) \in 1 .. (2 * Extent(desk) + 1)
    BY <1>5, <2>2
  <2>4. m \in MetAt(desk, exit, d, Entering(desk[m], exit, d))
    BY <1>5, <2>1 DEF MetAt
  <2> QED
    BY <1>2, <2>1, <2>3, <2>4
<1>7. ASSUME NEW k \in met
      PROVE  k \in Int /\ \E m \in T : Entering(desk[m], exit, d) <= k
  <2>1. PICK m \in M : m \in stops /\ m # current /\ Contains(desk[m], Along(exit, d, k))
    BY DEF MetAt
  <2>2. k \in 1 .. (2 * Extent(desk) + 1)
    OBVIOUS
  <2>3. k \in Nat \ {0}
    <3>1. \A b : k \in 1 .. b => k \in Int /\ k >= 1
      OBVIOUS
    <3> QED
      BY <2>2, <3>1
  <2>4. Disjoint(desk[current], desk[m])
    BY <2>1
  <2>5. /\ Covers(desk[m], exit, d) /\ Ahead(desk[m], exit, d)
        /\ Entering(desk[m], exit, d) <= k
    BY <1>1, <2>1, <2>3, <2>4, WalkMeetsOnlyAhead
  <2> QED
    BY <1>2, <2>1, <2>3, <2>5
<1>8. CASE T = {}
  <2>1. met = {} /\ chosen = {}
    BY <1>3, <1>7, <1>8
  <2> QED
    BY <1>4, <2>1
<1>9. CASE T # {}
  <2>1. PICK m \in T : \A n \in T : Entering(desk[m], exit, d) <= Entering(desk[n], exit, d)
    <3> DEFINE f == [n \in T |-> Entering(desk[n], exit, d)]
    <3>1. f \in [T -> Int]
      BY <1>5
    <3>2. IsFiniteSet(T)
      BY <1>2, FS_Subset
    <3>3. PICK n \in T : \A o \in T : f[n] <= f[o]
      BY <1>9, <3>1, <3>2, FiniteHasLeast
    <3> QED
      BY <3>3
  <2> DEFINE k == Entering(desk[m], exit, d)
  <2>2. k \in met /\ k \in Int /\ \A j \in met : k <= j
    <3>1. ASSUME NEW j \in met PROVE k <= j
      <4>1. PICK n \in T : Entering(desk[n], exit, d) <= j
        BY <1>7
      <4>2. k <= Entering(desk[n], exit, d) /\ k \in Int /\ Entering(desk[n], exit, d) \in Int
        BY <1>5, <2>1
      <4>3. j \in Int
        BY <1>7
      <4> QED
        BY <4>1, <4>2, <4>3
    <3> QED
      BY <1>5, <1>6, <3>1
  <2>3. Min(met) = k
    <3> HIDE DEF k
    <3>1. Min(met) \in met /\ \A j \in met : Min(met) <= j
      BY <2>2 DEF Min
    <3>2. Min(met) \in Int
      BY <1>7, <3>1
    <3> QED
      BY <2>2, <3>1, <3>2
  <2>4. there = {m}
    <3> DEFINE p == Along(exit, d, k)
    <3>1. there = {n \in M : Contains(desk[n], p)}
      BY <2>3 DEF MetAt
    <3>2. Contains(desk[m], p) /\ m \in M /\ desk[m] \in Solid
      BY <1>2, <1>5
    <3>3. p.x \in Int /\ p.y \in Int
      <4>1. p = EntryPoint(desk[m], exit, d)
        BY <1>5
      <4>2. Covers(desk[m], exit, d)
        BY <1>2
      <4> HIDE DEF p
      <4>3. p \in Point
        BY <1>1, <3>2, <4>1, <4>2, EntryFacts
      <4> QED
        BY <4>3 DEF Point
    <3> HIDE DEF p, k
    <3>4. ASSUME NEW n \in M, Contains(desk[n], p), n # m PROVE FALSE
      BY <3>2, <3>3, <3>4, OneUnderAPixel
    <3> QED
      BY <3>1, <3>2, <3>4
  <2> HIDE DEF met, there, stops, k
  <2>5. \A n \in T : First(desk, T, exit, d, n) <=> n = m
    <3>1. T \in SUBSET M
      BY <1>2
    <3> QED
      BY <1>1, <1>2, <2>1, <3>1, FirstIsMetFirst
  <2>6. chosen = IF m \in on THEN {m} ELSE {}
    BY <1>3, <2>5
  <2>7. met # {} /\ (there \cap on = {} <=> m \notin on)
    BY <2>2, <2>4
  <2>8. CASE m \in on
    <3>1. to = At(m, EntryPoint(desk[m], exit, d))
      BY <1>4, <2>6, <2>8
    <3>2. to.machine = m /\ to.point = Along(exit, d, k)
      BY <1>5, <3>1 DEF At, k
    <3> QED
      BY <2>3, <2>4, <2>7, <2>8, <3>2
  <2>9. CASE m \notin on
    BY <1>4, <2>6, <2>7, <2>9
  <2> QED
    BY <2>8, <2>9
<1> QED
  BY <1>8, <1>9

\* Where the pointer is pushed to.
LEMMA OutsideFacts ==
  ASSUME NEW r \in Solid, NEW target \in Outside(r)
  PROVE  target \in Point /\ ~Contains(r, target)
<1>1. \A lo, hi : lo .. hi \subseteq Int
  OBVIOUS
<1>2. \A A, B : A \subseteq Int /\ B \subseteq Int => [x : A, y : B] \subseteq Point
  BY DEF Point
<1> QED
  BY <1>1, <1>2 DEF Outside

-----------------------------------------------------------------------------
(* Theorems *)

\* For any machines and screens: only a machine of the document has a place and
\* screens, and its place is a point, whatever is paired, unpaired, reported and
\* dragged in whatever order (pair, unpair, publish_local_facts, move_machine).
THEOREM DeskTypeCorrect == Spec => []TypeOK
<1>1. Inv => TypeOK
  BY DEF Inv
<1> QED
  BY <1>1, Inductive, PTL

\* On every desk that can come about and has no two machines on top of each other, one
\* pixel back returns the pointer to the machine and the pixel it left, however far it
\* was pushed out and whatever machines are online, also while tasks are between reading
\* a record and writing it (resolve_cursor over positions and screens as the app keeps
\* them).
THEOREM CrossingsReturn == Spec => [](ReturnsAlways /\ CrossingReturns)
<1>1. Inv => ReturnsAlways
  <2> SUFFICES ASSUME Inv, NoOverlap, NEW current \in Placed,
                      NEW target \in Outside(Desktop[current]),
                      NEW others \in SUBSET (Placed \ {current}),
                      NEW edge \in {"Block", "SkipOver"}
               PROVE  LET online == others \cup {current}
                          exit == Clamp(Desktop[current], target)
                          d == DirectionOf(exit, target)
                          to == ResolveCursor(Desktop, online, edge, current, target)
                          back == Along(to.point, d, -1)
                      IN  to.machine # current =>
                            ResolveCursor(Desktop, online, edge, to.machine, back)
                              = At(current, exit)
    BY DEF ReturnsAlways
  <2>1. Placed \in SUBSET Nat /\ Desktop \in [Placed -> Solid]
    BY DesktopSolid, DeskAssumption
  <2>2. target \in Point
    BY <2>1, OutsideFacts
  <2>3. \A m, n \in Placed : m # n => Disjoint(Desktop[m], Desktop[n])
    BY DEF NoOverlap
  <2> DEFINE online == others \cup {current}
             exit == Clamp(Desktop[current], target)
             d == DirectionOf(exit, target)
             to == ResolveCursor(Desktop, online, edge, current, target)
  <2>4. PICK e : e = exit
    OBVIOUS
  <2>5. PICK w : w = DirectionOf(e, target)
    OBVIOUS
  <2>6. PICK there : there = to
    OBVIOUS
  <2>7. PICK l \in [Placed -> Solid] : l = Desktop
    BY <2>1
  <2>8. there.machine # current =>
          ResolveCursor(l, online, edge, there.machine, Along(there.point, w, -1)) = At(current, e)
    <3>1. current \in Placed /\ current \in online
      OBVIOUS
    <3>2. \A m, n \in Placed : m # n => Disjoint(l[m], l[n])
      BY <2>3, <2>7
    <3>3. /\ e = Clamp(l[current], target)
          /\ there = ResolveCursor(l, online, edge, current, target)
      BY <2>4, <2>6, <2>7
    <3>4. /\ Placed \in SUBSET Nat /\ l \in [Placed -> Solid]
          /\ w = DirectionOf(e, target)
      BY <2>1, <2>5
    <3>5. SUFFICES ASSUME there.machine # current
                   PROVE  ResolveCursor(l, online, edge, there.machine, Along(there.point, w, -1))
                            = At(current, e)
      OBVIOUS
    <3> HIDE DEF online, exit, d, to
    <3> QED
      BY ONLY <2>2, <3>1, <3>2, <3>3, <3>4, <3>5, CrossingCanBeTakenBack
  <2> QED
    BY <2>4, <2>5, <2>6, <2>7, <2>8
<1>2. ReturnsAlways => CrossingReturns
  BY DEF CrossingReturns
<1> QED
  BY <1>1, <1>2, Inductive, PTL

\* Requirement 8 on every desk that can come about and has no two machines on top of
\* each other, whatever machines are online: the pointer goes to the machine it would
\* run into one pixel after the other, stops where an offline one is in the way under
\* Block, passes over it under SkipOver, and never ends on one that is offline
\* (resolve_cursor).  It holds while tasks are between their halves too.
THEOREM RoutesLikeAWalk == Spec => [](RoutedAlways /\ RoutedLikeAWalk)
<1>1. Inv => RoutedAlways
  <2> SUFFICES ASSUME Inv, NoOverlap, NEW current \in Placed,
                      NEW target \in Outside(Desktop[current]),
                      NEW online \in SUBSET Placed, NEW edge \in {"Block", "SkipOver"}
               PROVE  LET exit == Clamp(Desktop[current], target)
                          d == DirectionOf(exit, target)
                      IN  EndsLikeTheWalk(ResolveCursor(Desktop, online, edge, current, target),
                                          Underneath(Desktop, exit, d),
                                          online, edge, current, exit, d)
    BY DEF RoutedAlways
  <2>1. Placed \in SUBSET Nat /\ IsFiniteSet(Placed) /\ Desktop \in [Placed -> Solid]
    BY DesktopSolid, DeskAssumption
  <2>2. target \in Point /\ ~Contains(Desktop[current], target)
    BY <2>1, OutsideFacts
  <2>3. \A m, n \in Placed : m # n => Disjoint(Desktop[m], Desktop[n])
    BY DEF NoOverlap
  <2> DEFINE exit == Clamp(Desktop[current], target)
             d == DirectionOf(exit, target)
             to == ResolveCursor(Desktop, online, edge, current, target)
             walk == 1 .. (2 * Extent(Desktop) + 1)
             under == [k \in walk |-> MetAt(Desktop, exit, d, k)]
             stops == IF edge = "Block" THEN Placed ELSE online
             met == {k \in DOMAIN under : under[k] \cap (stops \ {current}) # {}}
             onWay == {k \in walk : MetAt(Desktop, exit, d, k) \cap (stops \ {current}) # {}}
  <2>4. LikeAWalk(Placed, Desktop, online, edge, current, exit, d, to)
    <3>1. PICK e : e = exit
      OBVIOUS
    <3>2. PICK w : w = DirectionOf(e, target)
      OBVIOUS
    <3>3. PICK r : r = to
      OBVIOUS
    <3>4. LikeAWalk(Placed, Desktop, online, edge, current, e, w, r)
      BY <2>1, <2>2, <2>3, <3>1, <3>2, <3>3, RouteIsAWalk
    <3> QED
      BY <3>1, <3>2, <3>3, <3>4
  <2>5. IF onWay = {} \/ MetAt(Desktop, exit, d, Min(onWay)) \cap online = {}
        THEN to = At(current, exit)
        ELSE /\ to.machine \in MetAt(Desktop, exit, d, Min(onWay))
             /\ to.point = Along(exit, d, Min(onWay))
    BY <2>4 DEF LikeAWalk
  <2>6. met = onWay
    OBVIOUS
  <2>7. onWay # {} => Min(onWay) \in walk
    <3>1. Extent(Desktop) \in Nat
      BY <2>1, ExtentBounds
    <3>2. onWay \subseteq walk /\ walk \subseteq Int /\ IsFiniteSet(walk)
      BY <3>1, FS_Interval
    <3> DEFINE same == [k \in onWay |-> k]
    <3> HIDE DEF onWay, walk
    <3>3. IsFiniteSet(onWay) /\ same \in [onWay -> Int] /\ \A k \in onWay : same[k] = k
      BY <3>2, FS_Subset
    <3> HIDE DEF same
    <3>4. onWay # {} => \E k \in onWay : Min(onWay) = same[k]
      BY <3>3, MinMaxFacts
    <3> QED
      BY <3>2, <3>3, <3>4
  <2>8. onWay # {} => under[Min(met)] = MetAt(Desktop, exit, d, Min(onWay))
    <3> HIDE DEF exit, d
    <3> QED
      BY <2>6, <2>7
  <2> HIDE DEF onWay, met, under, exit, d, to
  <2>9. IF met = {} \/ under[Min(met)] \cap online = {} THEN to = At(current, exit)
        ELSE to.machine \in under[Min(met)] /\ to.point = Along(exit, d, Min(met))
    BY <2>5, <2>6, <2>8
  <2> QED
    BY <2>9 DEF EndsLikeTheWalk, Underneath, met, under, walk, stops, exit, d, to
<1>2. RoutedAlways => RoutedLikeAWalk
  BY DEF RoutedLikeAWalk
<1> QED
  BY <1>1, <1>2, Inductive, PTL

\* Whatever screens a machine has reported since its card was picked up, the card shows
\* where it was dropped, and a card that jumps without having been dropped goes back to
\* an earlier record of its machine that some task had read (move_machine, edit_machine,
\* publish_local_facts); for any number of edits between their halves.
THEOREM CardsLandWhereDropped == Spec => DropsWhereAsked
<1> DEFINE AsAsked(m) ==
             \/ Record(m)' \in edits \cup reports
             \/ \E c \in Corners : IF screens'[m] = {} THEN position'[m] = c
                                  ELSE Desktop'[m].x = c.x /\ Desktop'[m].y = c.y
<1>1. ASSUME Inv, NEW r, IsRecord(r), Upsert(r)
      PROVE  /\ \A m \in Machine \ {r.machine} : position'[m] = position[m]
             /\ position'[r.machine] = r.position /\ screens'[r.machine] = r.screens
             /\ r.machine \in members' /\ Record(r.machine)' = r
  <2>1. r.machine \in Machine /\ DOMAIN screens = Machine /\ DOMAIN position = Machine
    BY <1>1 DEF Inv, TypeOK, IsRecord
  <2>2. /\ \A m \in Machine \ {r.machine} : position'[m] = position[m]
        /\ position'[r.machine] = r.position /\ screens'[r.machine] = r.screens
        /\ r.machine \in members'
    BY <1>1, <2>1 DEF Upsert
  <2>3. r = [machine |-> r.machine, position |-> r.position, screens |-> r.screens]
    BY <1>1 DEF IsRecord
  <2> QED
    BY <2>2, <2>3 DEF Record
<1>2. ASSUME Inv, Inv', NEW r \in edits, NEW c \in Corners, MoveMachine(r, c),
             NEW m \in Machine, position'[m] # position[m]
      PROVE  AsAsked(m)
  <2>1. IsRecord(r) /\ Upsert(Moved(r, c))
    BY <1>2, InvParts DEF Held, MoveMachine, Edit
  <2>2. /\ IsRecord(Moved(r, c))
        /\ Moved(r, c).machine = r.machine /\ Moved(r, c).screens = r.screens
        /\ r.screens # {} => /\ Moved(r, c).position.x = c.x - Corner(r.screens).x
                             /\ Moved(r, c).position.y = c.y - Corner(r.screens).y
        /\ r.screens = {} => Moved(r, c).position = c
    BY <2>1, MovedFacts
  <2>3. /\ m = r.machine /\ position'[m] = Moved(r, c).position
        /\ screens'[m] = r.screens /\ m \in members'
    BY <1>1, <1>2, <2>1, <2>2
  <2>4. CASE screens'[m] = {}
    BY <2>2, <2>3, <2>4
  <2>5. CASE screens'[m] # {}
    <3>1. /\ position'[m].x = c.x - Corner(screens'[m]).x
          /\ position'[m].y = c.y - Corner(screens'[m]).y
      BY <2>2, <2>3, <2>5
    <3>2. position'[m] \in Point /\ IsFiniteSet(screens'[m]) /\ screens'[m] \subseteq Solid
      BY <2>1, <2>2, <2>3, <2>5, DeskAssumption DEF IsRecord, Solid
    <3>3. /\ Corner(screens'[m]) \in Point
          /\ Bounds(screens'[m], position'[m]).x = Corner(screens'[m]).x + position'[m].x
          /\ Bounds(screens'[m], position'[m]).y = Corner(screens'[m]).y + position'[m].y
      BY <2>5, <3>2, BoundsFacts
    <3>4. Desktop'[m] = Bounds(screens'[m], position'[m])
      BY <2>3, <2>5 DEF Desktop, Placed
    <3>5. c.x \in Int /\ c.y \in Int
      BY DeskAssumption DEF Point
    <3>6. Corner(screens'[m]).x \in Int /\ Corner(screens'[m]).y \in Int
      BY <3>3 DEF Point
    <3>7. Desktop'[m].x = c.x /\ Desktop'[m].y = c.y
      BY <3>1, <3>3, <3>4, <3>5, <3>6
    <3> QED
      BY <2>5, <3>7
  <2> QED
    BY <2>4, <2>5
<1>3. ASSUME Inv, Inv', [Next]_vars, NEW m \in Machine, position'[m] # position[m],
             m \in members, m \in members'
      PROVE  AsAsked(m)
  <2>1. ~ UNCHANGED position
    BY <1>3
  <2>2. ASSUME NEW k \in Machine, Pair(k) PROVE FALSE
    BY <1>3, <2>2 DEF Pair, Inv, TypeOK
  <2>3. ASSUME NEW k \in Machine, Unpair(k) PROVE FALSE
    BY <1>3, <2>3 DEF Unpair, Inv, TypeOK
  <2>4. ASSUME NEW k \in Machine, ReadRecord(k) \/ \E s \in Screens[k] : PublishLocalFacts(k, s)
        PROVE  FALSE
    BY <2>1, <2>4 DEF ReadRecord, PublishLocalFacts, document
  <2>5. ASSUME NEW k \in Machine, WriteFacts(k) PROVE AsAsked(m)
    <3>1. PICK r \in reports : Upsert(r)
      BY <2>5 DEF WriteFacts
    <3>2. IsRecord(r)
      BY <1>3, InvParts DEF Held
    <3>3. m = r.machine /\ Record(m)' = r
      BY <1>1, <1>3, <3>1, <3>2
    <3> QED
      BY <3>3
  <2>6. ASSUME NEW r \in edits, RenameMachine(r) PROVE AsAsked(m)
    <3>1. IsRecord(r) /\ Upsert(r)
      BY <1>3, <2>6, InvParts DEF Held, RenameMachine, Edit
    <3>2. m = r.machine /\ Record(m)' = r
      BY <1>1, <1>3, <3>1
    <3> QED
      BY <3>2
  <2>7. ASSUME NEW r \in edits, NEW c \in Corners, MoveMachine(r, c) PROVE AsAsked(m)
    BY <1>2, <1>3, <2>7
  <2>8. ~ UNCHANGED vars
    BY <2>1 DEF vars, document
  <2> QED
    BY <1>3, <2>2, <2>3, <2>4, <2>5, <2>6, <2>7, <2>8 DEF Next, Refresher
<1>4. Inv /\ Inv' /\ [Next]_vars =>
        [\A m \in Machine : position'[m] # position[m] /\ m \in members \cap members'
           => \/ Record(m)' \in edits \cup reports
              \/ \E c \in Corners :
                   IF screens'[m] = {} THEN position'[m] = c
                   ELSE Desktop'[m].x = c.x /\ Desktop'[m].y = c.y]_vars
  BY <1>3
<1> QED
  BY <1>4, Inductive, PTL DEF Spec, DropsWhereAsked
=============================================================================
