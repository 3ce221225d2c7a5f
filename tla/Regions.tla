------------------------------ MODULE Regions ------------------------------
(***************************************************************************)
(* Extents, regions and bounding boxes: a box and a region that grow over  *)
(* the points they are shown, and the walk over the points of the region.  *)
(* Elements are signed integers that stay where they cannot wrap.          *)
(***************************************************************************)
EXTENDS Coord

CONSTANTS Points,      \* the points a box may be shown
          Boxes,       \* regions that the grown one is compared with
          Offsets,     \* vectors to move and margins to grow by
          MaxSeen,     \* bound on the points shown
          MaxMoves     \* bound on the moves

\* A point has at least one axis, and the extents of a region are not negative.
ASSUME RegionsAssumption ==
    /\ Points \subseteq Seq(Int) \ {<<>>} /\ Offsets \subseteq Seq(Int)
    /\ Boxes \subseteq [p : Seq(Int), e : Seq(Int)]
    /\ \A s \in Boxes : Len(s.e) = Len(s.p) /\ \A i \in DOMAIN s.e : s.e[i] >= 0

VARIABLES box,         \* aabb: p0, p1
          area,        \* region: p, e
          reach,       \* range of the first element: lo, hi
          seen,        \* the points shown, moved with the box
          moves,
          inner,       \* the extent_range iterator of a walk, or Resting
          visited      \* what the walk has yielded

regionVars == <<box, area, reach, seen, moves, inner, visited>>

Resting == [cursor |-> <<>>, target |-> <<>>]

-----------------------------------------------------------------------------
(* extent.                                                                 *)

ExtentOf(v) == [i \in DOMAIN v |-> IF v[i] < 0 THEN -v[i] ELSE v[i]]
extent_area(e) == product(e)
extent_empty(e) == extent_area(e) = 0
expanded(e, mag) == Plus(e, mag)
contracted(e, mag) == Minus(e, mag)
extent_inclusive(e, p) == all(And(GreaterEqualScalar(p, 0), LessEqual(p, e)))
extent_exclusive(e, p) == all(And(GreaterEqualScalar(p, 0), Less(p, e)))

\* extent_range and its iterator: the first axis moves fastest, and an axis
\* that reaches its size goes back to zero and moves the next one.  An axis
\* that is empty from the start is stepped past and never met, so that a
\* walk over an extent with one, other than the last, does not end.
begin(target) == [cursor |-> origin(Len(target)), target |-> target]
end(target) ==
    [cursor |-> [i \in DOMAIN target |-> IF i = Len(target) THEN target[i] ELSE 0],
     target |-> target]

increment(it) ==
    LET last == Len(it.target)
        turned(i) == \A j \in 1..i : j < last /\ it.cursor[j] + 1 = it.target[j]
    IN [it EXCEPT !.cursor = [i \in DOMAIN it.cursor |->
            IF turned(i) THEN 0 ELSE IF turned(i - 1) THEN it.cursor[i] + 1 ELSE it.cursor[i]]]

-----------------------------------------------------------------------------
(* region.                                                                 *)

Region(p, e) == [p |-> p, e |-> e]

\* From two corners; checks that a <= b.
Between(a, b) == Region(a, ExtentOf(PointDifference(b, a)))

base(r) == r.p
away(r) == Plus(r.p, r.e)
centre(r) == Plus(r.p, DividesScalar(r.e, 2))
closest(r, q) == [i \in DOMAIN q |->
    IF q[i] < r.p[i] THEN r.p[i] ELSE IF q[i] > r.p[i] THEN r.p[i] + r.e[i] ELSE q[i]]

intersects(r, s) == \A i \in DOMAIN r.p :
    ~(r.p[i] >= s.p[i] + s.e[i] \/ s.p[i] >= r.p[i] + r.e[i])

constrain(r, q) == limit(q, r.p, away(r))

\* The corners of the overlap; overlaps says that intersection throws nothing.
overlaps(r, s) == all(LessEqual(max2(r.p, s.p), min2(away(r), away(s))))
intersection(r, s) == Between(max2(r.p, s.p), min2(away(r), away(s)))

covers(r, s) == all(LessEqual(r.p, s.p)) /\ all(GreaterEqual(away(r), away(s)))
inclusive(r, q) == all(And(LessEqual(r.p, q), GreaterEqual(away(r), q)))
exclusive(r, q) == all(And(LessEqual(r.p, q), Greater(away(r), q)))

\* inset checks that there is room.
has_room(r, mag) == all(GreaterEqual(r.e, ScalarTimes(2, mag)))
inset(r, mag) == Region(Plus(r.p, mag), Minus(r.e, ScalarTimes(2, mag)))
expand(r, v) == Region(Minus(r.p, v), Plus(r.e, ScalarTimes(2, v)))

move(r, v) == Region(Plus(r.p, v), r.e)

\* Mutant: the far corner is taken for the extent.
make_union_Extent(r, p) ==
    Between(select(Less(r.p, p), r.p, p), select(Greater(r.e, p), r.e, p))

make_union(r, p) ==
    Between(select(Less(r.p, p), r.p, p), select(Greater(away(r), p), away(r), p))

-----------------------------------------------------------------------------
(* aabb.                                                                   *)

magnitude(b) == PointDifference(b.p1, b.p0)
aabb_closest(b, q) == limit(q, b.p0, b.p1)
cover(b, p) == [p0 |-> min2(p, b.p0), p1 |-> max2(p, b.p1)]
aabb_move(b, v) == [p0 |-> Plus(b.p0, v), p1 |-> Plus(b.p1, v)]

-----------------------------------------------------------------------------
(* range.                                                                  *)

Span(lo, hi) == [lo |-> lo, hi |-> hi]
range_contains(g, val) == val >= g.lo /\ val <= g.hi
range_covers(g, h) == h.lo >= g.lo /\ h.hi <= g.hi
range_clamp(g, val) ==
    LET capped == IF g.hi < val THEN g.hi ELSE val IN IF g.lo < capped THEN capped ELSE g.lo
range_expand(g, val) ==
    Span(IF val < g.lo THEN val ELSE g.lo, IF val > g.hi THEN val ELSE g.hi)
range_minus(g, val) == Span(g.lo - val, g.hi - val)

-----------------------------------------------------------------------------
RegionInit ==
    /\ \E p \in Points :
        /\ box = [p0 |-> p, p1 |-> p]
        /\ area = Region(p, origin(Len(p)))
        /\ reach = Span(p[1], p[1])
        /\ seen = {p}
    /\ moves = 0
    /\ inner = Resting
    /\ visited = <<>>

\* A point is shown to the box and to the region.
Cover(p) ==
    /\ inner = Resting
    /\ Cardinality(seen) < MaxSeen
    /\ box' = cover(box, p)
    /\ area' = make_union(area, p)
    /\ reach' = range_expand(reach, p[1])
    /\ seen' = seen \union {p}
    /\ UNCHANGED <<moves, inner, visited>>

Move(v) ==
    /\ inner = Resting
    /\ moves < MaxMoves
    /\ box' = aabb_move(box, v)
    /\ area' = move(area, v)
    /\ reach' = range_minus(reach, -v[1])
    /\ seen' = {Plus(q, v) : q \in seen}
    /\ moves' = moves + 1
    /\ UNCHANGED <<inner, visited>>

\* make_range of a region: the walk of an extent one larger, so that the far
\* border belongs to it, at an offset.
BeginWalk ==
    /\ inner = Resting
    /\ inner' = begin(PlusScalar(area.e, 1))
    /\ visited' = <<>>
    /\ UNCHANGED <<box, area, reach, seen, moves>>

StepWalk ==
    /\ inner # Resting
    /\ Unequal(inner.cursor, end(inner.target).cursor)
    /\ visited' = Append(visited, Plus(inner.cursor, area.p))
    /\ inner' = increment(inner)
    /\ UNCHANGED <<box, area, reach, seen, moves>>

\* Those of a set that have as many elements as the region's points.
Alike(S) == {x \in S : Len(x) = Len(area.p)}
Neighbours == {s \in Boxes : Len(s.p) = Len(area.p)}

RegionNext ==
    \/ \E p \in Alike(Points) : Cover(p)
    \/ \E v \in Alike(Offsets) : Move(v)
    \/ BeginWalk
    \/ StepWalk

RegionSpec == RegionInit /\ [][RegionNext]_regionVars

-----------------------------------------------------------------------------
(* Properties.                                                             *)

Grid(lo, hi) ==
    {q \in [DOMAIN lo -> min_element(lo)..max_element(hi)] : \A i \in DOMAIN lo : q[i] \in lo[i]..hi[i]}
Inside(r) == Grid(r.p, away(r))
Cells(r) == {q \in Inside(r) : \A i \in DOMAIN q : q[i] < away(r)[i]}

\* What the box and the region have grown to is the least that holds every
\* point they were shown, whatever the order, and the moves between, and the
\* three agree on the corners (aabb::cover, make_union, range::expand).
BoundsExact ==
    LET low == [i \in DOMAIN box.p0 |-> Min({q[i] : q \in seen})]
        high == [i \in DOMAIN box.p0 |-> Max({q[i] : q \in seen})]
    IN /\ box = [p0 |-> low, p1 |-> high]
       /\ area = Region(low, magnitude(box))
       /\ reach = Span(low[1], high[1])
       /\ \A q \in seen : inclusive(area, q) /\ constrain(area, q) = q

\* The tests and the combinations of two regions are those of the sets of
\* points they hold.  covers and inclusive count the borders, intersects and
\* exclusive leave them out; a region with an empty axis still intersects
\* what it lies strictly inside of, although it has no cell.
SetsOfPoints ==
    \A s \in Neighbours :
        /\ covers(area, s) = (Inside(s) \subseteq Inside(area))
        /\ overlaps(area, s) = (Inside(s) \intersect Inside(area) # {})
        /\ overlaps(area, s) => Inside(intersection(area, s)) = Inside(s) \intersect Inside(area)
        /\ intersects(area, s) => overlaps(area, s)
        /\ ~extent_empty(area.e) /\ ~extent_empty(s.e) =>
               intersects(area, s) = (Cells(s) \intersect Cells(area) # {})
        /\ \A q \in Inside(s) :
               /\ inclusive(area, q) = (q \in Inside(area))
               /\ exclusive(area, q) = (q \in Cells(area))

\* constrain and the box's closest are the nearest point of the region by
\* every measure; the region's own closest is that only for a point that
\* lies before the region, on its lower border or beyond its far border.
\* Points are as far apart by steps along one axis at most as by steps to
\* any neighbour, and no further than by steps along axes alone.
Nearest ==
    \A s \in Neighbours :
        LET q == s.p
            near == constrain(area, q)
        IN /\ near \in Inside(area) /\ near = aabb_closest(box, q)
           /\ \A other \in Inside(area) :
                  /\ manhattan(q, near) <= manhattan(q, other)
                  /\ chebyshev(q, near) <= chebyshev(q, other)
                  /\ distance2(q, near) <= distance2(q, other)
           /\ near[1] = range_clamp(reach, q[1])
           /\ range_contains(reach, q[1]) = (near[1] = q[1])
           /\ (closest(area, q) = near) =
                  (\A i \in DOMAIN q : q[i] <= area.p[i] \/ q[i] >= away(area)[i])
           /\ chebyshev(q, near) <= manhattan(q, near)
           /\ chebyshev(q, near) * chebyshev(q, near) <= distance2(q, near)
           /\ distance2(q, near) <= manhattan(q, near) * manhattan(q, near)

\* To grow a region and to trim it by as much gives it back, and what is
\* trimmed is covered by what was there (expand, inset).
Margins ==
    \A v \in Alike(Offsets) :
        LET wide == abs(v)
        IN /\ has_room(expand(area, wide), wide) /\ inset(expand(area, wide), wide) = area
           /\ has_room(area, wide) => covers(area, inset(area, wide))
           /\ covers(expand(area, wide), area)

\* The operators of a coordinate fit together: comparisons and their
\* opposites, minimum and maximum, division and remainder, changes of size
\* and back; what a shift by some of the indices moves; the cross product is
\* at right angles to both sides and as long as the area between them.
Vectors ==
    \A s \in Neighbours :
        LET a == area.p
            b == away(s)
            n == Len(a)
        IN /\ Unequal(a, b) = ~Equal(a, b)
           /\ Equal(a, b) = almost_zero(PointDifference(a, b))
           /\ any(Not(Less(a, b))) = ~all(Less(a, b))
           /\ Plus(min2(a, b), max2(a, b)) = Plus(a, b)
           /\ select(Less(a, b), a, b) = min2(a, b)
           /\ Plus(ScalarTimes(3, DividesScalar(a, 3)), mod(a, 3)) = a
           /\ norm2(Minus(a, b)) = distance2(a, b) /\ Negate(to(a, b)) = from(a, b)
           /\ redim(redim_fill(a, n + 2, 7), n) = a /\ redim(redim_coord(a, Fill(n + 2, 7)), n) = a
           /\ Minus(homog(a, n + 1), homog(b, n + 1)) = Append(Minus(a, b), 0)
           /\ \A k \in 1..(n - 1) : indices(rshift(a, k, b) \o a, [i \in 1..n |-> k + i - 1])
                  = [i \in 1..n |-> IF i <= n - k THEN a[i] ELSE a[i + k - n]]
           /\ n = 3 =>
                LET c == cross(a, b)
                IN /\ dot(c, a) = 0 /\ dot(c, b) = 0
                   /\ norm2(c) = norm2(a) * norm2(b) - dot(a, b) * dot(a, b)

RegionsSound == inner = Resting => SetsOfPoints /\ Nearest /\ Margins /\ Vectors

\* A walk over a region yields every point of it, borders included, once and
\* in row-major order, and is at its end exactly when there is none left.
WalkInOrder ==
    inner # Resting =>
        LET Size(i) == area.e[i] + 1
            Stride(i) == product([j \in 1..(i - 1) |-> Size(j)])
            Nth(n) == [i \in DOMAIN area.p |-> area.p[i] + ((n \div Stride(i)) % Size(i))]
        IN /\ \A n \in DOMAIN visited : visited[n] = Nth(n - 1)
           /\ (inner.cursor = end(inner.target).cursor)
                  = (Len(visited) = Cardinality(Inside(area)))

\* Boxes and regions are exact bounds and sets of points, and their walk is
\* whole, from the first point on (src/geom/aabb.cpp, src/region.cpp,
\* src/extent.cpp).
GeometrySound == seen # {} => BoundsExact /\ RegionsSound /\ WalkInOrder

\* A shift by no index "is equivalent to an ordinary fill", one by all of them
\* "to a noop" (coord/ops.hpp:1238-1239).  It does not hold: it is the other
\* way round.
ShiftAsDocumented ==
    seen # {} =>
        \A s \in Neighbours :
            LET a == area.p
                b == away(s)
            IN rshift(a, 0, b) = b /\ rshift(a, Len(a), b) = a
=============================================================================
