------------------------------- MODULE Coord -------------------------------
(***************************************************************************)
(* Coordinates: the fixed arrays of numbers behind vectors, points and     *)
(* extents, and the operators every one of them shares.  A coordinate is a *)
(* sequence; its elements are integers, or the truth values a comparison   *)
(* leaves.  The operators take coordinates of one length, which is what    *)
(* the templates ask for, and the arithmetic stays where it cannot wrap.   *)
(***************************************************************************)
EXTENDS Integers, Sequences, FiniteSetsExt

-----------------------------------------------------------------------------
(* coord::base.                                                            *)

\* What an element holds before anything was written to it.
Unwritten == "unwritten"

Fill(size, value) == [i \in 1..size |-> value]
make_coord(args) == [i \in 1..Len(args) |-> args[i]]

\* as, cast: the elements are copied one for one.
as(k) == [i \in DOMAIN k |-> k[i]]

\* The D elements of the result that k does not have stay as they were.
redim(k, size) == [i \in 1..size |-> IF i \in DOMAIN k THEN k[i] ELSE Unwritten]

redim_coord(k, fill) == [i \in DOMAIN fill |-> IF i \in DOMAIN k THEN k[i] ELSE fill[i]]

redim_fill(k, size, value) == [i \in 1..size |-> IF i \in DOMAIN k THEN k[i] ELSE value]

\* The indices count from 0.
indices(k, chosen) == [i \in DOMAIN chosen |-> k[chosen[i] + 1]]

-----------------------------------------------------------------------------
(* The functors of arithmetic and assignment.                              *)

\* Integer division goes towards zero, and the remainder follows it.
Magnitude(x) == IF x < 0 THEN -x ELSE x
Quotient(x, y) ==
    LET q == Magnitude(x) \div Magnitude(y) IN IF (x < 0) = (y < 0) THEN q ELSE -q
Remainder(x, y) == x - y * Quotient(x, y)

Functor(op, x, y) ==
    CASE op = "plus" -> x + y
      [] op = "minus" -> x - y
      [] op = "multiplies" -> x * y
      [] op = "divides" -> Quotient(x, y)
      [] op = "equal_to" -> x = y
      [] op = "not_equal_to" -> x # y

eval(op, a, b) == [i \in DOMAIN a |-> Functor(op, a[i], b[i])]
eval_right(op, k, scalar) == [i \in DOMAIN k |-> Functor(op, k[i], scalar)]
eval_left(op, scalar, k) == [i \in DOMAIN k |-> Functor(op, scalar, k[i])]

Plus(a, b) == eval("plus", a, b)
Minus(a, b) == eval("minus", a, b)
Times(a, b) == eval("multiplies", a, b)
Divides(a, b) == eval("divides", a, b)
PlusScalar(k, s) == eval_right("plus", k, s)
ScalarTimes(s, k) == eval_left("multiplies", s, k)
DividesScalar(k, s) == eval_right("divides", k, s)

\* What the left side of a compound operator holds after it, element by element
\* with the other coordinate or with the one scalar, and what the operator gives.
assign(op, a, b) == [i \in DOMAIN a |-> Functor(op, a[i], b[i])]
assign_scalar(op, k, scalar) == [i \in DOMAIN k |-> Functor(op, k[i], scalar)]
PlusAssign(a, b) == assign("plus", a, b)
MinusAssign(a, b) == assign("minus", a, b)
TimesAssign(k, s) == assign_scalar("multiplies", k, s)
DividesAssign(k, s) == assign_scalar("divides", k, s)

\* Between two points a difference, and from a scalar to a point.
PointDifference(a, b) == [i \in DOMAIN a |-> a[i] - b[i]]
ScalarMinusPoint(u, p) == PointDifference(Fill(Len(p), u), p)

Negate(k) == [i \in DOMAIN k |-> -k[i]]
Not(k) == [i \in DOMAIN k |-> ~k[i]]

-----------------------------------------------------------------------------
(* Comparisons.                                                            *)

any(k) == \E i \in DOMAIN k : k[i]
all(k) == \A i \in DOMAIN k : k[i]

\* apply and compare: func at every index.
compare(a, b, func) == [i \in DOMAIN a |-> Functor(func, a[i], b[i])]

Equal(a, b) == all(compare(a, b, "equal_to"))
Unequal(a, b) == any(compare(a, b, "not_equal_to"))

Less(a, b) == [i \in DOMAIN a |-> a[i] < b[i]]
Greater(a, b) == [i \in DOMAIN a |-> a[i] > b[i]]
LessEqual(a, b) == [i \in DOMAIN a |-> a[i] <= b[i]]
GreaterEqual(a, b) == [i \in DOMAIN a |-> a[i] >= b[i]]
And(a, b) == [i \in DOMAIN a |-> a[i] /\ b[i]]

GreaterEqualScalar(k, u) == [i \in DOMAIN k |-> k[i] >= u]
EqualScalar(k, u) == [i \in DOMAIN k |-> k[i] = u]

almost_zero(k) == all(EqualScalar(k, 0))

-----------------------------------------------------------------------------
(* Reductions and selections.                                              *)

\* accumulate: from the first element on.
sum(k) ==
    LET Sum[i \in 0..Len(k)] == IF i = 0 THEN 0 ELSE Sum[i - 1] + k[i] IN Sum[Len(k)]
product(k) ==
    LET Product[i \in 0..Len(k)] == IF i = 0 THEN 1 ELSE Product[i - 1] * k[i] IN Product[Len(k)]

dot(a, b) == sum([i \in DOMAIN a |-> a[i] * b[i]])
norm2(k) == dot(k, k)
is_normalised(k) == norm2(k) = 1

abs(k) == [i \in DOMAIN k |-> Magnitude(k[i])]
pow2(k) == [i \in DOMAIN k |-> k[i] * k[i]]
mod(k, t) == [i \in DOMAIN k |-> Remainder(k[i], t)]

min2(a, b) == [i \in DOMAIN a |-> IF b[i] < a[i] THEN b[i] ELSE a[i]]
max2(a, b) == [i \in DOMAIN a |-> IF b[i] > a[i] THEN b[i] ELSE a[i]]

\* Asserts lo <= hi.
limit(k, lo, hi) == max2(min2(k, hi), lo)
limit_scalars(k, lo, hi) == limit(k, Fill(Len(k), lo), Fill(Len(k), hi))

min_element(k) == CHOOSE v \in {k[i] : i \in DOMAIN k} : \A i \in DOMAIN k : v <= k[i]
max_element(k) == CHOOSE v \in {k[i] : i \in DOMAIN k} : \A i \in DOMAIN k : v >= k[i]

select(s, a, b) == [i \in DOMAIN s |-> IF s[i] THEN a[i] ELSE b[i]]

\* copy_n of k to num places on, and of fill to the places left.
rshift(k, num, fill) == [i \in DOMAIN k |-> IF i > num THEN k[i - num] ELSE fill[i]]
rshift_scalar(k, num, value) == rshift(k, num, Fill(Len(k), value))

-----------------------------------------------------------------------------
(* Points.                                                                 *)

origin(size) == Fill(size, 0)
to(p, rhs) == Minus(rhs, p)
from(p, rhs) == Minus(p, rhs)
homog(p, size) == redim_fill(p, size - 1, 0) \o <<1>>

distance2(a, b) == sum(pow2(PointDifference(a, b)))
manhattan(a, b) == sum(abs(PointDifference(a, b)))
chebyshev(a, b) == max_element(abs(PointDifference(a, b)))

\* cross of two vectors of three elements.
cross(a, b) ==
    << a[2] * b[3] - a[3] * b[2], a[3] * b[1] - a[1] * b[3], a[1] * b[2] - a[2] * b[1] >>
=============================================================================
