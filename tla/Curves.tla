------------------------------- MODULE Curves -------------------------------
(***************************************************************************)
(* Bezier curves of degree one, two and three (src/bezier*.cpp), and the   *)
(* polynomials they expand to.  The parameter t of the code is the         *)
(* fraction k / Parts, and a result of degree n is kept multiplied by      *)
(* Parts^n, so that what is exact on fractions is exact here.              *)
(***************************************************************************)
EXTENDS Coord

CONSTANTS Bends,        \* the curves, as sequences of control points
          Targets,      \* points whose distance to a curve is asked for
          Cuts,         \* << p0, p1 >> lines that may cross a curve
          Parts         \* the parameters looked at are k / Parts

VARIABLES curve,        \* m_points, which m_coeffs shares
          at            \* the parameter a loop over the curve has come to

Degree(b) == Len(b) - 1
Minus1(k) == Parts - k      \* 1 - t

\* The sum of the points, each times its weight.
Combine(weights, points) ==
    [i \in 1..2 |-> sum([j \in DOMAIN points |-> weights[j] * points[j][i]])]

(***************************************************************************)
(* eval, for each number of control points.  The third weight of a cubic   *)
(* is the second again, as in the code.                                    *)
(***************************************************************************)
eval_1(b, k) == Combine(<<Minus1(k), k>>, b)
eval_2(b, k) == Combine(<<Minus1(k)^2, 2 * Minus1(k) * k, k^2>>, b)
eval_3(b, k) ==
    Combine(<<Minus1(k)^3, 3 * Minus1(k)^2 * k, 3 * Minus1(k)^2 * k, k^3>>, b)
eval_curve(b, k) ==
    CASE Degree(b) = 1 -> eval_1(b, k)
      [] Degree(b) = 2 -> eval_2(b, k)
      [] Degree(b) = 3 -> eval_3(b, k)

\* coeffs: the highest power first.
coeffs_1(v) == << Combine(<<1, -1>>, v), v[2] >>
coeffs_2(v) == << Combine(<<1, -2, 1>>, v), Combine(<<0, 2, -2>>, v), v[3] >>
coeffs_3(v) ==
    << Combine(<<-1, 3, -3, 1>>, v), Combine(<<3, -6, 3, 0>>, v),
       Combine(<<-3, 3, 0, 0>>, v), v[1] >>
coeffs(v) ==
    CASE Degree(v) = 1 -> coeffs_1(v)
      [] Degree(v) = 2 -> coeffs_2(v)
      [] Degree(v) = 3 -> coeffs_3(v)

\* polynomial::eval of coefficients that are points; x_ begins with one, also
\* where x is zero.
polynomial_eval(c, k) ==
    LET n == Len(c) - 1
        Power(x, e) == IF e = 0 THEN 1 ELSE x^e
    IN  Combine([i \in DOMAIN c |-> Power(k, n - i + 1) * Power(Parts, i - 1)], c)

Step(b, i) == Minus(b[i + 1], b[i])

d1_2(b, k) == Combine(<<2 * Minus1(k), 2 * k>>, <<Step(b, 1), Step(b, 2)>>)
d1_3(b, k) ==
    Combine(<<3 * Minus1(k)^2, 6 * Minus1(k) * k, 3 * k^2>>, <<Step(b, 1), Step(b, 2), Step(b, 3)>>)

d2_3(b, k) ==
    Combine(<<6 * Minus1(k), 6 * k>>,
            << Minus(Step(b, 2), Step(b, 1)), Minus(Step(b, 3), Step(b, 2)) >>)

\* mix (a, b, t), one degree up.
mix(a, b, k) == Combine(<<Minus1(k), k>>, <<a, b>>)
tangent_3(b, k) ==
    mix(mix(Step(b, 1), Step(b, 2), k), mix(Step(b, 2), Step(b, 3), k), k)

\* region: from the first point, the others one by one.
curve_region(b) ==
    [p0 |-> [i \in 1..2 |-> min_element([j \in DOMAIN b |-> b[j][i]])],
     p1 |-> [i \in 1..2 |-> max_element([j \in DOMAIN b |-> b[j][i]])]]

(***************************************************************************)
(* A line: the parameter of the foot of q, as << numerator, denominator >> *)
(* where the code divides, kept on the line by distance; and the square of *)
(* the distance, multiplied by that of the denominator.  The ends differ.  *)
(***************************************************************************)
closest(b, q) == <<dot(Minus(q, b[1]), Step(b, 1)), norm2(Step(b, 1))>>
line_distance2(b, q) ==
    LET foot == closest(b, q)
        t == limit(<<foot[1]>>, <<0>>, <<foot[2]>>)[1]
    IN  norm2([i \in 1..2 |-> foot[2] * (q[i] - b[1][i]) - t * Step(b, 1)[i]])

(***************************************************************************)
(* intersections of a line with the line from p0 to p1: roots of the line  *)
(* equation of the second along the first, then the place of the root on   *)
(* the second.  None is one root that is no number, and counts as one      *)
(* crossing, whether the two are on one line or merely parallel.           *)
(***************************************************************************)
None == "nan"
roots_1(a, b) == IF a = 0 THEN None ELSE <<-b, a>>
Place(n, d) == IF d < 0 THEN <<-n, -d>> ELSE <<n, d>>
Within(f) == LET g == Place(f[1], f[2]) IN 0 <= g[1] /\ g[1] <= g[2]

intersections(b, p0, p1) ==
    LET A == p1[2] - p0[2]
        B == p0[1] - p1[1]
        C == p0[1] * (p0[2] - p1[2]) + p0[2] * (p1[1] - p0[1])
        c == coeffs(b)
        t == roots_1(A * c[1][1] + B * c[1][2], A * c[2][1] + B * c[2][2] + C)
        \* the point of the root, times the denominator of t
        q == Combine(t, c)
        axis == IF p0[1] = p1[1] THEN 2 ELSE 1
        s == <<q[axis] - t[2] * p0[axis], t[2] * (p1[axis] - p0[axis])>>
    IN  IF t = None THEN 1 ELSE IF Within(t) /\ Within(s) THEN 1 ELSE 0

-----------------------------------------------------------------------------
CurveInit == curve \in Bends /\ at = 0
Advance == at < Parts /\ at' = at + 1 /\ UNCHANGED curve
CurveNext == Advance

(***************************************************************************)
(* eval, coeffs and the derivatives are written out apart.  The            *)
(* coefficients of a line or a quadric run through the points of its eval, *)
(* with the slope of its derivative, the one way or the other; those of a  *)
(* cubic are what its derivatives are the derivatives of, and meet its     *)
(* eval where the weights of that add up to one.                           *)
(***************************************************************************)
\* The derivative of a polynomial, by its coefficients.
Slope(c) == [i \in 1..(Len(c) - 1) |-> ScalarTimes(Len(c) - i, c[i])]

Expanded ==
    LET c == coeffs(curve)
        Along(forward) == \A k \in 0..Parts : LET t == IF forward THEN k ELSE Minus1(k) IN
            /\ polynomial_eval(c, t) = eval_curve(curve, k)
            /\ Degree(curve) = 2 =>
                  d1_2(curve, k) = ScalarTimes(IF forward THEN 1 ELSE -1, polynomial_eval(Slope(c), t))
    IN  /\ at = 0 /\ Degree(curve) < 3 => \E forward \in BOOLEAN : Along(forward)
        /\ Degree(curve) = 3 /\ (at \in {0, Parts} \/ 2 * at = Parts) =>
              polynomial_eval(c, at) = eval_curve(curve, at)

Derived ==
    Degree(curve) = 3 => LET c == coeffs(curve) IN
        /\ d1_3(curve, at) = polynomial_eval(Slope(c), at)
        /\ d2_3(curve, at) = polynomial_eval(Slope(Slope(c)), at)
        /\ ScalarTimes(3, tangent_3(curve, at)) = d1_3(curve, at)

\* A curve starts and ends in its control points and stays in its region; a
\* cubic does where its weights add up to one.
Bounded ==
    LET one == Parts^Degree(curve)
        p == eval_curve(curve, at)
        r == curve_region(curve)
    IN  /\ at = 0 => p = ScalarTimes(one, curve[1])
        /\ at = Parts => p = ScalarTimes(one, curve[Len(curve)])
        /\ Degree(curve) < 3 \/ at \in {0, Parts} \/ 2 * at = Parts =>
              /\ all(LessEqual(ScalarTimes(one, r.p0), p))
              /\ all(LessEqual(p, ScalarTimes(one, r.p1)))

\* No point of a line is nearer to another point than its distance.
Nearest ==
    Degree(curve) = 1 => \A q \in Targets :
        LET d == norm2(Step(curve, 1)) ^ 2
            away == norm2(Minus(ScalarTimes(Parts, q), eval_1(curve, at)))
        IN  line_distance2(curve, q) * Parts^2 <= away * d

\* Two lines that are not parallel cross if and only if the ends of each are on
\* different sides of the other, or on it.  Of parallel ones this says nothing:
\* the code counts one crossing, whether they are on one line or not.
Side(p, q, r) == (q[1] - p[1]) * (r[2] - p[2]) - (q[2] - p[2]) * (r[1] - p[1])
Apart(x, y) == (x <= 0 /\ y >= 0) \/ (x >= 0 /\ y <= 0)
Crossing ==
    Degree(curve) = 1 => \A cut \in Cuts :
        LET a == curve[1]
            b == curve[2]
            p == cut[1]
            q == cut[2]
            parallel == Side(<<0, 0>>, Minus(b, a), Minus(q, p)) = 0
        IN  ~parallel => intersections(curve, p, q) =
                IF Apart(Side(p, q, a), Side(p, q, b)) /\ Apart(Side(a, b, p), Side(a, b, q))
                THEN 1 ELSE 0

\* All that is said of curves.
CurvesSound == Expanded /\ Derived /\ Bounded /\ Nearest /\ Crossing

\* The coefficients are "the expanded polynomial coeffecients in terms of t"
\* (bezier.hpp:40), the t that eval takes.  It does not hold: those of lines
\* and quadrics are in terms of 1 - t.
ExpandsInT == polynomial_eval(coeffs(curve), at) = eval_curve(curve, at)
=============================================================================
