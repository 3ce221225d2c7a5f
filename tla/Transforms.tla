----------------------------- MODULE Transforms -----------------------------
(***************************************************************************)
(* Matrices (src/matrix.cpp), quaternions (src/quaternion.cpp), and what   *)
(* they do to points when they are chained.                                *)
(*                                                                         *)
(* A matrix is a sequence of rows, each a coordinate.  The elements are    *)
(* integers; a quotient that need not be one is kept as what is divided    *)
(* and by what.                                                            *)
(***************************************************************************)
EXTENDS Coord
LOCAL INSTANCE SequencesExt

\* A matrix is walked by its rows, from begin to end.
rows(m) == Len(m)
cols(m) == Len(m[1])
Build(height, width, data) == [r \in 1..height |-> [c \in 1..width |-> data[r, c]]]

zeroes(size) == Build(size, size, [r, c \in 1..size |-> 0])
identity(size) == Build(size, size, [r, c \in 1..size |-> IF r = c THEN 1 ELSE 0])

\* Operators between a matrix and a scalar.  With the scalar on the left the
\* code computes the matrix OP the scalar all the same.
matrix_scalar(op, m, t) == [r \in DOMAIN m |-> eval_right(op, m[r], t)]
scalar_matrix(op, t, m) == matrix_scalar(op, m, t)
Scaled(m, t) == matrix_scalar("multiplies", m, t)

\* matrix OP= scalar.
matrix_assign(op, m, t) == [r \in DOMAIN m |-> eval_right(op, m[r], t)]

matrix_equal(a, b) == \A r \in DOMAIN a : Equal(a[r], b[r])
matrix_unequal(a, b) == ~matrix_equal(a, b)

matrix_element(op, a, b) == [r \in DOMAIN a |-> eval(op, a[r], b[r])]
matrix_div(a, b) == [r \in DOMAIN a |-> [c \in DOMAIN a[r] |-> Quotient(a[r][c], b[r][c])]]
matrix_max(m) == max_element([r \in DOMAIN m |-> max_element(m[r])])
matrix_abs(m) == [r \in DOMAIN m |-> abs(m[r])]
matrix_sum(m) == sum([r \in DOMAIN m |-> sum(m[r])])

Apply(m, v) == [r \in DOMAIN m |-> dot(v, m[r])]
Multiply(a, b) ==
    Build(rows(a), cols(b), [r \in 1..rows(a), c \in 1..cols(b) |-> dot(a[r], [i \in DOMAIN b |-> b[i][c]])])

\* Writes the rows of m's own shape: the transpose of a square only.
transposed(m) == Build(rows(m), cols(m), [y \in 1..rows(m), x \in 1..cols(m) |-> m[x][y]])

is_affine(m) ==
    LET n == rows(m)
    IN rows(m) = cols(m) /\ (\A i \in 1..(n - 1) : m[n][i] = 0) /\ m[n][n] = 1

-----------------------------------------------------------------------------
(* Determinants and inverses, term by term.  A term is written by the      *)
(* elements it multiplies, two digits each: 011233 is m[0][1] * m[1][2] *  *)
(* m[3][3].                                                                *)

At(m, place) == m[(place \div 10) + 1][(place % 10) + 1]
Term(m, factors, places) ==
    product([k \in 1..factors |-> At(m, (places \div 10^(2 * (k - 1))) % 100)])
Signed(m, factors, plus, minus) ==
    MapThenSumSet(LAMBDA t : Term(m, factors, t), plus)
        - MapThenSumSet(LAMBDA t : Term(m, factors, t), minus)

determinant2(m) == Signed(m, 2, {0011}, {0110})
determinant3(m) ==
    At(m, 00) * Signed(m, 2, {1122}, {2112}) - At(m, 01) * Signed(m, 2, {1022}, {1220})
        + At(m, 02) * Signed(m, 2, {1021}, {1120})
determinant4(m) ==
    Signed(m, 4, {03122130, 01132230, 02112330, 02132031, 03102231, 00122331,
                 03112032, 00132132, 01102332, 01122033, 02102133, 00112233},
                 {02132130, 03112230, 01122330, 03122031, 00132231, 02102331,
                 01132032, 03102132, 00112332, 02112033, 00122133, 01102233})

determinant(m) ==
    CASE rows(m) = 2 -> determinant2(m)
      [] rows(m) = 3 -> determinant3(m)
      [] rows(m) = 4 -> determinant4(m)

adjugate2(m) == << <<At(m, 11), -At(m, 01)>>, <<-At(m, 10), At(m, 00)>> >>
adjugate3(m) ==
    << << Signed(m, 2, {1122}, {2112}), Signed(m, 2, {0221}, {0122}), Signed(m, 2, {0112}, {0211}) >>,
       << Signed(m, 2, {1220}, {1022}), Signed(m, 2, {0022}, {0220}), Signed(m, 2, {1002}, {0012}) >>,
       << Signed(m, 2, {1021}, {2011}), Signed(m, 2, {2001}, {0021}), Signed(m, 2, {0011}, {1001}) >> >>
adjugate4(m) ==
    << << Signed(m, 3, {122331, 132132, 112233}, {132231, 112332, 122133}),
           Signed(m, 3, {032231, 012332, 022133}, {022331, 032132, 012233}),
           Signed(m, 3, {021331, 031132, 011233}, {031231, 011332, 021133}),
           Signed(m, 3, {031221, 011322, 021123}, {021321, 031122, 011223}) >>,
       << Signed(m, 3, {132230, 102332, 122033}, {122330, 132032, 102233}),
           Signed(m, 3, {022330, 032032, 002233}, {032230, 002332, 022033}),
           Signed(m, 3, {031230, 001332, 021033}, {021330, 031032, 001233}),
           Signed(m, 3, {021320, 031022, 001223}, {031220, 001322, 021023}) >>,
       << Signed(m, 3, {112330, 132031, 102133}, {132130, 102331, 112033}),
           Signed(m, 3, {032130, 002331, 012033}, {012330, 032031, 002133}),
           Signed(m, 3, {011330, 031031, 001133}, {031130, 001331, 011033}),
           Signed(m, 3, {031120, 001321, 011023}, {011320, 031021, 001123}) >>,
       << Signed(m, 3, {122130, 102231, 112032}, {112230, 122031, 102132}),
           Signed(m, 3, {012230, 022031, 002132}, {022130, 002231, 012032}),
           Signed(m, 3, {021130, 001231, 011032}, {011230, 021031, 001132}),
           Signed(m, 3, {011220, 021021, 001122}, {021120, 001221, 011022}) >> >>

\* The inverse is the adjugate divided by the determinant.
adjugate(m) ==
    CASE rows(m) = 2 -> adjugate2(m)
      [] rows(m) = 3 -> adjugate3(m)
      [] rows(m) = 4 -> adjugate4(m)

inverse_affine(m) == adjugate(m)

-----------------------------------------------------------------------------
(* Transforms of three dimensions, as matrices of four.                    *)

\* The rows of three elements each with last behind it, and a final 0 0 0 1.
Affine(linear, last) ==
    [r \in 1..4 |-> IF r = 4 THEN <<0, 0, 0, 1>> ELSE Append(linear[r], last[r])]

translation(v) == Affine(identity(3), v)
scale(v) == Affine([r \in 1..3 |-> [identity(3)[r] EXCEPT ![r] = v[r]]], <<0, 0, 0>>)
scale_all(mag) == scale(Fill(3, mag))

\* By an angle with cosine c and sine s, about a vector of length 1.
rotation(c, s, about) ==
    LET x == about[1]
        y == about[2]
        z == about[3]
    IN Affine(<< <<x * x * (1 - c) + c, x * y * (1 - c) - z * s, x * z * (1 - c) + y * s>>,
                 <<y * x * (1 - c) + z * s, y * y * (1 - c) + c, y * z * (1 - c) - x * s>>,
                 <<z * x * (1 - c) - y * s, z * y * (1 - c) + x * s, z * z * (1 - c) + c>> >>,
              <<0, 0, 0>>)

\* norm and normalised, where they are integers.
norm(k) == CHOOSE n \in 0..sum(abs(k)) : n * n = norm2(k)
normalised(k) == DividesScalar(k, norm(k))

look_at(eye, centre, up) ==
    LET f == normalised(PointDifference(centre, eye))
        s == normalised(cross(f, up))
        u == cross(s, f)
    IN Multiply(Affine(<<s, u, Negate(f)>>, <<0, 0, 0>>), translation(ScalarMinusPoint(0, eye)))

\* The three planes are a coordinate each: left, bottom, near and right, top, far.
ortho(low, high) ==
    Affine([r \in 1..3 |-> [identity(3)[r] EXCEPT ![r] = Quotient(2, high[r] - low[r])]],
           [r \in 1..3 |-> -Quotient(high[r] + low[r], high[r] - low[r])])
ortho2D(low, high) == ortho(Append(low, -1), Append(high, 1))

\* f is one over the tangent of half the field of view.
perspective(f, aspect, lo, hi) ==
    << <<Quotient(f, aspect), 0, 0, 0>>, <<0, f, 0, 0>>,
       <<0, 0, Quotient(hi + lo, lo - hi), Quotient(2 * hi * lo, lo - hi)>>, <<0, 0, -1, 0>> >>

-----------------------------------------------------------------------------
(***************************************************************************)
(* Quaternions: four integers w, x, y, z.  A quaternion stands for the one *)
(* of length 1 in its direction, and what the code computes from one of    *)
(* length 1 is here computed times its squared length, norm2.              *)
(***************************************************************************)

Q(w, x, y, z) == [w |-> w, x |-> x, y |-> y, z |-> z]
Axis(q) == <<q.x, q.y, q.z>>
Of(w, v) == Q(w, v[1], v[2], v[3])

quaternion_identity == Q(1, 0, 0, 0)
quaternion_norm2(q) == q.w * q.w + q.x * q.x + q.y * q.y + q.z * q.z
conjugate(q) == Q(q.w, -q.x, -q.y, -q.z)

quaternion_times(a, b) ==
    Q(a.w * b.w - a.x * b.x - a.y * b.y - a.z * b.z,
      a.w * b.x + a.x * b.w + a.y * b.z - a.z * b.y,
      a.w * b.y - a.x * b.z + a.y * b.w + a.z * b.x,
      a.w * b.z + a.x * b.y - a.y * b.x + a.z * b.w)

quaternion_divided(a, b) ==
    Q(a.w * b.w + a.x * b.x + a.y * b.y + a.z * b.z,
      -(a.w * b.x) + a.x * b.w + a.y * b.z - a.z * b.y,
      -(a.w * b.y) - a.x * b.z + a.y * b.w + a.z * b.x,
      -(a.w * b.z) + a.x * b.y - a.y * b.x + a.z * b.w)

\* The three rows and columns that turn; the rest is that of the identity.
as_matrix(q) ==
    LET n == quaternion_norm2(q)
    IN << <<n - 2 * (q.y * q.y + q.z * q.z), 2 * (q.x * q.y - q.w * q.z), 2 * (q.x * q.z + q.w * q.y)>>,
          <<2 * (q.x * q.y + q.w * q.z), n - 2 * (q.x * q.x + q.z * q.z), 2 * (q.y * q.z - q.w * q.x)>>,
          <<2 * (q.x * q.z - q.w * q.y), 2 * (q.y * q.z + q.w * q.x), n - 2 * (q.x * q.x + q.y * q.y)>> >>

rotate(v, q) ==
    LET u == Axis(q)
    IN Plus(Plus(ScalarTimes(2 * dot(u, v), u), ScalarTimes(q.w * q.w - dot(u, u), v)),
            ScalarTimes(2 * q.w, cross(u, v)))

\* By an angle whose half has cosine c and sine s.
angle_axis(c, s, axis) == Of(c, ScalarTimes(s, axis))

\* Of three angles whose halves have cosines c and sines s.
from_euler(c, s) ==
    Q(c[1] * c[2] * c[3] - s[1] * s[2] * s[3], s[1] * c[2] * c[3] + c[1] * s[2] * s[3],
      c[1] * s[2] * c[3] - s[1] * c[2] * s[3], c[1] * c[2] * s[3] + s[1] * s[2] * c[3])

\* u and v have one length.
from_to(u, v) ==
    LET real_part == norm2(u) + dot(u, v)
    IN IF real_part # 0 THEN Of(real_part, cross(u, v))
       ELSE IF Magnitude(u[1]) > Magnitude(u[3]) THEN Q(0, -u[2], u[1], 0)
       ELSE Q(0, 0, -u[3], u[2])

\* What rotate gives for a quaternion of length 1, where it is integers.
Turned(v, q) == DividesScalar(rotate(v, q), quaternion_norm2(q))

FWD == <<0, 0, -1>>
UP == <<0, 1, 0>>
orthup(fwd, up) == normalised(cross(cross(fwd, up), fwd))
look(fwd, up) ==
    LET q1 == from_to(FWD, fwd)
    IN quaternion_times(from_to(Turned(UP, q1), orthup(fwd, up)), q1)

-----------------------------------------------------------------------------
(***************************************************************************)
(* Chains of transforms: a matrix that is multiplied by one transform after *)
(* another, and a quaternion and a rotation matrix that turn together.     *)
(***************************************************************************)

CONSTANTS Starts,      \* matrices to start from, of 2, 3 or 4 rows
          Matrices,    \* transforms to multiply by
          Turns,       \* quaternions to turn by
          Vectors3,    \* vectors to apply them to
          Directions,  \* vectors of one length, to look along and to turn between
          Corners,     \* corners of spaces to project
          MaxApplied   \* bound on the length of a chain

VARIABLES chain,       \* the product, matrix *= transform
          applied,     \* the transforms, in the order they were multiplied
          pose,        \* the quaternion, turn * quaternion
          frame        \* the product of the matrices of the same turns

transformVars == <<chain, applied, pose, frame>>

TransformInit ==
    /\ chain \in Starts
    /\ applied = <<chain>>
    /\ pose = quaternion_identity
    /\ frame = identity(3)

Transform(t) ==
    /\ Len(applied) <= MaxApplied
    /\ rows(t) = rows(chain)
    /\ pose = quaternion_identity
    /\ chain' = Multiply(chain, t)
    /\ applied' = Append(applied, t)
    /\ UNCHANGED <<pose, frame>>

Turn(q) ==
    /\ Len(applied) <= MaxApplied
    /\ chain = identity(4)
    /\ pose' = quaternion_times(q, pose)
    /\ frame' = Multiply(as_matrix(q), frame)
    /\ applied' = Append(applied, chain)
    /\ UNCHANGED chain

TransformNext ==
    \/ \E t \in Matrices : Transform(t)
    \/ \E q \in Turns : Turn(q)

TransformSpec == TransformInit /\ [][TransformNext]_transformVars

-----------------------------------------------------------------------------
(* Properties.                                                             *)

ToPoint(v) == Append(v, 1)

\* A chain applied to a point is its transforms applied one by one, the last
\* multiplied first, and its determinant is the product of theirs:
\* the product, the product with a vector and the determinants written out term
\* by term fit together (operator*, operator*=, determinant).
ChainsCompose ==
    /\ determinant(chain) = product([i \in DOMAIN applied |-> determinant(applied[i])])
    /\ \A v \in Vectors3 :
        LET p == [i \in 1..rows(chain) |-> ToPoint(v)[i]]
            each == FoldRight(LAMBDA t, v2 : Apply(t, v2), applied, p)
        IN Apply(chain, p) = each

\* The inverse, its terms written out for two, three and four rows, times
\* the matrix is the identity from either side; it is the inverse of the
\* transpose transposed; and an affine matrix has an affine inverse.
InverseUndoes ==
    LET n == rows(chain)
        unit == Scaled(identity(n), determinant(chain))
    IN /\ Multiply(chain, adjugate(chain)) = unit
       /\ Multiply(inverse_affine(chain), chain) = unit
       /\ adjugate(transposed(chain)) = transposed(adjugate(chain))
       /\ determinant(transposed(chain)) = determinant(chain)
       /\ is_affine(chain) =>
            \A i \in 1..n : adjugate(chain)[n][i] = (IF i = n THEN determinant(chain) ELSE 0)

\* What a compound operator leaves on its left side is what the plain operator
\* gives, the inverse operator takes it back, and a matrix is equal to itself
\* only, element by element (operator+= to operator/= of src/coord/ops.hpp, the
\* element and scalar operators of src/matrix.hpp).
CompoundsUndo ==
    /\ \A u, v \in Vectors3 :
        /\ PlusAssign(u, v) = Plus(u, v) /\ MinusAssign(PlusAssign(u, v), v) = u
        /\ DividesAssign(TimesAssign(u, 3), 3) = u
        /\ make_coord(<<u[1], u[2], u[3]>>) = u
    /\ LET more == matrix_assign("plus", chain, 1)
           ones == [r \in DOMAIN chain |-> Fill(rows(chain), 1)]
           Less1 == matrix_assign("minus", more, 1)
       IN /\ matrix_equal(Less1, chain) /\ matrix_unequal(more, chain)
          /\ matrix_equal(more, matrix_element("plus", chain, ones))
          /\ matrix_equal(matrix_div(Scaled(more, 2), Scaled(ones, 2)), more)

\* The turns kept as a quaternion and as a matrix agree, on the matrix, on
\* every vector turned, on the length, and on the way back; division undoes
\* a turn from the left.
PosesAgree ==
    /\ as_matrix(pose) = frame
    /\ \A v \in Vectors3 :
        /\ rotate(v, pose) = Apply(frame, v)
        /\ LET p == quaternion_times(quaternion_times(pose, Of(0, v)), conjugate(pose))
           IN p.w = 0 /\ Axis(p) = rotate(v, pose)
        /\ norm2(rotate(v, pose)) = quaternion_norm2(pose) * quaternion_norm2(pose) * norm2(v)
        /\ rotate(rotate(v, pose), conjugate(pose))
               = ScalarTimes(quaternion_norm2(pose) * quaternion_norm2(pose), v)
    /\ \A q \in Turns :
        LET scaled(r) == ScalarTimes(quaternion_norm2(q), <<r.w, r.x, r.y, r.z>>)
            again == quaternion_times(q, quaternion_divided(pose, q))
        IN scaled(pose) = <<again.w, again.x, again.y, again.z>>

\* What is aimed arrives: from_to turns one direction to another, opposite
\* ones included; look_at brings the eye to the origin, what it looks at
\* before it and the up vector upright; and look turns forward and up to the
\* directions it was given, unless the up that the first turn leaves is the
\* opposite of the one wanted: the second turn may then take any axis, and
\* turns forward away with it.
Aimed ==
    \A u, v \in Directions :
        /\ rotate(u, from_to(u, v)) = ScalarTimes(quaternion_norm2(from_to(u, v)), v)
        /\ cross(u, v) # Fill(3, 0) /\ is_normalised(u) =>
            LET wanted == orthup(u, v)
                q1 == from_to(FWD, u)
                q == look(u, v)
                eye == v
                view == look_at(eye, Plus(eye, ScalarTimes(2, u)), v)
            IN /\ Turned(UP, q) = wanted
               /\ Equal(Turned(FWD, q), u)
                      = (Unequal(Turned(UP, q1), Negate(wanted))
                         \/ Equal(Turned(u, from_to(Turned(UP, q1), wanted)), u))
               /\ Apply(view, ToPoint(eye)) = ToPoint(<<0, 0, 0>>)
               /\ Apply(view, ToPoint(Plus(eye, u))) = ToPoint(<<0, 0, -1>>)
               /\ Apply(view, ToPoint(Plus(eye, wanted))) = ToPoint(<<0, 1, 0>>)

\* A projection takes the corners of the space it shows to those of the unit
\* cube, the near plane to -1 and the far plane to 1.  ortho takes near and
\* far as they are and perspective as distances before the viewer.
Projected ==
    /\ \A low \in Corners, size \in [1..3 -> 1..2] :
        LET high == Plus(low, size)
        IN  /\ Apply(ortho(low, high), ToPoint(low)) = ToPoint(<<-1, -1, -1>>)
            /\ Apply(ortho(low, high), ToPoint(high)) = ToPoint(<<1, 1, 1>>)
    /\ \A z \in {<<1, 2>>, <<1, 3>>, <<2, 3>>} :
        LET near == Apply(perspective(2, 1, z[1], z[2]), <<0, 0, -z[1], 1>>)
            far == Apply(perspective(2, 1, z[1], z[2]), <<0, 0, -z[2], 1>>)
        IN near[3] = -near[4] /\ far[3] = far[4] /\ near[4] > 0

ChainsSound == ChainsCompose /\ InverseUndoes /\ CompoundsUndo
PosesSound == PosesAgree /\ (Len(applied) = 1 /\ chain = identity(4) => Aimed /\ Projected)
=============================================================================
