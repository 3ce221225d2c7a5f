------------------------------ MODULE Numbers ------------------------------
(***************************************************************************)
(* Exact numbers on top of integers: the rational numbers of               *)
(* src/rational.hpp, the fixed point numbers of src/fixed.hpp, the         *)
(* bisection of src/roots/bisection.hpp, the accumulators of src/stats.hpp *)
(* and the bits of a floating point number as src/float.hpp reads them.    *)
(*                                                                         *)
(* kind says which of them a run works on.  figure is what the program     *)
(* keeps and meant what it should stand for: a fraction in lowest terms    *)
(* for a rational, an exact count of the smallest unit for a fixed point   *)
(* number, the function whose root is searched for a bisection, the values *)
(* an accumulator was given, the place of a float among all of its type.   *)
(***************************************************************************)
EXTENDS Integers, Sequences
LOCAL INSTANCE SequencesExt
LOCAL INSTANCE FiniteSetsExt

CONSTANTS Pairs,        \* << n, d >> rationals are made from
          Amounts,      \* integers to calculate with
          IntBits,      \* I, bits before the point
          FracBits,     \* E, bits after it
          ByteBits,     \* the width of a byte
          Functions,    \* << s, roots >>: the function s * product of (x - root)
          Brackets,     \* << a, b >> given to bisection
          Tolerance,    \* the width at which it stops
          Samples,      \* integers to add to accumulators
          ExpBits,      \* EXPONENT_BITS of a float
          SigBits,      \* SIGNIFICAND_BITS
          Ulps,         \* tolerances to compare floats with
          MaxNumber,    \* bound on the numerators and denominators
          MaxSteps      \* bound on the operations of a run

VARIABLES kind, figure, meant, done

Abs(v) == IF v < 0 THEN -v ELSE v

(***************************************************************************)
(* Rationals.                                                              *)
(***************************************************************************)
rational(n, d) == IF n < 0 /\ d < 0 THEN <<-n, -d>> ELSE <<n, d>>
from_scalar(v) == <<v, 1>>
Equal(a, b) == a = b
Less(a, b) == a[1] * b[2] < b[1] * a[2]
GreaterEqual(a, b) == a[1] * b[2] >= b[1] * a[2]

\* C++ division drops the fraction, whatever the signs.
Truncate(n, d) ==
    IF (n < 0) = (d < 0) THEN Abs(n) \div Abs(d) ELSE -(Abs(n) \div Abs(d))
to_int(r) == Truncate(r[1], r[2])
gcd(a, b) ==
    LET Sub[x \in Nat, y \in Nat] ==
            IF x = y THEN x ELSE IF x > y THEN Sub[x - y, y] ELSE Sub[x, y - x]
    IN  Sub[a, b]
reduced(r) ==
    LET x == gcd(Abs(r[1]), Abs(r[2]))
    IN  rational(Truncate(r[1], x), Truncate(r[2], x))
\* Mutant: the scalar is not brought to the denominator.
minus_Unscaled(r, t) == rational(r[1] - t, r[2])
inverse(r) == rational(r[2], r[1])
plus(r, t) == rational(r[1] + t * r[2], r[2])
minus(r, t) == rational(r[1] - t * r[2], r[2])
times(r, t) == rational(t * r[1], r[2])
divided(r, t) == rational(r[1], t * r[2])
scalar_over(t, r) == times(inverse(r), t)

\* The reference: one fraction for one number, with the sign above.
Lowest(n, d) ==
    LET s == IF d < 0 THEN -1 ELSE 1
        g == Max({k \in 1 .. Abs(d) : n % k = 0 /\ d % k = 0})
    IN  <<(s * n) \div g, (s * d) \div g>>

(***************************************************************************)
(* Fixed point.                                                            *)
(***************************************************************************)
NativeBits == IntBits + FracBits
IntegerBits == ((IntBits + ByteBits - 1) \div ByteBits) * ByteBits
Native(v) == LET u == v % 2^NativeBits IN IF u >= 2^(NativeBits - 1) THEN u - 2^NativeBits ELSE u
from_native(v) == v
from_integer(v) ==
    LET rshift == IntegerBits - IntBits
    IN  Native(v * 2^(FracBits - rshift))
to_integer(m) == m \div 2^FracBits
plus_fixed(m, rhs) == Native(m + rhs)
minus_fixed(m, rhs) == Native(m - rhs)
plus_integer(m, v) == Native(m + v * 2^FracBits)
minus_integer(m, v) == Native(m - v * 2^FracBits)
LessFixed(a, b) == a < b
EqualFixed(a, b) == a = b
EqualInteger(a, v) == EqualFixed(a, from_integer(v))
LessInteger(a, v) == LessFixed(a, from_integer(v))

(***************************************************************************)
(* Bisection.  x counts in units of the tolerance or smaller.              *)
(***************************************************************************)
At(f, x) == FoldLeft(LAMBDA acc, r : acc * (x - r), f[1], f[2])
samesign(a, b) == (a < 0 /\ b < 0) \/ (a > 0 /\ b > 0)

(***************************************************************************)
(* Accumulators of a type: unsigned integers that wrap, and reals, counted *)
(* in the least positive one, which is what numeric_limits::min () is.     *)
(***************************************************************************)
Types == {"uint", "real"}
Wide(type, v) == IF type = "uint" THEN v % 2^NativeBits ELSE v
reset(type) ==
    [type |-> type, count |-> 0, sum |-> 0,
     min |-> IF type = "uint" THEN 2^NativeBits - 1 ELSE MaxNumber,
     max |-> IF type = "uint" THEN 0 ELSE 1]
add(acc, v) ==
    [acc EXCEPT !.min = Min({v, @}), !.max = Max({v, @}),
                !.sum = Wide(acc.type, @ + v), !.count = @ + 1]
add_accumulator(acc, rhs) ==
    [acc EXCEPT !.min = Min({rhs.min, @}), !.max = Max({rhs.max, @}),
                !.sum = Wide(acc.type, @ + rhs.sum), !.count = @ + rhs.count]
range(acc) == Wide(acc.type, acc.max - acc.min)
mean(acc) == acc.sum \div acc.count

(***************************************************************************)
(* Floats, by their bits.  The components are laid out from the lowest bit *)
(* up, as the compilers of little endian machines do it: sign is the last  *)
(* bit of the significand, and nothing is where the format has it.         *)
(***************************************************************************)
FloatBits == 1 + ExpBits + SigBits
sign_field(f) == f % 2
exponent_field(f) == (f \div 2) % 2^ExpBits
significand_field(f) == f \div 2^(1 + ExpBits)
negate(f) == f - sign_field(f)
is_zero(f) == exponent_field(f) = 0 /\ significand_field(f) = 0
is_subnormal(f) == exponent_field(f) = 0 /\ significand_field(f) # 0
is_infinity(f) == exponent_field(f) = 2^ExpBits - 1 /\ significand_field(f) = 0
is_nan(f) == exponent_field(f) = 2^ExpBits - 1 /\ significand_field(f) # 0
EqualBits(f, g) == f = g

\* The format itself, as std::isnan and the sign of an integer see it.
SignBit == 2^(FloatBits - 1)
Magnitude(f) == f % SignBit
isnan(f) == Magnitude(f) > (2^ExpBits - 1) * 2^SigBits
signed(f) == IF f >= SignBit THEN f - 2^FloatBits ELSE f

\* almost_equal: negative ones are counted down from the negative zero, and the
\* difference is taken of the unsigned members of the union.
almost_equal(a, b, ulps) ==
    LET NEG_ZERO == signed(SignBit)
        rebased(f) == IF signed(f) < 0 THEN NEG_ZERO - signed(f) ELSE signed(f)
        u(f) == rebased(f) % 2^FloatBits
        diff == IF u(a) > u(b) THEN u(a) - u(b) ELSE u(b) - u(a)
    IN  ~isnan(a) /\ ~isnan(b) /\ (a = b \/ diff <= ulps)

-----------------------------------------------------------------------------
NumberInit ==
    /\ done = 0
    /\ \/ /\ kind = "rational"
          /\ \/ \E p \in Pairs : figure = rational(p[1], p[2]) /\ meant = Lowest(p[1], p[2])
             \/ \E t \in Amounts : figure = from_scalar(t) /\ meant = <<t, 1>>
       \/ /\ kind = "fixed"
          /\ \E v \in Amounts : figure = <<from_integer(v)>> /\ meant = <<v * 2^FracBits>>
       \/ /\ kind = "bisection"
          /\ \E f \in Functions, p \in Brackets :
                /\ ~samesign(At(f, p[1]), At(f, p[2]))
                /\ figure = IF p[1] > p[2] THEN <<p[2], p[1]>> ELSE p
                /\ meant = f
       \/ kind = "stats" /\ \E t \in Types : figure = reset(t) /\ meant = <<>>
       \/ /\ kind = "float"
          /\ \E f \in 0 .. 2^FloatBits - 1 :
                figure = <<f>> /\ meant = <<IF f < SignBit THEN f ELSE -Magnitude(f)>>

Does(f, m) == done < MaxSteps /\ done' = done + 1 /\ figure' = f /\ meant' = m
Small(r) == Abs(r[1]) <= MaxNumber /\ Abs(r[2]) <= MaxNumber

Calculate(r, m) == Small(r) /\ Does(r, m)
Rational ==
    /\ kind = "rational" /\ UNCHANGED kind
    /\ \/ \E t \in Amounts :
            \/ Calculate(plus(figure, t), Lowest(meant[1] + t * meant[2], meant[2]))
            \/ Calculate(minus(figure, t), Lowest(meant[1] - t * meant[2], meant[2]))
            \/ Calculate(times(figure, t), Lowest(meant[1] * t, meant[2]))
            \/ t # 0 /\ Calculate(divided(figure, t), Lowest(meant[1], meant[2] * t))
            \/ meant[1] # 0 /\ Calculate(scalar_over(t, figure), Lowest(t * meant[2], meant[1]))
       \/ meant[1] # 0 /\ Calculate(inverse(figure), Lowest(meant[2], meant[1]))
       \* gcd is never called with zero
       \/ meant[1] # 0 /\ Calculate(reduced(figure), meant)

\* An operation whose result the type cannot hold is not looked at.
Holds(v) == v \in -(2^(NativeBits - 1)) .. 2^(NativeBits - 1) - 1
Fixed ==
    /\ kind = "fixed" /\ UNCHANGED kind
    /\ LET m == figure[1] IN
       \E t \in Amounts :
            \/ Holds(meant[1] + t) /\ Does(<<plus_fixed(m, from_native(t))>>, <<meant[1] + t>>)
            \/ Holds(meant[1] - t) /\ Does(<<minus_fixed(m, from_native(t))>>, <<meant[1] - t>>)
            \/ /\ Holds(meant[1] + t * 2^FracBits)
               /\ Does(<<plus_integer(m, t)>>, <<meant[1] + t * 2^FracBits>>)
            \/ /\ Holds(meant[1] - t * 2^FracBits)
               /\ Does(<<minus_integer(m, t)>>, <<meant[1] - t * 2^FracBits>>)

\* One turn of the loop.  A root met at the middle ends the search.
Bisect ==
    /\ kind = "bisection" /\ figure[2] - figure[1] > Tolerance
    /\ LET c == (figure[1] + figure[2]) \div 2
           f_c == At(meant, c)
       IN  figure' = IF f_c = 0 THEN <<c, c>>
                     ELSE IF samesign(At(meant, figure[1]), f_c) THEN <<c, figure[2]>>
                     ELSE <<figure[1], c>>
    /\ UNCHANGED <<kind, meant, done>>

\* Values one by one, those another accumulator was given, or a fresh start.
Accumulate ==
    /\ kind = "stats" /\ UNCHANGED kind
    /\ LET type == figure.type
           Given(S) == {Wide(type, v) : v \in S}
       IN  \/ \E v \in Given(Samples) : Does(add(figure, v), Append(meant, v))
           \/ \E v, w \in Given(Samples) :
                 Does(add_accumulator(figure, add(add(reset(type), v), w)), meant \o <<v, w>>)
           \/ Does(add_accumulator(figure, reset(type)), meant)
           \/ meant # <<>> /\ Does(reset(type), <<>>)

\* negate, which only ever takes the sign away.
Negate ==
    /\ kind = "float" /\ UNCHANGED <<kind, meant, done>>
    /\ figure' = <<negate(figure[1])>>

NumberNext == Rational \/ Fixed \/ Bisect \/ Accumulate \/ Negate

(***************************************************************************)
(* However a rational was calculated, it is worth what exact arithmetic    *)
(* gives, it reduces to lowest terms, and as long as its sign is above the *)
(* line it is ordered as its worth is (src/rational.cpp).                  *)
(***************************************************************************)
RationalExact ==
    kind = "rational" =>
        /\ figure[1] * meant[2] = meant[1] * figure[2]
        /\ to_int(figure) = to_int(meant)
        /\ meant[1] # 0 => reduced(figure) \in {meant, <<-meant[1], -meant[2]>>}
        /\ figure[2] > 0 => \A p \in Pairs :
              LET q == Lowest(p[1], p[2]) IN
                /\ Less(figure, q) <=> meant[1] * q[2] < q[1] * meant[2]
                /\ GreaterEqual(figure, q) <=> ~Less(figure, q)
                /\ Equal(figure, meant) => ~Less(figure, meant)

(***************************************************************************)
(* Sums of fixed point numbers and integers lose nothing the type can      *)
(* hold, to_integer is the floor, and comparisons with an integer are the  *)
(* comparisons of the values; for types with whole bytes before the point  *)
(* (src/fixed.cpp).                                                        *)
(***************************************************************************)
FixedExact ==
    kind = "fixed" /\ IntBits % ByteBits = 0 =>
        /\ figure = meant
        /\ to_integer(figure[1]) * 2^FracBits <= meant[1]
        /\ meant[1] < (to_integer(figure[1]) + 1) * 2^FracBits
        /\ \A t \in Amounts : LET unit == t * 2^FracBits IN
            /\ EqualInteger(figure[1], t) <=> meant[1] = unit
            /\ LessInteger(figure[1], t) <=> meant[1] < unit

(***************************************************************************)
(* The interval of a bisection always holds a root: its ends are a root or *)
(* have different signs, from the first turn to the last, though an end    *)
(* may be a root itself (src/roots/bisection.hpp).                         *)
(***************************************************************************)
RootKept ==
    kind = "bisection" =>
        /\ figure[1] <= figure[2]
        /\ ~samesign(At(meant, figure[1]), At(meant, figure[2]))

(***************************************************************************)
(* However values came into an accumulator, one by one or with another, in *)
(* any order and after any reset, it tells their number, bounds and sum;   *)
(* but the maximum of reals is never below the least positive one, whatever*)
(* was added (src/stats.cpp).                                              *)
(***************************************************************************)
StatsExact ==
    kind = "stats" =>
        LET values == {meant[i] : i \in DOMAIN meant}
            total == FoldLeft(LAMBDA a, v : a + v, 0, meant)
            real == figure.type = "real"
        IN  /\ figure.count = Len(meant)
            /\ figure.sum = Wide(figure.type, total)
            /\ meant # <<>> =>
                  /\ figure.min = Min(values)
                  /\ figure.max = Max(IF real THEN values \union {1} ELSE values)
                  /\ \A v \in values : v - figure.min <= range(figure)
                  /\ (total = figure.sum /\ ~real) =>
                        figure.min <= mean(figure) /\ mean(figure) <= figure.max

(***************************************************************************)
(* Two floats on one side of zero are almost equal exactly if no more than *)
(* ulps others lie between them, the two zeros are, and NaN is to nothing  *)
(* (src/float.cpp); floats on both sides of zero are left to               *)
(* ZerosContinuous.  The classes exclude each other and do not look at the *)
(* sign.                                                                   *)
(***************************************************************************)
Rank(f) == IF f < SignBit THEN f ELSE -Magnitude(f)
Floats == 0 .. 2^FloatBits - 1

FloatsClose ==
    kind = "float" =>
        LET f == figure[1]
        IN  /\ \A g \in Floats, n \in Ulps :
                  IF isnan(f) \/ isnan(g) THEN ~almost_equal(f, g, n)
                  ELSE (Rank(f) < 0) = (Rank(g) < 0) =>
                          (almost_equal(f, g, n) <=> Rank(f) - Rank(g) \in -n .. n)
            /\ meant[1] \in {Rank(f), Rank(f + 1)}
            /\ Cardinality({c \in {"zero", "subnormal", "infinity", "nan"} :
                  CASE c = "zero" -> is_zero(f) [] c = "subnormal" -> is_subnormal(f)
                    [] c = "infinity" -> is_infinity(f) [] c = "nan" -> is_nan(f)}) <= 1
            /\ EqualBits(negate(f), negate(negate(f)))

\* All of the kinds of numbers together.
NumbersSound == RationalExact /\ FixedExact /\ RootKept /\ StatsExact /\ FloatsClose

\* Two floats are almost equal if no more than ulps others lie between them,
\* also when zero does: negative floats are re-based "to be continuous against
\* +ve/-ve 0" (float.cpp:141).  It does not hold: the difference is taken of
\* unsigned numbers, of which the one just below zero is the largest.
ZerosContinuous ==
    kind = "float" => \A g \in Floats, n \in Ulps : LET f == figure[1] IN
        ~isnan(f) /\ ~isnan(g) =>
            (almost_equal(f, g, n) <=> Rank(f) - Rank(g) \in -n .. n)
=============================================================================
