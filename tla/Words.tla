------------------------------- MODULE Words -------------------------------
(***************************************************************************)
(* Integer words: src/bitwise.hpp, src/endian.hpp, src/cast.hpp and the    *)
(* integer half of src/maths.hpp.  A word of w bits is a number below 2^w, *)
(* and every operation keeps the width of the type it is done in; a signed *)
(* word is a number from -2^(w-1) up.                                      *)
(*                                                                         *)
(* Beside the word the library works on, the module keeps what the word    *)
(* stands for: its bits, most significant first, moved about as a sequence *)
(* is, with no arithmetic.                                                 *)
(***************************************************************************)
EXTENDS Integers, Sequences, FiniteSets, Bitwise
LOCAL INSTANCE SequencesExt

CONSTANTS Givens,     \* the words to begin with: << bits of width, value >>
          ByteBits,   \* the width of a byte
          Widest,     \* the width of the widest type
          MaxOps      \* bound on the operations of a run

VARIABLES word,       \* << width, value >>
          bits,       \* what word stands for
          ops         \* how many operations were done

Wrap(v, w) == v % 2^w
Word(w) == 0 .. 2^w - 1

(***************************************************************************)
(* Bits.                                                                   *)
(***************************************************************************)
rotatel(v, m, w) == Wrap(v * 2^m, w) | (v \div 2^(w - m))
rotater(v, m, w) == (v \div 2^m) | Wrap(v * 2^(w - m), w)

\* The general loop: it stops at the highest bit of the source and makes up
\* for the bits it did not visit with one last shift.
reverse(v, w) ==
    LET Rev[src \in Word(w), dst \in Word(w), left \in 0 .. w] ==
            IF src = 0 THEN Wrap(dst * 2^left, w)
            ELSE Rev[src \div 2, Wrap(dst * 2, w) | (src % 2), left - 1]
    IN  Rev[v \div 2, v, w - 1]

popcount(v) == LET Ones[u \in Nat] == IF u = 0 THEN 0 ELSE (u % 2) + Ones[u \div 2] IN Ones[v]

bswap(v, w) ==
    LET Byte(i) == (v \div 2^(ByteBits * i)) % 2^ByteBits
        n == w \div ByteBits
    IN  FoldLeft(LAMBDA acc, i : acc * 2^ByteBits + Byte(i - 1), 0, [i \in 1 .. n |-> i])

\* The build is for a little endian host.
hton(v, w) == bswap(v, w)
ntoh(v, w) == bswap(v, w)
htob(v, w) == bswap(v, w)
htol(v, w) == v
btoh(v, w) == bswap(v, w)
ltoh(v, w) == v
from_endian(src, v, w) == IF src = "LITTLE" THEN ltoh(v, w) ELSE btoh(v, w)

(***************************************************************************)
(* Powers and logarithms.                                                  *)
(***************************************************************************)
abs(t) == IF t > 0 THEN t ELSE -t
pow2(v) == v * v
pow(base, exponent) ==
    LET Pow[e \in Nat] == IF e = 0 THEN 1 ELSE base * Pow[e - 1] IN Pow[exponent]
is_pow2(v) == v # 0 /\ (v & (v - 1)) = 0
log2(v) == LET Log[u \in Nat] == IF u \div 2 = 0 THEN 0 ELSE 1 + Log[u \div 2] IN Log[v]
log2up(v, w) == log2(Wrap(Wrap(v * 2, w) - 1, w))
round_up(v, size, w) == IF v % size # 0 THEN Wrap(v + (size - (v % size)), w) ELSE v
round_pow2(v, w) ==
    LET Smear[i \in Nat, u \in Word(w)] ==
            IF i >= w THEN u ELSE Smear[i * 2, u | (u \div 2^i)]
    IN  Wrap(Smear[1, Wrap(v - 1, w)] + 1, w)
divup(a, b, w) == Wrap(a + b - 1, w) \div b

digits(value, base) ==
    LET Count[v \in Nat] == IF v \div base = 0 THEN 1 ELSE 1 + Count[v \div base]
    IN  Count[abs(value)]
digits10(v) == digits(v, 10)

(***************************************************************************)
(* Comparisons.                                                            *)
(***************************************************************************)
almost_equal(a, b) == a = b
almost_zero(t) == t = 0
exactly_equal(a, b) == a = b
exactly_zero(t) == exactly_equal(t, 0)
sign(t) == IF t < 0 THEN -1 ELSE 1
samesign(a, b) == (a < 0 /\ b < 0) \/ (a > 0 /\ b > 0)

gcd(a, b) ==
    LET Sub[x \in Nat, y \in Nat] ==
            IF x = y THEN x ELSE IF x > y THEN Sub[x - y, y] ELSE Sub[x, y - x]
    IN  Sub[a, b]
mod(x, y) == IF x < 0 THEN -((-x) % y) ELSE x % y

sum(s) == FoldLeft(LAMBDA acc, v : acc + v, 0, s)
min(s) == FoldLeft(LAMBDA a, b : IF a < b THEN a ELSE b, Head(s), Tail(s))
max(s) == FoldLeft(LAMBDA a, b : IF a > b THEN a ELSE b, Head(s), Tail(s))
limit(val, lo, hi) == IF val > hi THEN hi ELSE IF val < lo THEN lo ELSE val

\* Interpolation over exact fractions: << numerator, denominator >> of the
\* result, x at p / q of the way.
smoothstep(a, b, x) ==
    LET q == b - a
        p == limit(x - a, 0, q)
    IN  << p * p * (3 * q - 2 * p), q * q * q >>
mix(a, b, p, q) == << a * (q - p) + b * p, q >>

(***************************************************************************)
(* Casts.  A check that fails throws.                                      *)
(***************************************************************************)
Signed(v, w) == IF v >= 2^(w - 1) THEN v - 2^w ELSE v
sign_unsigned_fits(v) == v >= 0
sign_signed_fits(v, w) == v < (2^w - 1) \div 2
narrow_fits(v, w) == Wrap(v, w) = v
narrow_signed_fits(v, w) == Signed(Wrap(v, w), w) = v
lossless_fits(v, from, to) == Wrap(Wrap(v, to), from) = v

(***************************************************************************)
(* Normalised quantities between widths.  A word becomes narrower by a     *)
(* shift and wider by filling the new bits with copies of itself.          *)
(***************************************************************************)
renormalise_down(v, from, to) == v \div 2^(from - to)
renormalise_up(v, from, to) ==
    LET Copies[i \in Nat, dst \in Nat] ==
            IF i >= to THEN dst ELSE Copies[i * 2, dst | Wrap(dst * 2^i, to)]
    IN  Wrap(Copies[from, 1] * v, to)
renormalise(v, from, to) ==
    IF from > to THEN renormalise_down(v, from, to)
    ELSE IF from < to THEN renormalise_up(v, from, to) ELSE v
to_sint(v, from, to) == Signed(Wrap(renormalise(v, from, to) + 2^(to - 1), to), to)
from_sint(v, from, to) == renormalise(Wrap(Wrap(v, from) + 2^(from - 1), from), from, to)

\* From a fraction p / 2^usable, of a float whose significand has that many
\* digits, to a word.  The product is rounded to the digits a float has, to the
\* even one of two, before the cast cuts its fraction off; the top bits then
\* fill the bottom.
Rounded(n, usable) ==
    LET excess == 2^Max({0, log2(n) + 1 - usable})
        down == n \div excess
        rest == 2 * (n % excess)
    IN  excess * (IF rest > excess \/ (rest = excess /\ down % 2 = 1) THEN down + 1 ELSE down)
renormalise_real(p, usable, available) ==
    LET shift == Max({available, usable}) - usable
        in == (2^available - 1) \div 2^shift
        mid == Rounded(limit(p, 0, 2^usable) * in, usable) \div 2^usable
        out == Wrap(mid * 2^shift, available)
    IN  IF shift = 0 THEN out ELSE out | (out \div 2^(available - shift))

\* What stream::bits prints: the lowest count bits, the highest of them first.
printed(v, count) ==
    LET Shifted[i \in Nat] == IF i = 0 THEN v ELSE Shifted[i - 1] \div 2
    IN  [i \in 1 .. count |-> Shifted[count - i] % 2]

-----------------------------------------------------------------------------
(***************************************************************************)
(* A word goes through any sequence of the operations that move its bits.  *)
(***************************************************************************)
BitsOf(v, w) == [i \in 1 .. w |-> (v \div 2^(w - i)) % 2]
width == word[1]
value == word[2]
Becomes(w, v, b) == /\ ops < MaxOps
                    /\ word' = <<w, v>> /\ bits' = b /\ ops' = ops + 1
Bytes(s) == [i \in 1 .. Len(s) \div ByteBits |-> SubSeq(s, ByteBits * (i - 1) + 1, ByteBits * i)]

WordInit == /\ \E g \in Givens : word = g /\ bits = BitsOf(g[2], g[1])
            /\ ops = 0

Rotate(m) ==
    \/ Becomes(width, rotatel(value, m, width), SubSeq(bits, m + 1, width) \o SubSeq(bits, 1, m))
    \/ Becomes(width, rotater(value, m, width),
               SubSeq(bits, width - m + 1, width) \o SubSeq(bits, 1, width - m))
ReverseBits == Becomes(width, reverse(value, width), Reverse(bits))
SwapBytes == Becomes(width, bswap(value, width), FlattenSeq(Reverse(Bytes(bits))))
Widen == /\ 2 * width <= Widest
         /\ Becomes(2 * width, renormalise(value, width, 2 * width), bits \o bits)
Narrow == /\ width > ByteBits
          /\ Becomes(width \div 2, renormalise(value, width, width \div 2),
                     SubSeq(bits, 1, width \div 2))

WordNext == (\E m \in 1 .. width - 1 : Rotate(m)) \/ ReverseBits \/ SwapBytes \/ Widen \/ Narrow

(***************************************************************************)
(* Every operation is the move of bits it stands for, whatever was done    *)
(* before: rotations lose nothing, reverse does not depend on where the    *)
(* highest bit is, bytes are swapped whole, and a value made wider repeats *)
(* itself (src/bitwise.hpp, src/endian.hpp, renormalise of src/maths.hpp). *)
(***************************************************************************)
WordIsItsBits == width = Len(bits) /\ BitsOf(value, width) = bits

\* Each conversion is undone by its inverse: the way between host and
\* network order, through the signed representation, and wider and back.
ConversionsUndone ==
    /\ ntoh(hton(value, width), width) = value
    /\ from_endian("BIG", from_endian("BIG", value, width), width) = value
    /\ from_endian("LITTLE", htol(value, width), width) = value
    /\ btoh(htob(value, width), width) = value
    /\ from_sint(to_sint(value, width, width), width, width) = value
    /\ 2 * width <= Widest =>
        /\ renormalise(renormalise(value, width, 2 * width), 2 * width, width) = value
        /\ from_sint(to_sint(value, width, 2 * width), 2 * width, width) = value
        /\ renormalise(2^width - 1, width, 2 * width) = 2^(2 * width) - 1
        /\ value > 0 =>
            renormalise(value - 1, width, 2 * width) < renormalise(value, width, 2 * width)

\* The logarithms and roundings are the ones a reader expects, from the
\* position of the highest bit, as far as the width can hold the answer.
Highest == CHOOSE i \in DOMAIN bits : bits[i] = 1 /\ \A j \in 1 .. i - 1 : bits[j] = 0
Ones == Cardinality({i \in DOMAIN bits : bits[i] = 1})
PowersSound ==
    /\ is_pow2(value) <=> Ones = 1
    /\ popcount(value) = Ones
    /\ value > 0 =>
        /\ log2(value) = width - Highest
        /\ value < 2^(width - 1) =>
            2^log2up(value, width) >= value /\ (value > 1 => 2^(log2up(value, width) - 1) < value)
        /\ round_pow2(value, width) = 0 <=> value > 2^(width - 1)
        /\ value <= 2^(width - 1) =>
            LET r == round_pow2(value, width) IN is_pow2(r) /\ r >= value /\ r \div 2 < value
    /\ digits(value, 2) = IF value = 0 THEN 1 ELSE log2(value) + 1
    /\ pow(10, digits10(value)) > value
    /\ value > 9 => pow(10, digits10(value) - 1) <= value

\* Against every small divisor: rounding, quotients and common divisors.
DivisorsSound ==
    \A k \in 1 .. 6 :
        /\ value + k < 2^width =>
            /\ round_up(value, k, width) = k * divup(value, k, width)
            /\ round_up(value, k, width) - value \in 0 .. k - 1
        /\ value \in 1 .. 63 =>
            LET g == gcd(value, k)
                Divides(d) == value % d = 0 /\ k % d = 0
            IN  Divides(g) /\ \A d \in g + 1 .. k : ~Divides(d)

\* A cast that is checked lets a value through when the type it goes to can
\* hold it; the cast to a signed type also turns away the largest value.
CastsSound ==
    LET s == Signed(value, width)
        h == width \div 2
    IN  /\ narrow_fits(value, h) <=> value \in Word(h)
        /\ narrow_signed_fits(s, h) <=> s \in -(2^(h - 1)) .. 2^(h - 1) - 1
        /\ lossless_fits(value, width, h) <=> narrow_fits(value, h)
        /\ sign_signed_fits(value, width) <=> s >= 0 /\ s # 2^(width - 1) - 1
        /\ sign_unsigned_fits(s) => s = value
        /\ limit(s, 0, 3) = max(<<0, min(<<3, s>>)>>)
        /\ samesign(s, sign(s)) <=> ~almost_zero(s)
        /\ s = 7 * ((s - mod(s, 7)) \div 7) + mod(s, 7) /\ abs(mod(s, 7)) < 7
        /\ (mod(s, 7) # 0 => samesign(mod(s, 7), s))
        /\ exactly_zero(s) <=> bits = [i \in 1 .. width |-> 0]
        /\ s = sign(s) * abs(s) /\ (almost_equal(s, abs(s)) <=> s >= 0)
        /\ pow2(h) = pow(h, 2) /\ round_up(pow2(h), h, width) = pow2(h)

\* smoothstep starts at 0, ends at 1 and never falls between, for every
\* point of a range; mix is exact at both ends.
InterpolationSound ==
    LET At(x) == smoothstep(2, 9, x)[1]
        n == value % 12
    IN  /\ At(2) = 0 /\ At(9) = smoothstep(2, 9, 9)[2]
        /\ At(n) <= At(n + 1)
        /\ mix(n, value, 0, 4)[1] = 4 * n /\ mix(n, value, 4, 4)[1] = 4 * value
        /\ sum(<<n, value, n>>) = value + 2 * n

\* A fraction becomes a word without ever falling, from none to all of its
\* bits; of a width the float has too few digits for, the ones it has repeat.
\* Where twice its digits are too few this says no more: see FullExtent.
FractionsSpread ==
    \A usable \in 2 .. 6 :
        LET To(p) == renormalise_real(p, usable, width)
            p == value % 2^usable
        IN  /\ To(0) = 0 /\ To(2^usable + 1) = To(2^usable)
            /\ To(p) <= To(p + 1)
            /\ 2 * usable >= width => To(2^usable) = 2^width - 1
            /\ usable < width /\ 2 * usable >= width =>
                  To(p) % 2^(width - usable) = To(p) \div 2^usable

\* The bits of a word are those that are printed.
BitsPrinted ==
    /\ printed(value, width) = bits
    /\ printed(value, width \div 2) = SubSeq(bits, width - width \div 2 + 1, width)

\* Words keep their meaning: the conjunction of the above.
WordsSound ==
    WordIsItsBits /\ FractionsSpread /\ BitsPrinted /\ ConversionsUndone /\ PowersSound /\ DivisorsSound /\ CastsSound
    /\ InterpolationSound

\* A fraction of one becomes the largest word: filling the bottom bits "gives
\* us the full extent of the integer range" (maths.hpp:764-766).  It does not
\* hold: they are filled once, and a float has 24 digits where a word may have
\* 64 bits.
FullExtent == \A usable \in 2 .. 6 : renormalise_real(2^usable, usable, width) = 2^width - 1
=============================================================================
