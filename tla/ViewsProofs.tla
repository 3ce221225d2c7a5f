---------------------------- MODULE ViewsProofs ----------------------------
(***************************************************************************)
(* Proofs about Views, for texts of any length, blocks and sources of any  *)
(* size, and rows of any number and keys.  Each walk has an invariant of   *)
(* its own; the state of one means nothing to the others.  The buffers     *)
(* that are mapped memory, paged and circular, come after them.            *)
(***************************************************************************)
EXTENDS Views, Buffers, FiniteSetTheorems, SequenceTheorems, WellFoundedInduction

Text == Seq(Nat)

\* A set of natural numbers has a least element.
LEMMA Least ==
    ASSUME NEW S \in SUBSET Nat, S # {}
    PROVE  \E e \in S : \A d \in S : e <= d
<1>1. PICK e \in S : \A d \in S : ~(<<d, e>> \in OpToRel(<, Nat))
    BY NatLessThanWellFounded, WFMin
<1>2. \A d \in S : e <= d
    <2> SUFFICES ASSUME NEW d \in S, ~(e <= d) PROVE FALSE
        OBVIOUS
    <2>1. d \in Nat /\ e \in Nat /\ d < e
        OBVIOUS
    <2>. QED  BY <1>1, <2>1 DEF OpToRel
<1>. QED  BY <1>2

-----------------------------------------------------------------------------
(* Parts of texts.                                                         *)

LEMMA Slice ==
    ASSUME NEW m \in Text, NEW a \in Nat \ {0}, NEW b \in Int, b <= Len(m)
    PROVE  /\ SubSeq(m, a, b) \in Text
           /\ Len(SubSeq(m, a, b)) = IF a <= b THEN b - a + 1 ELSE 0
           /\ \A i \in 1..(b - a + 1) : SubSeq(m, a, b)[i] = m[a + i - 1]
<1>1. \A i \in a..b : m[i] \in Nat
    BY DEF Text
<1>. QED  BY <1>1, SubSeqProperties DEF Text

\* Two texts that agree in every place are the same.
LEMMA SameText ==
    ASSUME NEW s \in Text, NEW t \in Text, Len(s) = Len(t),
           \A i \in 1..Len(s) : s[i] = t[i]
    PROVE  s = t
BY SeqEqual DEF Text

LEMMA Joint ==
    ASSUME NEW s \in Text, NEW t \in Text
    PROVE  /\ s \o t \in Text /\ Len(s \o t) = Len(s) + Len(t)
           /\ \A i \in 1..(Len(s) + Len(t)) :
                 (s \o t)[i] = IF i <= Len(s) THEN s[i] ELSE t[i - Len(s)]
BY ConcatProperties DEF Text

\* A part of a part, a part of the front and one of the back.
LEMMA SliceOfSlice ==
    ASSUME NEW m \in Text, NEW f \in Nat, NEW l \in Nat, f <= l, l <= Len(m),
           NEW a \in Nat \ {0}, NEW b \in Int, b <= l - f
    PROVE  SubSeq(SubSeq(m, f + 1, l), a, b) = SubSeq(m, f + a, f + b)
<1> DEFINE s == SubSeq(m, f + 1, l)
           x == SubSeq(s, a, b)
           y == SubSeq(m, f + a, f + b)
<1>0. Len(m) \in Nat
    BY DEF Text
<1>1. /\ s \in Text /\ Len(s) = l - f
      /\ \A i \in 1..(l - f) : s[i] = m[f + i]
    BY <1>0, Slice
<1> HIDE DEF s
<1>2. /\ x \in Text /\ Len(x) = IF a <= b THEN b - a + 1 ELSE 0
      /\ \A i \in 1..(b - a + 1) : x[i] = s[a + i - 1]
    BY <1>1, Slice
<1>3. /\ y \in Text /\ Len(y) = IF a <= b THEN b - a + 1 ELSE 0
      /\ \A i \in 1..(b - a + 1) : y[i] = m[f + a + i - 1]
    BY <1>0, Slice
<1> HIDE DEF x, y
<1>4. \A i \in 1..Len(x) : x[i] = y[i]
    <2> SUFFICES ASSUME NEW i \in 1..Len(x) PROVE x[i] = y[i]
        OBVIOUS
    <2>1. i \in 1..(b - a + 1) /\ a + i - 1 \in 1..(l - f)
        BY <1>2
    <2>2. m[f + (a + i - 1)] = m[f + a + i - 1]
        BY <2>1
    <2>. QED  BY <1>1, <1>2, <1>3, <2>1, <2>2
<1>5. x = y
    BY <1>2, <1>3, <1>4, SameText
<1>. QED  BY <1>5 DEF x, y, s

LEMMA SliceOfFront ==
    ASSUME NEW s \in Text, NEW t \in Text,
           NEW a \in Nat \ {0}, NEW b \in Int, b <= Len(s)
    PROVE  SubSeq(s \o t, a, b) = SubSeq(s, a, b)
<1> DEFINE x == SubSeq(s \o t, a, b)
           y == SubSeq(s, a, b)
<1>0. Len(s) \in Nat /\ Len(t) \in Nat
    BY DEF Text
<1>1. /\ x \in Text /\ Len(x) = IF a <= b THEN b - a + 1 ELSE 0
      /\ \A i \in 1..(b - a + 1) : x[i] = (s \o t)[a + i - 1]
    <2>1. s \o t \in Text /\ b <= Len(s \o t)
        BY <1>0, Joint
    <2>. QED  BY ONLY <2>1, Slice, a \in Nat \ {0}, b \in Int
<1>2. /\ y \in Text /\ Len(y) = IF a <= b THEN b - a + 1 ELSE 0
      /\ \A i \in 1..(b - a + 1) : y[i] = s[a + i - 1]
    BY Slice
<1> HIDE DEF x, y
<1>3. \A i \in 1..Len(x) : x[i] = y[i]
    <2> SUFFICES ASSUME NEW i \in 1..Len(x) PROVE x[i] = y[i]
        OBVIOUS
    <2>1. i \in 1..(b - a + 1) /\ a + i - 1 \in 1..Len(s) /\ a + i - 1 \in 1..(Len(s) + Len(t))
        BY <1>0, <1>1
    <2>. QED  BY <1>1, <1>2, <2>1, Joint
<1>4. x = y
    BY <1>1, <1>2, <1>3, SameText
<1>. QED  BY <1>4 DEF x, y

LEMMA SliceOfBack ==
    ASSUME NEW s \in Text, NEW t \in Text,
           NEW a \in Nat \ {0}, NEW b \in Int, b <= Len(t)
    PROVE  SubSeq(s \o t, Len(s) + a, Len(s) + b) = SubSeq(t, a, b)
<1> DEFINE u == s \o t
           c == Len(s) + a
           d == Len(s) + b
           x == SubSeq(u, c, d)
           y == SubSeq(t, a, b)
<1>0. Len(s) \in Nat /\ Len(t) \in Nat
    BY DEF Text
<1>1. u \in Text /\ Len(u) = Len(s) + Len(t)
    BY Joint
<1>2. \A i \in 1..(Len(s) + Len(t)) : u[i] = IF i <= Len(s) THEN s[i] ELSE t[i - Len(s)]
    BY Joint
<1> HIDE DEF u
<1>3. c \in Nat \ {0} /\ d \in Int /\ d <= Len(u)
    BY <1>0, <1>1
<1>4. d - c + 1 = b - a + 1 /\ (c <= d <=> a <= b)
    BY <1>0
<1>5. \A i \in 1..(b - a + 1) : u[c + i - 1] = t[a + i - 1]
    <2> SUFFICES ASSUME NEW i \in 1..(b - a + 1) PROVE u[c + i - 1] = t[a + i - 1]
        OBVIOUS
    <2>1. /\ c + i - 1 \in 1..(Len(s) + Len(t))
          /\ ~(c + i - 1 <= Len(s)) /\ (c + i - 1) - Len(s) = a + i - 1
        BY <1>0
    <2> HIDE DEF c
    <2>. QED  BY <1>2, <2>1
<1> HIDE DEF c, d
<1>6. /\ x \in Text /\ Len(x) = IF a <= b THEN b - a + 1 ELSE 0
      /\ \A i \in 1..(b - a + 1) : x[i] = u[c + i - 1]
    BY <1>1, <1>3, <1>4, Slice
<1>7. /\ y \in Text /\ Len(y) = IF a <= b THEN b - a + 1 ELSE 0
      /\ \A i \in 1..(b - a + 1) : y[i] = t[a + i - 1]
    BY Slice
<1> HIDE DEF x, y
<1>8. Len(x) = Len(y) /\ \A i \in 1..Len(x) : i \in 1..(b - a + 1)
    BY <1>6, <1>7
<1>9. x = y
    BY <1>5, <1>6, <1>7, <1>8, SameText
<1>. QED  BY <1>9 DEF x, y, u, c, d

\* The back of a text and the front of the next are a part of the two.
LEMMA SliceOfBoth ==
    ASSUME NEW s \in Text, NEW t \in Text, NEW a \in 0..Len(s), NEW b \in 0..Len(t)
    PROVE  SubSeq(s, a + 1, Len(s)) \o SubSeq(t, 1, b) = SubSeq(s \o t, a + 1, Len(s) + b)
<1> DEFINE u == s \o t
           l == Len(s)
<1>1. l \in Nat /\ Len(t) \in Nat
    BY DEF Text
<1>2. u \in Text /\ Len(u) = l + Len(t)
    BY Joint
<1>3. SubSeq(u, a + 1, l) = SubSeq(s, a + 1, l)
    BY <1>1, SliceOfFront
<1>4. SubSeq(u, l + 1, l + b) = SubSeq(t, 1, b)
    BY <1>1, SliceOfBack
<1> HIDE DEF u, l
<1>5. SubSeq(u, a + 1, l) \o SubSeq(u, l + 1, l + b) = SubSeq(u, a + 1, l + b)
    <2>1. u \in Seq(Nat)
        BY <1>2 DEF Text
    <2>2. /\ a + 1 \in 1..Len(u) + 1 /\ l \in (a + 1) - 1..Len(u)
          /\ l + b \in l..Len(u)
        BY <1>1, <1>2 DEF l
    <2>. QED  BY ONLY <2>1, <2>2, ConcatAdjacentSubSeq
<1>. QED  BY <1>3, <1>4, <1>5 DEF u, l

\* The whole of a text, and nothing of it.
LEMMA SliceWhole ==
    ASSUME NEW m \in Text
    PROVE  /\ SubSeq(m, 1, Len(m)) = m
           /\ \A a \in Nat \ {0} : \A b \in Int : b < a /\ b <= Len(m) => SubSeq(m, a, b) = <<>>
<1>1. SubSeq(m, 1, Len(m)) = m
    BY SubSeqFull DEF Text
<1>2. ASSUME NEW a \in Nat \ {0}, NEW b \in Int, b < a, b <= Len(m)
      PROVE  SubSeq(m, a, b) = <<>>
    <2>1. SubSeq(m, a, b) \in Text /\ Len(SubSeq(m, a, b)) = 0
        BY <1>2, Slice
    <2>. QED  BY <2>1, EmptySeq DEF Text
<1>. QED  BY <1>1, <1>2

\* Products of natural numbers.
LEMMA Times ==
    ASSUME NEW n \in Nat, NEW a \in Nat, NEW b \in Nat
    PROVE  /\ a * n \in Nat
           /\ (a + b) * n = a * n + b * n
           /\ a <= b => a * n <= b * n
           /\ 1 * n = n
OBVIOUS

-----------------------------------------------------------------------------
(* Blocks.                                                                 *)

\* Each block that was passed on is from its place in what was fed.
InPlace(n, fed, passed) ==
    \A k \in 1..Len(passed) : passed[k] = SubSeq(fed, (k - 1) * n + 1, k * n)
\* What was fed is in the blocks passed on, all but less than one of them.
Blocked(n, fed, passed, held) ==
    /\ InPlace(n, fed, passed)
    /\ held = SubSeq(fed, Len(passed) * n + 1, Len(fed))
    /\ Len(passed) * n <= Len(fed) /\ Len(held) < n

\* The whole blocks of a source: as many as fit, each from its place.
LEMMA WholeBlocks ==
    ASSUME NEW src \in Text, NEW from \in 0..Len(src), NEW n \in Nat \ {0}
    PROVE  \E q \in Nat :
             /\ from + q * n <= Len(src) /\ Len(src) - (from + q * n) < n
             /\ Whole(src, from, n) \in Seq(Text)
             /\ Len(Whole(src, from, n)) = q
             /\ \A k \in 1..q : Whole(src, from, n)[k] = SubSeq(src, from + (k - 1) * n + 1, from + k * n)
<1> DEFINE d == Len(src) - from
           q == d \div n
           r == d % n
           w == Whole(src, from, n)
<1>1. Len(src) \in Nat /\ d \in Nat
    BY DEF Text
<1>3. w = [k \in 1..q |-> SubSeq(src, from + (k - 1) * n + 1, from + k * n)]
    BY DEF Whole
<1>2. q \in Nat /\ d = n * q + r /\ r \in 0..(n - 1)
    <2> HIDE DEF d
    <2>. QED  BY <1>1, DivMod
<1> HIDE DEF q, r, w
<1>4. n * q = q * n /\ q * n \in Nat
    BY <1>2
<1>5. from + q * n <= Len(src) /\ Len(src) - (from + q * n) < n
    <2>1. d = q * n + r
        BY <1>2, <1>4
    <2>2. from + d = Len(src)
        BY <1>1
    <2> HIDE DEF d
    <2> DEFINE p == q * n
    <2>3. p \in Nat /\ d = p + r
        BY <2>1, <1>4
    <2> HIDE DEF p
    <2>4. from + p <= Len(src) /\ Len(src) - (from + p) < n
        BY <1>1, <1>2, <2>2, <2>3
    <2>. QED  BY <2>4 DEF p
<1>6. ASSUME NEW k \in 1..q
      PROVE  SubSeq(src, from + (k - 1) * n + 1, from + k * n) \in Text
    <2>1. k \in Nat /\ k - 1 \in Nat
        BY <1>2
    <2>2. k * n <= q * n /\ (k - 1) * n \in Nat /\ k * n \in Nat
        BY <2>1, <1>2, Times
    <2>3. from + (k - 1) * n + 1 \in Nat \ {0} /\ from + k * n \in Int /\ from + k * n <= Len(src)
        BY <2>2, <1>1, <1>4, <1>5
    <2>. QED  BY ONLY <2>3, Slice, src \in Text
<1>7. w \in Seq(Text) /\ Len(w) = q
    BY <1>2, <1>3, <1>6, IsASeq
<1>. QED  BY <1>2, <1>3, <1>5, <1>7 DEF w

\* Of what was passed on and held, their lengths.
LEMMA BlockedSizes ==
    ASSUME NEW n \in Nat \ {0}, NEW fed \in Text, NEW passed \in Seq(Text), NEW held,
           Blocked(n, fed, passed, held)
    PROVE  /\ Len(passed) \in Nat /\ Len(passed) * n \in Nat /\ Len(fed) \in Nat
           /\ held \in Text /\ Len(held) = Len(fed) - Len(passed) * n
           /\ Len(passed) * n <= Len(fed) /\ Len(held) < n
<1> DEFINE p == Len(passed) * n
<1>1. Len(passed) \in Nat /\ Len(fed) \in Nat
    BY DEF Text
<1>2. p \in Nat
    BY <1>1, Times
<1>3. held = SubSeq(fed, p + 1, Len(fed)) /\ p <= Len(fed) /\ Len(held) < n
    BY DEF Blocked
<1> HIDE DEF p
<1>4. held \in Text /\ Len(held) = Len(fed) - p
    BY <1>1, <1>2, <1>3, Slice
<1>. QED  BY <1>1, <1>2, <1>3, <1>4 DEF p

\* What was passed on stays where it was in a longer text.
LEMMA BlockedLonger ==
    ASSUME NEW n \in Nat \ {0}, NEW fed \in Text, NEW src \in Text, NEW passed \in Seq(Text), NEW held,
           Blocked(n, fed, passed, held)
    PROVE  InPlace(n, fed \o src, passed)
<1> DEFINE g == Len(passed)
<1>1. g \in Nat /\ g * n <= Len(fed) /\ Len(fed) \in Nat
    BY BlockedSizes
<1> SUFFICES ASSUME NEW k \in 1..g
             PROVE  passed[k] = SubSeq(fed \o src, (k - 1) * n + 1, k * n)
    BY DEF InPlace
<1>2. passed[k] = SubSeq(fed, (k - 1) * n + 1, k * n)
    BY DEF Blocked, InPlace
<1>3. (k - 1) * n \in Nat /\ k * n \in Nat /\ k * n <= g * n
    <2> HIDE DEF g
    <2>1. k \in Nat /\ k - 1 \in Nat
        BY <1>1
    <2>. QED  BY <1>1, <2>1, Times
<1>4. (k - 1) * n + 1 \in Nat \ {0} /\ k * n \in Int /\ k * n <= Len(fed)
    BY <1>1, <1>3
<1>5. SubSeq(fed \o src, (k - 1) * n + 1, k * n) = SubSeq(fed, (k - 1) * n + 1, k * n)
    BY ONLY <1>4, SliceOfFront, fed \in Text, src \in Text
<1>. QED  BY <1>2, <1>5

\* A source too short to fill the block is added to what is held.
LEMMA FeedHeld ==
    ASSUME NEW n \in Nat \ {0}, NEW fed \in Text, NEW src \in Text, NEW passed \in Seq(Text), NEW held,
           Blocked(n, fed, passed, held), Len(held) + Len(src) < n
    PROVE  Blocked(n, fed \o src, passed, held \o src) /\ held \o src \in Text
<1> DEFINE p == Len(passed) * n
<1>1. /\ p \in Nat /\ Len(fed) \in Nat /\ p <= Len(fed) /\ Len(src) \in Nat
      /\ held \in Text
    BY BlockedSizes DEF Text
<1>2. held \o src \in Text /\ Len(held \o src) < n
    BY <1>1, Joint
<1>3. Len(fed \o src) = Len(fed) + Len(src)
    BY Joint
<1>4. held \o src = SubSeq(fed \o src, p + 1, Len(fed \o src))
    <2>1. held = SubSeq(fed, p + 1, Len(fed))
        BY DEF Blocked
    <2> HIDE DEF p
    <2>2. SubSeq(src, 1, Len(src)) = src
        BY SliceWhole
    <2>3. SubSeq(fed, p + 1, Len(fed)) \o SubSeq(src, 1, Len(src)) = SubSeq(fed \o src, p + 1, Len(fed) + Len(src))
        <3>1. p \in 0..Len(fed) /\ Len(src) \in 0..Len(src)
            BY <1>1 DEF p
        <3>. QED  BY ONLY <3>1, SliceOfBoth, fed \in Text, src \in Text
    <2>. QED  BY <1>3, <2>1, <2>2, <2>3
<1>5. InPlace(n, fed \o src, passed)
    BY BlockedLonger
<1>6. p <= Len(fed \o src)
    BY <1>1, <1>3
<1>. QED  BY <1>2, <1>4, <1>5, <1>6 DEF Blocked

\* What fills the block that is held, and the block it makes.
Infill(n, held) == IF held = <<>> THEN 0 ELSE n - Len(held)
Filled(n, held, src) ==
    IF Infill(n, held) = 0 THEN <<>> ELSE << held \o SubSeq(src, 1, Infill(n, held)) >>

\* One that fills the block makes what is held a block of its own.
LEMMA FeedFills ==
    ASSUME NEW n \in Nat \ {0}, NEW fed \in Text, NEW src \in Text, NEW passed \in Seq(Text), NEW held,
           Blocked(n, fed, passed, held),
           Infill(n, held) <= Len(src)
    PROVE  LET front == passed \o Filled(n, held, src)
           IN  /\ front \in Seq(Text) /\ Len(front) \in Nat /\ Len(front) * n = Len(fed) + Infill(n, held)
               /\ InPlace(n, fed \o src, front)
<1> DEFINE g == Len(passed)
           p == g * n
           infill == Infill(n, held)
           filled == Filled(n, held, src)
<1>1. /\ g \in Nat /\ p \in Nat /\ Len(fed) \in Nat /\ p <= Len(fed)
      /\ held \in Text /\ Len(held) = Len(fed) - p /\ Len(held) < n
    BY BlockedSizes
<1>5. /\ infill \in Nat /\ infill <= Len(src)
      /\ infill = IF held = <<>> THEN 0 ELSE n - Len(held)
    <2>1. Len(held) \in Nat
        BY <1>1 DEF Text
    <2>. QED  BY <1>1, <2>1 DEF Infill
<1>6. filled = IF infill = 0 THEN <<>> ELSE << held \o SubSeq(src, 1, infill) >>
    BY DEF Filled
<1> HIDE DEF infill, filled
<1>2. InPlace(n, fed \o src, passed)
    BY BlockedLonger
<1>3. CASE infill = 0
    <2>1. held = <<>>
        BY <1>1, <1>3, <1>5
    <2>2. p = Len(fed) + infill
        <3>1. Len(held) = 0
            BY <2>1, EmptySeq
        <3> HIDE DEF p
        <3>. QED  BY <3>1, <1>1, <1>3
    <2>3. passed \o filled = passed
        BY <1>3, <1>6, ConcatEmptySeq
    <2>. QED  BY <1>1, <1>2, <2>2, <2>3 DEF infill, filled
<1>4. CASE infill # 0
    <2> DEFINE b == held \o SubSeq(src, 1, infill)
    <2>1. filled = <<b>> /\ infill = n - Len(held)
        BY <1>4, <1>5, <1>6
    <2>2. b = SubSeq(fed \o src, p + 1, Len(fed) + infill)
        <3>1. held = SubSeq(fed, p + 1, Len(fed))
            BY DEF Blocked
        <3>2. p \in 0..Len(fed) /\ infill \in 0..Len(src)
            BY <1>1, <1>5
        <3> HIDE DEF p
        <3>. QED  BY <3>1, <3>2, SliceOfBoth
    <2>3. (g + 1) * n = Len(fed) + infill
        <3>1. (g + 1) * n = p + n
            BY <1>1, Times
        <3> HIDE DEF p
        <3>. QED  BY <1>1, <2>1, <3>1
    <2>4. b \in Text
        <3>1. SubSeq(src, 1, infill) \in Text
            BY ONLY Slice, src \in Text, <1>5
        <3>. QED  BY <1>1, <3>1, Joint
    <2> HIDE DEF b
    <2>5. /\ passed \o <<b>> \in Seq(Text) /\ Len(passed \o <<b>>) = g + 1
          /\ \A k \in 1..g + 1 : (passed \o <<b>>)[k] = IF k <= g THEN passed[k] ELSE b
        <3>1. <<b>> \in Seq(Text) /\ Len(<<b>>) = 1 /\ <<b>>[1] = b
            BY <2>4
        <3>. QED  BY <1>1, <3>1, ConcatProperties
    <2>6. ASSUME NEW k \in 1..g + 1
          PROVE  (passed \o <<b>>)[k] = SubSeq(fed \o src, (k - 1) * n + 1, k * n)
        <3> DEFINE x == (passed \o <<b>>)[k]
        <3>1. x = IF k <= g THEN passed[k] ELSE b
            BY <2>5
        <3> HIDE DEF x
        <3>2. CASE k <= g
            <4>1. k \in 1..g
                BY <3>2, <1>1
            <4>. QED  BY <4>1, <3>1, <3>2, <1>2 DEF x, InPlace
        <3>3. CASE ~(k <= g)
            <4>1. k = g + 1
                BY <3>3, <1>1
            <4>2. (k - 1) * n = p /\ k * n = Len(fed) + infill
                <5>1. k - 1 = g
                    BY <4>1, <1>1
                <5>. QED  BY ONLY <4>1, <5>1, <2>3 DEF p
            <4> HIDE DEF p
            <4>3. SubSeq(fed \o src, (k - 1) * n + 1, k * n) = b
                BY ONLY <4>2, <2>2
            <4>. QED  BY <4>3, <3>1, <3>3 DEF x
        <3>. QED  BY <3>2, <3>3
    <2> DEFINE front == passed \o filled
    <2>7. front = passed \o <<b>>
        BY <2>1
    <2>8. front \in Seq(Text) /\ Len(front) = g + 1
        BY <2>5, <2>7
    <2>9. InPlace(n, fed \o src, front)
        BY <2>6, <2>7, <2>8 DEF InPlace
    <2> HIDE DEF front, g
    <2>10. Len(front) \in Nat /\ Len(front) * n = Len(fed) + infill
        BY <1>1, <2>3, <2>8
    <2>. QED  BY ONLY <2>8, <2>9, <2>10 DEF front, filled, infill
<1>. QED  BY <1>3, <1>4

\* Whole blocks of the rest of the source follow, and what is left is held.
LEMMA FeedWhole ==
    ASSUME NEW n \in Nat \ {0}, NEW fed \in Text, NEW src \in Text,
           NEW infill \in 0..Len(src), NEW front \in Seq(Text),
           Len(front) * n = Len(fed) + infill,
           InPlace(n, fed \o src, front)
    PROVE  LET blocks == Whole(src, infill, n)
               passed == front \o blocks
           IN  /\ passed \in Seq(Text)
               /\ Blocked(n, fed \o src, passed, SubSeq(src, infill + Len(blocks) * n + 1, Len(src)))
<1> DEFINE w == fed \o src
           l == Len(fed)
           e == Len(front)
           blocks == Whole(src, infill, n)
           passed == front \o blocks
<1>1. PICK q \in Nat :
         /\ infill + q * n <= Len(src) /\ Len(src) - (infill + q * n) < n
         /\ blocks \in Seq(Text) /\ Len(blocks) = q
         /\ \A k \in 1..q : blocks[k] = SubSeq(src, infill + (k - 1) * n + 1, infill + k * n)
    BY WholeBlocks
<1> HIDE DEF blocks
<1>2. l \in Nat /\ Len(src) \in Nat /\ e \in Nat /\ q * n \in Nat
    BY Times DEF Text
<1>3. w \in Text /\ Len(w) = l + Len(src)
    BY Joint
<1>4. /\ passed \in Seq(Text) /\ Len(passed) = e + q
      /\ \A k \in 1..(e + q) : passed[k] = IF k <= e THEN front[k] ELSE blocks[k - e]
    BY <1>1, ConcatProperties
<1> HIDE DEF passed
<1>5. e * n = l + infill
    OBVIOUS
<1>6. (e + q) * n = l + (infill + q * n)
    <2>1. (e + q) * n = e * n + q * n
        BY <1>2, Times
    <2> DEFINE p == q * n
    <2>2. p \in Nat /\ (e + q) * n = (l + infill) + p
        BY <1>2, <1>5, <2>1
    <2> HIDE DEF p, l
    <2>3. (l + infill) + p = l + (infill + p)
        BY <1>2, <2>2
    <2>. QED  BY <2>2, <2>3 DEF p
<1>7. ASSUME NEW k \in 1..(e + q)
      PROVE  passed[k] = SubSeq(w, (k - 1) * n + 1, k * n)
    <2>1. passed[k] = IF k <= e THEN front[k] ELSE blocks[k - e]
        BY <1>4
    <2>2. CASE k <= e
        <3>1. k \in 1..e
            BY <2>2, <1>2
        <3>. QED  BY <3>1, <2>1, <2>2 DEF InPlace
    <2>3. CASE ~(k <= e)
        <3> DEFINE j == k - e
        <3>1. j \in 1..q /\ j \in Nat /\ j - 1 \in Nat /\ k = e + j /\ k - 1 = e + (j - 1)
            BY <2>3, <1>2
        <3>2. passed[k] = SubSeq(src, infill + (j - 1) * n + 1, infill + j * n)
            BY <2>1, <2>3, <3>1, <1>1
        <3> HIDE DEF j
        <3> DEFINE y == (j - 1) * n
                   z == j * n
        <3>3. y \in Nat /\ z \in Nat /\ z <= q * n
            BY <3>1, Times
        <3>4. k * n = e * n + z /\ (k - 1) * n = e * n + y
            <4>1. (e + j) * n = e * n + z /\ (e + (j - 1)) * n = e * n + y
                BY <1>2, <3>1, Times
            <4>. QED  BY ONLY <4>1, <3>1
        <3>5. infill + z <= Len(src)
            <4> HIDE DEF y, z
            <4>. QED  BY <1>1, <1>2, <3>3
        <3> DEFINE u == (k - 1) * n
                   v == k * n
        <3>6. u = (l + infill) + y /\ v = (l + infill) + z
            BY ONLY <3>4, <1>5
        <3>7. passed[k] = SubSeq(src, infill + y + 1, infill + z)
            BY <3>2
        <3> HIDE DEF u, v, y, z
        <3>8. SubSeq(w, l + (infill + y + 1), l + (infill + z)) = SubSeq(src, infill + y + 1, infill + z)
            <4>1. infill + y + 1 \in Nat \ {0} /\ infill + z \in Int
                BY <3>3
            <4>. QED  BY ONLY <4>1, <3>5, SliceOfBack, fed \in Text, src \in Text DEF w, l
        <3>9. l + (infill + y + 1) = u + 1 /\ l + (infill + z) = v
            <4> HIDE DEF l
            <4>. QED  BY <3>3, <3>6, <1>2
        <3>. QED  BY ONLY <3>7, <3>8, <3>9 DEF u, v
    <2>. QED  BY ONLY <2>2, <2>3
<1> DEFINE r == q * n
           d == (e + q) * n
           held == SubSeq(src, infill + r + 1, Len(src))
<1>8. d = l + (infill + r) /\ r \in Nat /\ infill + r <= Len(src) /\ Len(src) - (infill + r) < n
    BY <1>1, <1>2, <1>6
<1> HIDE DEF r, d
<1>9. held = SubSeq(w, d + 1, Len(w))
    <2>1. infill + r + 1 \in Nat \ {0} /\ Len(src) \in Int /\ Len(src) <= Len(src)
        BY <1>2, <1>8
    <2>2. SubSeq(w, l + (infill + r + 1), l + Len(src)) = held
        BY ONLY <2>1, SliceOfBack, fed \in Text, src \in Text DEF w, l, held
    <2>3. l + (infill + r + 1) = d + 1
        <3> HIDE DEF l
        <3>. QED  BY <1>2, <1>8
    <2>. QED  BY ONLY <2>2, <2>3, <1>3
<1>10. Len(held) < n
    <2>1. infill + r + 1 \in Nat \ {0} /\ Len(src) \in Int /\ Len(src) <= Len(src)
        BY <1>2, <1>8
    <2>2. Len(held) = IF infill + r + 1 <= Len(src) THEN Len(src) - (infill + r + 1) + 1 ELSE 0
        BY ONLY <2>1, Slice, src \in Text DEF held
    <2>. QED  BY ONLY <2>2, <1>2, <1>8, n \in Nat \ {0}, infill \in 0..Len(src)
<1>11. d <= Len(w)
    <2> HIDE DEF w, l
    <2>. QED  BY <1>2, <1>3, <1>8
<1> HIDE DEF held, w
<1>12. Blocked(n, w, passed, held)
    <2>1. Len(passed) * n = d
        BY ONLY <1>4 DEF d
    <2>2. InPlace(n, w, passed)
        BY ONLY <1>4, <1>7 DEF InPlace
    <2>. QED  BY ONLY <2>1, <2>2, <1>9, <1>10, <1>11 DEF Blocked
<1>13. held = SubSeq(src, infill + Len(blocks) * n + 1, Len(src))
    BY ONLY <1>1 DEF held, r
<1>. QED  BY ONLY <1>4, <1>12, <1>13 DEF w, passed, blocks

\* What a source makes of what was passed on and held before it.
LEMMA FeedBlocks ==
    ASSUME NEW n \in Nat \ {0}, NEW fed \in Text, NEW src \in Text, NEW passed \in Seq(Text), NEW held,
           Blocked(n, fed, passed, held)
    PROVE  LET b == transform_by_block(n, [held |-> held, passed |-> passed], src)
           IN  b.passed \in Seq(Text) /\ Blocked(n, fed \o src, b.passed, b.held)
<1> DEFINE b == transform_by_block(n, [held |-> held, passed |-> passed], src)
           infill == Infill(n, held)
           filled == Filled(n, held, src)
           blocks == Whole(src, infill, n)
<1>1. b = IF Len(src) < infill THEN [held |-> held \o src, passed |-> passed]
          ELSE [held |-> SubSeq(src, infill + Len(blocks) * n + 1, Len(src)),
                passed |-> passed \o filled \o blocks]
    BY DEF transform_by_block, Infill, Filled
<1>2. Len(held) \in Nat /\ Len(held) < n /\ Len(src) \in Nat /\ infill \in Nat
    <2>1. held \in Text /\ Len(held) < n
        BY BlockedSizes
    <2>. QED  BY <2>1 DEF Text, Infill
<1> HIDE DEF b
<1>3. CASE Len(src) < infill
    <2>1. Len(held) + Len(src) < n
        BY <1>2, <1>3 DEF Infill
    <2>2. Blocked(n, fed \o src, passed, held \o src)
        BY <2>1, FeedHeld
    <2>3. b.held = held \o src /\ b.passed = passed
        BY <1>1, <1>3
    <2>. QED  BY ONLY <2>2, <2>3, passed \in Seq(Text) DEF b
<1>4. CASE ~(Len(src) < infill)
    <2> DEFINE front == passed \o filled
    <2>1. infill <= Len(src) /\ infill \in 0..Len(src)
        BY <1>2, <1>4
    <2> HIDE DEF infill
    <2>2. /\ front \in Seq(Text) /\ Len(front) * n = Len(fed) + infill
          /\ InPlace(n, fed \o src, front)
        BY <2>1, FeedFills DEF infill
    <2>3. b.held = SubSeq(src, infill + Len(blocks) * n + 1, Len(src)) /\ b.passed = front \o blocks
        BY <1>1, <1>4
    <2> HIDE DEF front
    <2>4. /\ front \o blocks \in Seq(Text)
          /\ Blocked(n, fed \o src, front \o blocks, SubSeq(src, infill + Len(blocks) * n + 1, Len(src)))
        BY ONLY <2>1, <2>2, FeedWhole, n \in Nat \ {0}, fed \in Text, src \in Text
    <2>. QED  BY ONLY <2>3, <2>4 DEF b
<1>. QED  BY <1>3, <1>4

-----------------------------------------------------------------------------
(* Tokens.                                                                 *)

\* How many borders are before b.
Before(m, b) == {c \in Borders(m) : c < b}
Rank(m, b) == Cardinality(Before(m, b))

LEMMA BordersFinite ==
    ASSUME NEW m \in Text
    PROVE  /\ Len(m) \in Nat
           /\ Borders(m) \subseteq 0..(Len(m) + 1) /\ 0 \in Borders(m) /\ Len(m) + 1 \in Borders(m)
           /\ IsFiniteSet(Borders(m))
           /\ Tokens(m) \in Nat /\ Cardinality(Borders(m)) = Tokens(m) + 1
           /\ \A b \in Borders(m) : 0 < b /\ b <= Len(m) => b \in 1..Len(m) /\ m[b] = Separator
<1> DEFINE S == Separators(m)
           l == Len(m)
<1>1. l \in Nat
    BY DEF Text
<1>2. S \subseteq 1..l /\ \A b \in S : m[b] = Separator
    BY DEF Separators
<1>3. IsFiniteSet(S) /\ Cardinality(S) \in Nat
    <2>1. IsFiniteSet(1..l)
        BY <1>1, FS_Interval
    <2>. QED  BY <1>2, <2>1, FS_Subset, FS_CardinalityType
<1>4. Borders(m) = S \union {0, l + 1}
    BY DEF Borders
<1>5. Tokens(m) = 1 + Cardinality(S)
    BY DEF Tokens
<1> HIDE DEF S, l
<1> DEFINE T == S \union {0}
<1>6. IsFiniteSet(T) /\ Cardinality(T) = Cardinality(S) + 1
    <2>1. 0 \notin S
        BY <1>1, <1>2
    <2>. QED  BY <1>3, <2>1, FS_AddElement
<1>7. l + 1 \notin T
    BY <1>1, <1>2
<1>8. Borders(m) = T \union {l + 1}
    BY <1>4
<1> HIDE DEF T
<1>9. IsFiniteSet(Borders(m)) /\ Cardinality(Borders(m)) = Tokens(m) + 1 /\ Tokens(m) \in Nat
    <2>1. IsFiniteSet(T \union {l + 1}) /\ Cardinality(T \union {l + 1}) = Cardinality(T) + 1
        BY <1>6, <1>7, FS_AddElement
    <2>. QED  BY <1>3, <1>5, <1>6, <1>8, <2>1
<1>10. Borders(m) \subseteq 0..(l + 1) /\ 0 \in Borders(m) /\ l + 1 \in Borders(m)
    BY <1>1, <1>2, <1>4
<1>11. \A b \in Borders(m) : 0 < b /\ b <= l => b \in 1..l /\ m[b] = Separator
    <2> SUFFICES ASSUME NEW b \in Borders(m), 0 < b, b <= l
                 PROVE  b \in S
        BY <1>2
    <2>1. b # 0 /\ b # l + 1
        BY <1>1, <1>10
    <2>. QED  BY ONLY <1>4, <2>1, b \in Borders(m)
<1>. QED  BY <1>1, <1>9, <1>10, <1>11 DEF l

LEMMA BeforeFinite ==
    ASSUME NEW m \in Text, NEW b
    PROVE  IsFiniteSet(Before(m, b)) /\ Rank(m, b) \in Nat
<1>1. IsFiniteSet(Borders(m))
    BY BordersFinite
<1>2. Before(m, b) \in SUBSET Borders(m)
    BY DEF Before
<1>3. IsFiniteSet(Before(m, b))
    BY ONLY <1>1, <1>2, FS_Subset
<1>. QED  BY <1>3, FS_CardinalityType DEF Rank

\* The next border has the next rank.
LEMMA RankNext ==
    ASSUME NEW m \in Text, NEW b \in Borders(m), NEW d \in Borders(m), b < d,
           \A c \in Borders(m) : ~(b < c /\ c < d)
    PROVE  Rank(m, d) = Rank(m, b) + 1
<1>1. \A c \in Borders(m) : c \in Int
    BY BordersFinite
<1>2. Before(m, d) = Before(m, b) \union {b}
    BY <1>1 DEF Before
<1>3. b \notin Before(m, b)
    BY <1>1 DEF Before
<1>. QED  BY <1>2, <1>3, BeforeFinite, FS_AddElement DEF Rank

LEMMA RankMonotone ==
    ASSUME NEW m \in Text, NEW b \in Borders(m), NEW d \in Borders(m), b < d
    PROVE  Rank(m, b) < Rank(m, d)
<1>1. \A c \in Borders(m) : c \in Int
    BY BordersFinite
<1> DEFINE X == Before(m, b)
           Y == Before(m, d)
<1>2. X \union {b} \in SUBSET Y
    BY <1>1 DEF Before
<1>3. b \notin X
    BY <1>1 DEF Before
<1>4. IsFiniteSet(X) /\ IsFiniteSet(Y) /\ Cardinality(X) \in Nat /\ Cardinality(Y) \in Nat
    BY BeforeFinite DEF Rank
<1> HIDE DEF X, Y
<1>5. Cardinality(X \union {b}) = Cardinality(X) + 1
    BY <1>3, <1>4, FS_AddElement
<1>6. Cardinality(X \union {b}) <= Cardinality(Y)
    BY ONLY <1>2, <1>4, FS_Subset
<1>7. Cardinality(X) < Cardinality(Y)
    BY ONLY <1>4, <1>5, <1>6
<1>. QED  BY <1>7 DEF Rank, X, Y

\* A border is the one of its rank.
LEMMA BorderIs ==
    ASSUME NEW m \in Text, NEW b \in Borders(m)
    PROVE  Border(m, Rank(m, b)) = b
<1>1. \A c \in Borders(m) : c \in Int
    BY BordersFinite
<1>2. \A c \in Borders(m) : Rank(m, c) \in Nat
    BY BeforeFinite
<1>3. ASSUME NEW c \in Borders(m), Rank(m, c) = Rank(m, b)
      PROVE  c = b
    <2>1. ~(c < b)
        <3>1. c < b => Rank(m, c) < Rank(m, b)
            BY RankMonotone
        <3>. QED  BY <1>2, <1>3, <3>1
    <2>2. ~(b < c)
        <3>1. b < c => Rank(m, b) < Rank(m, c)
            BY RankMonotone
        <3>. QED  BY <1>2, <1>3, <3>1
    <2>. QED  BY <1>1, <2>1, <2>2
<1>4. Border(m, Rank(m, b)) = CHOOSE c \in Borders(m) : Rank(m, c) = Rank(m, b)
    BY DEF Border, Rank, Before
<1>. QED  BY <1>3, <1>4

\* The first and the last border.
LEMMA RankEnds ==
    ASSUME NEW m \in Text
    PROVE  /\ Rank(m, 0) = 0 /\ Rank(m, Len(m) + 1) = Tokens(m)
           /\ \A b \in Borders(m) : b <= Len(m) => Rank(m, b) < Tokens(m)
           /\ \A b \in Borders(m) : b # 0 => Rank(m, b) > 0
<1> DEFINE l == Len(m)
<1>1. /\ l \in Nat /\ Borders(m) \subseteq 0..(l + 1) /\ 0 \in Borders(m) /\ l + 1 \in Borders(m)
      /\ IsFiniteSet(Borders(m)) /\ Cardinality(Borders(m)) = Tokens(m) + 1 /\ Tokens(m) \in Nat
    BY BordersFinite
<1>2. Rank(m, 0) = 0
    <2>1. Before(m, 0) = {}
        BY <1>1 DEF Before
    <2>. QED  BY <2>1, FS_EmptySet DEF Rank
<1>3. Rank(m, l + 1) = Tokens(m)
    <2>1. Before(m, l + 1) = Borders(m) \ {l + 1}
        BY <1>1 DEF Before
    <2>2. Cardinality(Borders(m) \ {l + 1}) = Cardinality(Borders(m)) - 1
        BY ONLY <1>1, FS_RemoveElement
    <2>3. Cardinality(Borders(m) \ {l + 1}) = Tokens(m)
        BY ONLY <1>1, <2>2
    <2>. QED  BY ONLY <2>1, <2>3 DEF Rank
<1> HIDE DEF l
<1>4. ASSUME NEW b \in Borders(m), b <= l
      PROVE  Rank(m, b) < Tokens(m)
    <2>1. b < l + 1
        BY <1>1, <1>4
    <2>. QED  BY ONLY <1>1, <1>3, <2>1, RankMonotone, m \in Text, b \in Borders(m)
<1>5. ASSUME NEW b \in Borders(m), b # 0
      PROVE  Rank(m, b) > 0
    <2>1. 0 < b
        BY <1>1, <1>5
    <2>2. Rank(m, 0) < Rank(m, b)
        BY <1>1, <2>1, RankMonotone
    <2>. QED  BY <1>2, <2>2
<1>. QED  BY <1>2, <1>3, <1>4, <1>5 DEF l

\* From a place of the text on: up to the next separator or the end.
LEMMA FindIs ==
    ASSUME NEW m \in Text, NEW from \in 0..Len(m)
    PROVE  /\ Find(m, from) \in from..Len(m)
           /\ Find(m, from) + 1 \in Borders(m)
           /\ \A c \in Borders(m) : ~(from < c /\ c < Find(m, from) + 1)
<1> DEFINE l == Len(m)
           Good(i) == (i = l \/ m[i + 1] = Separator)
           Clear(i) == \A k \in from + 1 .. i : m[k] # Separator
           S == {i \in from..l : Good(i)}
<1>1. l \in Nat /\ from \in Nat /\ from <= l
    BY DEF Text
<1>2. S \in SUBSET Nat /\ l \in S
    BY <1>1
<1>3. PICK e \in S : \A d \in S : e <= d
    BY <1>2, Least
<1>4. e \in from..l /\ Good(e)
    BY <1>3
<1>5. Clear(e)
    <2> SUFFICES ASSUME NEW k \in from + 1 .. e, m[k] = Separator
                 PROVE  FALSE
        OBVIOUS
    <2>1. k - 1 \in from..l /\ m[(k - 1) + 1] = Separator /\ ~(e <= k - 1)
        BY <1>1, <1>4
    <2>2. k - 1 \in S
        BY ONLY <2>1 DEF S, Good
    <2>. QED  BY ONLY <2>1, <2>2, <1>3
<1> DEFINE f == Find(m, from)
<1>6. f = CHOOSE i \in from..l : Good(i) /\ Clear(i)
    BY DEF Find
<1>7. f \in from..l /\ Good(f) /\ Clear(f)
    <2> HIDE DEF Good, Clear, f
    <2>. QED  BY ONLY <1>4, <1>5, <1>6
<1> HIDE DEF f
<1>8. f + 1 \in Borders(m)
    <2>1. CASE f = l
        BY <2>1 DEF Borders
    <2>2. CASE f # l
        <3>1. f + 1 \in 1..l /\ m[f + 1] = Separator
            BY <1>1, <1>7, <2>2
        <3>. QED  BY <3>1 DEF Borders, Separators
    <2>. QED  BY <2>1, <2>2
<1>9. ASSUME NEW c \in Borders(m), from < c, c < f + 1
      PROVE  FALSE
    <2>1. c \in Int /\ 0 < c /\ c <= l
        <3>1. c \in Int
            BY BordersFinite
        <3>. QED  BY <3>1, <1>1, <1>7, <1>9
    <2>2. m[c] = Separator
        BY <2>1, BordersFinite
    <2>3. c \in from + 1 .. f
        BY <2>1, <1>1, <1>7, <1>9
    <2>. QED  BY ONLY <2>2, <2>3, <1>7 DEF Clear
<1>. QED  BY <1>7, <1>8, <1>9 DEF f

\* The iterator after n tokens: at the next one, or at the end after them all.
At(m, n, range) ==
    \/ \E b \in Borders(m) : b <= Len(m) /\ Rank(m, b) = n /\ range = <<b, Find(m, b)>>
    \/ n = Tokens(m) /\ range = cend(m)

LEMMA FirstToken ==
    ASSUME NEW m \in Text
    PROVE  At(m, 0, cbegin(m))
<1>1. 0 \in Borders(m) /\ 0 <= Len(m)
    BY BordersFinite
<1>. QED  BY <1>1, RankEnds DEF At, cbegin

\* The token an iterator is at has the text between two borders.
LEMMA TokenHere ==
    ASSUME NEW m \in Text, NEW n \in Nat, NEW b \in Borders(m), b <= Len(m), Rank(m, b) = n
    PROVE  LET range == <<b, Find(m, b)>>
           IN  /\ n < Tokens(m)
               /\ Border(m, n) = b /\ Border(m, n + 1) = Find(m, b) + 1 /\ b \in 0..Len(m) /\ Find(m, b) \in b..Len(m)
               /\ Content(m, range) = TokenAt(m, n + 1)
               /\ At(m, n + 1, token_increment(m, range))
<1> DEFINE f == Find(m, b)
           range == <<b, f>>
           l == Len(m)
<1>1. /\ l \in Nat /\ b \in 0..l /\ Tokens(m) \in Nat
    BY BordersFinite
<1>2. /\ f \in b..l /\ f + 1 \in Borders(m)
      /\ \A c \in Borders(m) : ~(b < c /\ c < f + 1)
    BY <1>1, FindIs
<1>3. n < Tokens(m)
    BY RankEnds
<1> HIDE DEF f
<1>4. Rank(m, f + 1) = n + 1
    <2>1. b < f + 1
        BY <1>1, <1>2
    <2>. QED  BY ONLY <1>2, <2>1, RankNext, m \in Text, b \in Borders(m), Rank(m, b) = n
<1>5. Border(m, n) = b /\ Border(m, n + 1) = f + 1
    <2>1. Border(m, Rank(m, b)) = b
        BY BorderIs
    <2>2. Border(m, Rank(m, f + 1)) = f + 1
        BY <1>2, BorderIs
    <2>. QED  BY <2>1, <2>2, <1>4
<1>6. Content(m, range) = TokenAt(m, n + 1)
    <2>1. Content(m, range) = SubSeq(m, b + 1, f)
        BY DEF Content
    <2>2. TokenAt(m, n + 1) = SubSeq(m, Border(m, (n + 1) - 1) + 1, Border(m, n + 1) - 1)
        BY DEF TokenAt
    <2>3. (n + 1) - 1 = n /\ (f + 1) - 1 = f
        BY <1>1, <1>2
    <2>. QED  BY ONLY <2>1, <2>2, <2>3, <1>5
<1>7. At(m, n + 1, token_increment(m, range))
    <2>1. CASE f = l
        <3>1. token_increment(m, range) = <<l, Find(m, l)>>
            BY <2>1 DEF token_increment
        <3>2. Find(m, l) = l
            BY <1>1, FindIs
        <3>3. n + 1 = Tokens(m)
            BY <2>1, <1>4, RankEnds
        <3>. QED  BY ONLY <3>1, <3>2, <3>3 DEF At, cend, l
    <2>2. CASE f # l
        <3>1. token_increment(m, range) = <<f + 1, Find(m, f + 1)>>
            BY <2>2 DEF token_increment
        <3>2. f + 1 <= l
            BY <2>2, <1>1, <1>2
        <3>. QED  BY ONLY <3>1, <3>2, <1>2, <1>4 DEF At, l
    <2>. QED  BY <2>1, <2>2
<1>. QED  BY <1>1, <1>2, <1>3, <1>5, <1>6, <1>7 DEF f

\* A token of the text is a part of it.
LEMMA TokenIsText ==
    ASSUME NEW m \in Text, NEW b \in Borders(m), b <= Len(m)
    PROVE  Content(m, <<b, Find(m, b)>>) \in Text
<1>1. b \in 0..Len(m) /\ Len(m) \in Nat
    BY BordersFinite
<1>2. Find(m, b) \in b..Len(m)
    BY <1>1, FindIs
<1>3. b + 1 \in Nat \ {0} /\ Find(m, b) \in Int /\ Find(m, b) <= Len(m)
    BY <1>1, <1>2
<1>4. SubSeq(m, b + 1, Find(m, b)) \in Text
    BY ONLY <1>3, Slice, m \in Text
<1>. QED  BY <1>4 DEF Content

\* An iterator at the end is equal to the end, and one at a token that is not empty is not.
LEMMA AtTheEnd ==
    ASSUME NEW m \in Text, NEW n \in Nat, NEW range, At(m, n, range)
    PROVE  /\ n <= Tokens(m)
           /\ n = Tokens(m) => equal(m, range, cend(m))
           /\ n # Tokens(m) => \E b \in Borders(m) : b <= Len(m) /\ Rank(m, b) = n /\ range = <<b, Find(m, b)>>
           /\ n # Tokens(m) /\ equal(m, range, cend(m)) => TokenAt(m, n + 1) = <<>>
<1>1. Tokens(m) \in Nat /\ Len(m) \in Nat
    BY BordersFinite
<1>2. CASE \E b \in Borders(m) : b <= Len(m) /\ Rank(m, b) = n /\ range = <<b, Find(m, b)>>
    <2>1. PICK b \in Borders(m) : b <= Len(m) /\ Rank(m, b) = n /\ range = <<b, Find(m, b)>>
        BY <1>2
    <2>2. n < Tokens(m) /\ Find(m, b) \in b..Len(m) /\ b \in 0..Len(m) /\ Content(m, range) = TokenAt(m, n + 1)
        BY <2>1, TokenHere
    <2>3. ASSUME equal(m, range, cend(m)) PROVE TokenAt(m, n + 1) = <<>>
        <3>1. Find(m, b) - b = Len(m) - Len(m)
            BY <2>1, <2>3 DEF equal, size, cend
        <3>2. Find(m, b) < b + 1 /\ b + 1 \in Nat \ {0} /\ Find(m, b) \in Int /\ Find(m, b) <= Len(m)
            BY <1>1, <2>2, <3>1
        <3>3. SubSeq(m, b + 1, Find(m, b)) = <<>>
            BY ONLY <3>2, SliceWhole, m \in Text
        <3>. QED  BY <2>1, <2>2, <3>3 DEF Content
    <2>. QED  BY <1>1, <1>2, <2>2, <2>3
<1>3. CASE n = Tokens(m) /\ range = cend(m)
    <2>1. equal(m, cend(m), cend(m))
        BY DEF equal
    <2>. QED  BY <1>1, <1>3, <2>1
<1>. QED  BY <1>2, <1>3 DEF At

\* The loop over the tokens: those it has seen are the first of the text.
Tokenised(m, range, seen) ==
    /\ m \in Text /\ seen \in Seq(Text)
    /\ At(m, Len(seen), range)
    /\ \A k \in 1..Len(seen) : seen[k] = TokenAt(m, k)

LEMMA TokenStep ==
    ASSUME NEW m, NEW range, NEW seen, Tokenised(m, range, seen), ~equal(m, range, cend(m))
    PROVE  Tokenised(m, token_increment(m, range), Append(seen, Content(m, range)))
<1> DEFINE n == Len(seen)
           t == Append(seen, Content(m, range))
<1>1. m \in Text /\ seen \in Seq(Text) /\ n \in Nat /\ At(m, n, range)
    BY DEF Tokenised
<1>2. \A k \in 1..n : seen[k] = TokenAt(m, k)
    BY DEF Tokenised
<1> HIDE DEF n
<1>3. PICK b \in Borders(m) : b <= Len(m) /\ Rank(m, b) = n /\ range = <<b, Find(m, b)>>
    BY <1>1, AtTheEnd
<1>4. Content(m, range) = TokenAt(m, n + 1) /\ At(m, n + 1, token_increment(m, range))
    BY <1>1, <1>3, TokenHere
<1>5. Content(m, range) \in Text
    BY <1>1, <1>3, TokenIsText
<1>6. t \in Seq(Text) /\ Len(t) = n + 1 /\ t[n + 1] = Content(m, range) /\ \A k \in 1..n : t[k] = seen[k]
    BY <1>1, <1>5, AppendProperties DEF n
<1> HIDE DEF t
<1>7. \A k \in 1..Len(t) : t[k] = TokenAt(m, k)
    BY <1>1, <1>2, <1>4, <1>6
<1>. QED  BY <1>1, <1>4, <1>6, <1>7 DEF Tokenised, t

LEMMA TokenisedIsSound ==
    ASSUME NEW m, NEW range, NEW seen, Tokenised(m, range, seen)
    PROVE  /\ Len(seen) <= Tokens(m) /\ \A k \in 1..Len(seen) : seen[k] = TokenAt(m, k)
           /\ equal(m, range, cend(m)) /\ (\A k \in 1..Tokens(m) : TokenAt(m, k) # <<>>)
                => Len(seen) = Tokens(m)
<1> DEFINE n == Len(seen)
<1>1. m \in Text /\ n \in Nat /\ At(m, n, range) /\ \A k \in 1..n : seen[k] = TokenAt(m, k)
    BY DEF Tokenised
<1>2. Tokens(m) \in Nat
    BY <1>1, BordersFinite
<1> HIDE DEF n
<1>3. n <= Tokens(m)
    BY <1>1, AtTheEnd
<1>4. ASSUME equal(m, range, cend(m)), \A k \in 1..Tokens(m) : TokenAt(m, k) # <<>>, n # Tokens(m)
      PROVE  FALSE
    <2>1. TokenAt(m, n + 1) = <<>>
        BY <1>1, <1>4, AtTheEnd
    <2>2. n + 1 \in 1..Tokens(m)
        BY <1>1, <1>2, <1>3, <1>4
    <2>. QED  BY ONLY <2>1, <2>2, <1>4
<1>. QED  BY <1>1, <1>3, <1>4 DEF n

\* The text up to a token, the separator and the token are the text up to its end.
LEMMA Infixed ==
    ASSUME NEW m \in Text, NEW b \in Borders(m), b <= Len(m)
    PROVE  LET token == Content(m, <<b, Find(m, b)>>)
           IN  IF b = 0 THEN token = SubSeq(m, 1, Find(m, b)) ELSE
                    SubSeq(m, 1, b - 1) \o <<Separator>> \o token = SubSeq(m, 1, Find(m, b))
<1> DEFINE f == Find(m, b)
           token == Content(m, <<b, f>>)
<1>1. Len(m) \in Nat /\ b \in 0..Len(m) /\ (b # 0 => m[b] = Separator)
    BY BordersFinite
<1>2. f \in b..Len(m)
    BY <1>1, FindIs
<1>3. token = SubSeq(m, b + 1, f)
    BY DEF Content
<1> HIDE DEF f, token
<1>4. CASE b = 0
    <2>1. token = SubSeq(m, 1, f)
        BY <1>3, <1>4
    <2>. QED  BY <1>4, <2>1 DEF f, token
<1>5. CASE b # 0
    <2>1. b \in 1..Len(m) /\ m \in Seq(Nat)
        BY <1>1, <1>5 DEF Text
    <2>2. SubSeq(m, 1, b) = SubSeq(m, 1, b - 1) \o <<m[b]>>
        <3>1. 1 \in 1..Len(m) /\ b \in 1..Len(m)
            BY <1>1, <2>1
        <3>. QED  BY ONLY <2>1, <3>1, SubSeqRecursiveSecond
    <2>3. SubSeq(m, 1, b) \o SubSeq(m, b + 1, f) = SubSeq(m, 1, f)
        <3>1. 1 \in 1..Len(m) + 1 /\ b \in 1 - 1 .. Len(m) /\ f \in b..Len(m)
            BY <1>1, <1>2
        <3>. QED  BY ONLY <2>1, <3>1, ConcatAdjacentSubSeq
    <2>4. SubSeq(m, 1, b - 1) \o <<Separator>> \o token = SubSeq(m, 1, f)
        BY ONLY <1>1, <1>3, <1>5, <2>2, <2>3
    <2>. QED  BY <1>5, <2>4 DEF f, token
<1>. QED  BY <1>4, <1>5

\* The same with an index beside each, and the text up to there copied out.
Copied(m, n) == IF n = 0 THEN Blank ELSE [first |-> FALSE, text |-> SubSeq(m, 1, Border(m, n) - 1)]
Zipped(m, z, seen) ==
    /\ m \in Text /\ seen \in Seq(Text \X Nat)
    /\ At(m, Len(seen), z.token)
    /\ \A k \in 1..Len(seen) : seen[k] = <<TokenAt(m, k), k - 1>>
    /\ z = [token |-> z.token, indices |-> [index |-> Len(seen), count |-> Tokens(m)],
            out |-> Copied(m, Len(seen))]

LEMMA ZipStep ==
    ASSUME NEW m, NEW z, NEW seen, Zipped(m, z, seen), ~AtEnd(m, z)
    PROVE  Zipped(m, [z EXCEPT !.token = token_increment(m, z.token), !.indices.index = z.indices.index + 1,
                               !.out = infix(z.out, <<Separator>>, Content(m, z.token))],
                  Append(seen, <<Content(m, z.token), z.indices.index>>))
<1> DEFINE n == Len(seen)
           r == z.token
           c == Content(m, r)
           t == Append(seen, <<c, n>>)
           o == infix(Copied(m, n), <<Separator>>, c)
<1>1. m \in Text /\ seen \in Seq(Text \X Nat) /\ n \in Nat /\ At(m, n, r)
    BY DEF Zipped
<1>2. \A k \in 1..n : seen[k] = <<TokenAt(m, k), k - 1>>
    BY DEF Zipped
<1>3. z = [token |-> r, indices |-> [index |-> n, count |-> Tokens(m)], out |-> Copied(m, n)]
    BY DEF Zipped
<1> HIDE DEF n, r
<1>4. z.indices.index = n /\ z.indices.count = Tokens(m) /\ z.out = Copied(m, n) /\ z.token = r
    BY <1>3
<1>5. n # Tokens(m)
    BY <1>1, <1>4, AtTheEnd DEF AtEnd
<1>6. PICK b \in Borders(m) : b <= Len(m) /\ Rank(m, b) = n /\ r = <<b, Find(m, b)>>
    BY <1>1, <1>5, AtTheEnd
<1>7. /\ c = TokenAt(m, n + 1) /\ At(m, n + 1, token_increment(m, r))
      /\ Border(m, n) = b /\ Border(m, n + 1) = Find(m, b) + 1
      /\ b \in 0..Len(m) /\ Find(m, b) \in b..Len(m)
    BY <1>1, <1>6, TokenHere
<1>8. c \in Text
    BY <1>1, <1>6, TokenIsText
<1>9. o = Copied(m, n + 1)
    <2>1. IF b = 0 THEN c = SubSeq(m, 1, Find(m, b)) ELSE
             SubSeq(m, 1, b - 1) \o <<Separator>> \o c = SubSeq(m, 1, Find(m, b))
        BY ONLY <1>1, <1>6, Infixed DEF c
    <2>2. n = 0 <=> b = 0
        BY <1>1, <1>6, RankEnds
    <2> HIDE DEF c
    <2>3. Copied(m, n + 1) = [first |-> FALSE, text |-> SubSeq(m, 1, Find(m, b))]
        <3>1. n + 1 # 0 /\ Border(m, n + 1) - 1 = Find(m, b)
            BY <1>1, <1>7
        <3>. QED  BY ONLY <3>1 DEF Copied
    <2>4. CASE n = 0
        <3>1. <<>> \o c = c
            BY <1>8, ConcatEmptySeq DEF Text
        <3>2. o = [first |-> FALSE, text |-> <<>> \o c]
            BY <2>4 DEF Copied, infix, Blank
        <3>. QED  BY ONLY <3>1, <3>2, <2>1, <2>2, <2>3, <2>4
    <2>5. CASE n # 0
        <3>1. o = [first |-> FALSE, text |-> SubSeq(m, 1, b - 1) \o <<Separator>> \o c]
            BY <2>5, <1>7 DEF Copied, infix
        <3>. QED  BY ONLY <3>1, <2>1, <2>2, <2>3, <2>5
    <2>. QED  BY <2>4, <2>5
<1>10. t \in Seq(Text \X Nat) /\ Len(t) = n + 1 /\ t[n + 1] = <<c, n>> /\ \A k \in 1..n : t[k] = seen[k]
    <2>1. <<c, n>> \in Text \X Nat
        BY <1>1, <1>8
    <2>. QED  BY ONLY <2>1, <1>1, AppendProperties DEF n, t
<1>11. ASSUME NEW k \in 1..n + 1 PROVE t[k] = <<TokenAt(m, k), k - 1>>
    <2>1. CASE k \in 1..n
        BY <2>1, <1>2, <1>10
    <2>2. CASE k = n + 1
        <3>1. k - 1 = n
            BY <2>2, <1>1
        <3>2. t[k] = <<c, n>>
            BY ONLY <2>2, <1>10
        <3>3. TokenAt(m, k) = c
            BY ONLY <2>2, <1>7
        <3>. QED  BY ONLY <3>1, <3>2, <3>3
    <2>3. k \in 1..n \/ k = n + 1
        BY ONLY <1>1, k \in 1..n + 1
    <2>. QED  BY ONLY <2>1, <2>2, <2>3
<1> DEFINE y == [z EXCEPT !.token = token_increment(m, z.token), !.indices.index = z.indices.index + 1,
                          !.out = infix(z.out, <<Separator>>, Content(m, z.token))]
<1>12. /\ y = [token |-> y.token, indices |-> [index |-> n + 1, count |-> Tokens(m)], out |-> o]
       /\ y.token = token_increment(m, r)
    <2> DEFINE next == token_increment(m, r)
               i == [index |-> n, count |-> Tokens(m)]
               old == Copied(m, n)
    <2>1. z = [token |-> r, indices |-> i, out |-> old]
        BY <1>3
    <2>2. y = [z EXCEPT !.token = next, !.indices.index = n + 1, !.out = o]
        BY <1>4
    <2>3. [i EXCEPT !.index = n + 1] = [index |-> n + 1, count |-> Tokens(m)]
        OBVIOUS
    <2> HIDE DEF y, next, o, i, old, c
    <2>4. y = [token |-> next, indices |-> [i EXCEPT !.index = n + 1], out |-> o]
        BY ONLY <2>1, <2>2
    <2>5. y = [token |-> next, indices |-> [index |-> n + 1, count |-> Tokens(m)], out |-> o]
        BY ONLY <2>3, <2>4
    <2>. QED  BY ONLY <2>5 DEF next
<1>13. t = Append(seen, <<Content(m, z.token), z.indices.index>>)
    BY <1>4
<1> HIDE DEF y, o, t, c
<1>14. Zipped(m, y, t)
    BY <1>1, <1>7, <1>9, <1>10, <1>11, <1>12 DEF Zipped
<1>. QED  BY ONLY <1>13, <1>14 DEF y

LEMMA ZippedIsSound ==
    ASSUME NEW m, NEW z, NEW seen, Zipped(m, z, seen)
    PROVE  /\ \A k \in 1..Len(seen) : seen[k] = <<TokenAt(m, k), k - 1>>
           /\ AtEnd(m, z) => Len(seen) = Tokens(m) /\ z.out.text = m
<1>1. m \in Text /\ At(m, Len(seen), z.token) /\ \A k \in 1..Len(seen) : seen[k] = <<TokenAt(m, k), k - 1>>
    BY DEF Zipped
<1>2. z = [token |-> z.token, indices |-> [index |-> Len(seen), count |-> Tokens(m)],
           out |-> Copied(m, Len(seen))]
    BY DEF Zipped
<1>3. ASSUME AtEnd(m, z) PROVE Len(seen) = Tokens(m) /\ z.out.text = m
    <2>1. Len(seen) = Tokens(m)
        BY <1>2, <1>3 DEF AtEnd
    <2>2. z.out = Copied(m, Tokens(m))
        BY <1>2, <2>1
    <2>3. Border(m, Tokens(m)) = Len(m) + 1 /\ Len(m) \in Nat /\ Tokens(m) \in Nat /\ Tokens(m) > 0
        <3>1. /\ Len(m) + 1 \in Borders(m) /\ 0 \in Borders(m) /\ Len(m) \in Nat /\ Tokens(m) \in Nat
            BY <1>1, BordersFinite
        <3>2. Rank(m, Len(m) + 1) = Tokens(m) /\ Rank(m, 0) = 0 /\ (0 <= Len(m) => Rank(m, 0) < Tokens(m))
            BY <1>1, <3>1, RankEnds
        <3>3. Border(m, Rank(m, Len(m) + 1)) = Len(m) + 1
            BY <1>1, <3>1, BorderIs
        <3>. QED  BY <3>1, <3>2, <3>3
    <2>4. z.out.text = SubSeq(m, 1, Border(m, Tokens(m)) - 1)
        BY ONLY <2>2, <2>3 DEF Copied
    <2>5. Border(m, Tokens(m)) - 1 = Len(m)
        BY <2>3
    <2>6. SubSeq(m, 1, Len(m)) = m
        BY <1>1, SliceWhole
    <2>. QED  BY ONLY <2>1, <2>4, <2>5, <2>6
<1>. QED  BY <1>1, <1>3

-----------------------------------------------------------------------------
(* Views.                                                                  *)

Places == Nat \ {0}
\* Sequences of numbers without end, in the order of the first that differs.
Lex(f, g) == \E i \in Places : f[i] < g[i] /\ \A k \in Places : k < i => f[k] = g[k]

LEMMA LexTotal ==
    ASSUME NEW f \in [Places -> Nat], NEW g \in [Places -> Nat]
    PROVE  /\ f = g \/ Lex(f, g) \/ Lex(g, f)
           /\ Lex(f, g) => f # g /\ ~Lex(g, f)
<1>1. ASSUME f # g PROVE Lex(f, g) \/ Lex(g, f)
    <2> DEFINE S == {i \in Places : f[i] # g[i]}
    <2>1. S # {} /\ S \in SUBSET Nat
        BY <1>1 DEF Places
    <2>2. PICK e \in S : \A d \in S : e <= d
        BY <2>1, Least
    <2>3. e \in Places /\ f[e] # g[e]
        BY <2>2
    <2>4. \A k \in Places : k < e => f[k] = g[k]
        <3> SUFFICES ASSUME NEW k \in Places, k < e, f[k] # g[k] PROVE FALSE
            OBVIOUS
        <3>1. e <= k
            BY <2>2
        <3>. QED  BY <3>1, <2>3 DEF Places
    <2>5. f[e] < g[e] \/ g[e] < f[e]
        BY <2>3
    <2>. QED  BY <2>3, <2>4, <2>5 DEF Lex
<1>2. ASSUME NEW i \in Places, f[i] < g[i], \A k \in Places : k < i => f[k] = g[k],
             NEW j \in Places, g[j] < f[j], \A k \in Places : k < j => g[k] = f[k]
      PROVE  FALSE
    <2>1. f[i] \in Nat /\ g[i] \in Nat /\ f[j] \in Nat /\ g[j] \in Nat
        OBVIOUS
    <2>2. ~(j < i) /\ ~(i < j)
        BY ONLY <1>2, <2>1
    <2>3. i = j
        BY <2>2 DEF Places
    <2>. QED  BY ONLY <2>1, <2>3, <1>2
<1>3. ASSUME NEW i \in Places, f[i] < g[i]
      PROVE  f # g
    <2>1. f[i] \in Nat /\ g[i] \in Nat
        OBVIOUS
    <2>. QED  BY <1>3, <2>1
<1>. QED  BY <1>1, <1>2, <1>3 DEF Lex

LEMMA LexTransitive ==
    ASSUME NEW f \in [Places -> Nat], NEW g \in [Places -> Nat], NEW h \in [Places -> Nat],
           Lex(f, g), Lex(g, h)
    PROVE  Lex(f, h)
<1>1. PICK i \in Places : f[i] < g[i] /\ \A k \in Places : k < i => f[k] = g[k]
    BY DEF Lex
<1>2. PICK j \in Places : g[j] < h[j] /\ \A k \in Places : k < j => g[k] = h[k]
    BY DEF Lex
<1>3. i \in Nat /\ j \in Nat
    BY DEF Places
<1>4. \A k \in Places : k \in Nat /\ f[k] \in Nat /\ g[k] \in Nat /\ h[k] \in Nat
    BY DEF Places
<1>5. CASE i < j
    <2>1. f[i] < h[i]
        BY <1>1, <1>2, <1>4, <1>5
    <2>2. \A k \in Places : k < i => f[k] = h[k]
        BY <1>1, <1>2, <1>3, <1>4, <1>5
    <2>. QED  BY <2>1, <2>2 DEF Lex
<1>6. CASE j < i
    <2>1. f[j] < h[j]
        BY <1>1, <1>2, <1>4, <1>6
    <2>2. \A k \in Places : k < j => f[k] = h[k]
        BY <1>1, <1>2, <1>3, <1>4, <1>6
    <2>. QED  BY <2>1, <2>2 DEF Lex
<1>7. CASE i = j
    <2>1. f[i] < h[i]
        BY <1>1, <1>2, <1>4, <1>7
    <2>2. \A k \in Places : k < i => f[k] = h[k]
        BY <1>1, <1>2, <1>3, <1>4, <1>7
    <2>. QED  BY <2>1, <2>2 DEF Lex
<1>. QED  BY <1>3, <1>5, <1>6, <1>7

\* What an order of C strings sees of a text: its characters up to a null.
Live(s, i) == i <= Len(s) /\ \A k \in Places : k < i => s[k] # 0
Key(s) == [i \in Places |-> IF Live(s, i) THEN s[i] + 1 ELSE 0]
\* The order of views, the lengths when that is not enough.
Precedes(s, t) == Lex(Key(s), Key(t)) \/ (Key(s) = Key(t) /\ Len(s) < Len(t))

LEMMA KeyType ==
    ASSUME NEW s \in Text
    PROVE  /\ Key(s) \in [Places -> Nat]
           /\ \A i \in Places : Key(s)[i] = IF Live(s, i) THEN s[i] + 1 ELSE 0
           /\ \A i \in Places : Live(s, i) => i \in 1..Len(s) /\ s[i] \in Nat /\ Key(s)[i] # 0
<1>1. ASSUME NEW i \in Places, Live(s, i) PROVE i \in 1..Len(s) /\ s[i] \in Nat
    <2>1. i \in 1..Len(s)
        BY <1>1 DEF Live, Places, Text
    <2>. QED  BY <2>1 DEF Text
<1>2. Key(s) \in [Places -> Nat]
    BY <1>1 DEF Key
<1>3. \A i \in Places : Key(s)[i] = IF Live(s, i) THEN s[i] + 1 ELSE 0
    BY DEF Key
<1>. QED  BY <1>1, <1>2, <1>3

\* A strict weak order.
LEMMA PrecedesOrders ==
    ASSUME NEW s \in Text, NEW t \in Text, NEW u \in Text
    PROVE  /\ Precedes(s, t) => ~Precedes(t, s)
           /\ Precedes(s, t) /\ Precedes(t, u) => Precedes(s, u)
           /\ ~Precedes(s, t) /\ ~Precedes(t, s) <=> Key(s) = Key(t) /\ Len(s) = Len(t)
<1> DEFINE f == Key(s)
           g == Key(t)
           h == Key(u)
<1>1. f \in [Places -> Nat] /\ g \in [Places -> Nat] /\ h \in [Places -> Nat]
    BY KeyType
<1>2. Len(s) \in Nat /\ Len(t) \in Nat /\ Len(u) \in Nat
    BY DEF Text
<1> HIDE DEF f, g, h
<1>3. /\ f = g \/ Lex(f, g) \/ Lex(g, f)
      /\ Lex(f, g) => f # g /\ ~Lex(g, f)
      /\ Lex(g, f) => f # g /\ ~Lex(f, g)
    BY ONLY <1>1, LexTotal
<1>4. Lex(f, g) /\ Lex(g, h) => Lex(f, h)
    BY ONLY <1>1, LexTransitive
<1>5. Precedes(s, t) <=> Lex(f, g) \/ (f = g /\ Len(s) < Len(t))
    BY DEF Precedes, f, g
<1>6. Precedes(t, s) <=> Lex(g, f) \/ (g = f /\ Len(t) < Len(s))
    BY DEF Precedes, f, g
<1>7. Precedes(t, u) <=> Lex(g, h) \/ (g = h /\ Len(t) < Len(u))
    BY DEF Precedes, g, h
<1>8. Precedes(s, u) <=> Lex(f, h) \/ (f = h /\ Len(s) < Len(u))
    BY DEF Precedes, f, h
<1>9. Precedes(s, t) => ~Precedes(t, s)
    BY ONLY <1>2, <1>3, <1>5, <1>6
<1>10. Precedes(s, t) /\ Precedes(t, u) => Precedes(s, u)
    BY ONLY <1>2, <1>4, <1>5, <1>7, <1>8
<1>11. ~Precedes(s, t) /\ ~Precedes(t, s) <=> f = g /\ Len(s) = Len(t)
    BY ONLY <1>2, <1>3, <1>5, <1>6
<1>. QED  BY ONLY <1>9, <1>10, <1>11 DEF f, g

\* Where two keys first differ in both texts, so do their characters, none of
\* them after a null.
LEMMA FirstDifference ==
    ASSUME NEW s \in Text, NEW t \in Text, NEW i \in Places, i <= Len(s), i <= Len(t),
           Key(s)[i] # Key(t)[i], \A k \in Places : k < i => Key(s)[k] = Key(t)[k]
    PROVE  /\ s[i] # t[i] /\ Key(s)[i] = s[i] + 1 /\ Key(t)[i] = t[i] + 1
           /\ \A k \in Places : k < i => s[k] = t[k] /\ s[k] # 0
<1>1. /\ \A k \in Places : Key(s)[k] = IF Live(s, k) THEN s[k] + 1 ELSE 0
      /\ \A k \in Places : Live(s, k) => s[k] \in Nat /\ Key(s)[k] # 0
      /\ \A k \in Places : Key(t)[k] = IF Live(t, k) THEN t[k] + 1 ELSE 0
      /\ \A k \in Places : Live(t, k) => t[k] \in Nat /\ Key(t)[k] # 0
    BY KeyType
<1>2. i \in Nat /\ Len(s) \in Nat /\ Len(t) \in Nat /\ \A k \in Places : k \in Nat
    BY DEF Places, Text
<1>3. Live(s, i) \/ Live(t, i)
    BY ONLY <1>1, Key(s)[i] # Key(t)[i], i \in Places
<1>4. \A k \in Places : k < i /\ (Live(s, k) \/ Live(t, k)) => s[k] = t[k]
    <2> SUFFICES ASSUME NEW k \in Places, k < i, Live(s, k) \/ Live(t, k) PROVE s[k] = t[k]
        OBVIOUS
    <2>1. Key(s)[k] = Key(t)[k]
        OBVIOUS
    <2>2. Live(s, k) /\ Live(t, k)
        BY ONLY <1>1, <2>1, Live(s, k) \/ Live(t, k), k \in Places
    <2>3. s[k] + 1 = t[k] + 1 /\ s[k] \in Nat /\ t[k] \in Nat
        BY ONLY <1>1, <2>1, <2>2, k \in Places
    <2>. QED  BY ONLY <2>3
<1>5. \A k \in Places : k < i => s[k] = t[k] /\ s[k] # 0
    <2> SUFFICES ASSUME NEW k \in Places, k < i PROVE s[k] = t[k] /\ s[k] # 0
        OBVIOUS
    <2>1. \A j \in Places : j < k => j < i
        BY <1>2
    <2>2. k <= Len(s) /\ k <= Len(t)
        BY <1>2
    <2>3. CASE Live(s, i)
        <3>1. s[k] # 0 /\ Live(s, k)
            BY <2>1, <2>2, <2>3 DEF Live
        <3>. QED  BY <3>1, <1>4
    <2>4. CASE Live(t, i)
        <3>1. t[k] # 0 /\ Live(t, k)
            BY <2>1, <2>2, <2>4 DEF Live
        <3>. QED  BY <3>1, <1>4
    <2>. QED  BY <1>3, <2>3, <2>4
<1>6. Live(s, i) /\ Live(t, i)
    BY <1>5 DEF Live
<1>7. Key(s)[i] = s[i] + 1 /\ Key(t)[i] = t[i] + 1
    BY <1>1, <1>6
<1>. QED  BY <1>5, <1>7

\* What is in a view, element by element.
LEMMA ContentIs ==
    ASSUME NEW m \in Text, NEW v \in ViewsOf(m)
    PROVE  /\ Content(m, v) \in Text /\ Len(Content(m, v)) = size(v) /\ size(v) \in Nat
           /\ \A i \in 1..size(v) : Content(m, v)[i] = m[v[1] + i]
<1> DEFINE f == v[1]
           l == v[2]
           s == SubSeq(m, f + 1, l)
<1>1. Len(m) \in Nat
    BY DEF Text
<1>2. f \in 0..Len(m) /\ l \in 0..Len(m) /\ f <= l
    BY DEF ViewsOf
<1>3. Content(m, v) = s /\ size(v) = l - f
    BY DEF Content, size
<1> HIDE DEF f, l
<1>4. f + 1 \in Nat \ {0} /\ l \in Int /\ l <= Len(m)
    BY <1>1, <1>2
<1>5. /\ s \in Text /\ Len(s) = IF f + 1 <= l THEN l - (f + 1) + 1 ELSE 0
      /\ \A i \in 1..(l - (f + 1) + 1) : s[i] = m[(f + 1) + i - 1]
    BY ONLY <1>4, Slice, m \in Text
<1> HIDE DEF s
<1>6. Len(s) = l - f /\ l - f \in Nat
    BY <1>1, <1>2, <1>5
<1>7. ASSUME NEW i \in 1..(l - f) PROVE s[i] = m[f + i]
    <2>1. i \in 1..(l - (f + 1) + 1) /\ (f + 1) + i - 1 = f + i
        BY <1>2
    <2>. QED  BY ONLY <2>1, <1>5
<1>. QED  BY ONLY <1>3, <1>5, <1>6, <1>7 DEF f

\* Views are equal when what is in them is.
LEMMA EqualIs ==
    ASSUME NEW m \in Text, NEW v \in ViewsOf(m), NEW w \in ViewsOf(m)
    PROVE  equal(m, v, w) <=> Content(m, v) = Content(m, w)
<1> DEFINE s == Content(m, v)
           t == Content(m, w)
<1>1. /\ s \in Text /\ Len(s) = size(v) /\ size(v) \in Nat /\ \A i \in 1..size(v) : s[i] = m[v[1] + i]
      /\ t \in Text /\ Len(t) = size(w) /\ size(w) \in Nat /\ \A i \in 1..size(w) : t[i] = m[w[1] + i]
    BY ContentIs
<1> HIDE DEF s, t
<1>2. ASSUME s = t PROVE equal(m, v, w)
    BY <1>1, <1>2 DEF equal
<1>3. ASSUME equal(m, v, w) PROVE s = t
    <2>1. size(v) = size(w) /\ \A i \in 1..size(v) : m[v[1] + i] = m[w[1] + i]
        BY <1>3 DEF equal
    <2>2. Len(s) = Len(t) /\ \A i \in 1..Len(s) : s[i] = t[i]
        BY <1>1, <2>1
    <2>. QED  BY <1>1, <2>2, SameText
<1>. QED  BY <1>2, <1>3 DEF s, t

\* The characters strncmp finds to differ.
Shorter(s, t) == IF Len(s) < Len(t) THEN Len(s) ELSE Len(t)
Differs(s, t) == {i \in 1..Shorter(s, t) :
                    s[i] # t[i] /\ \A k \in 1..i - 1 : s[k] = t[k] /\ s[k] # 0}

LEMMA StrncmpIs ==
    ASSUME NEW m \in Text, NEW v \in ViewsOf(m), NEW w \in ViewsOf(m)
    PROVE  LET s == Content(m, v)
               t == Content(m, w)
           IN  /\ Differs(s, t) = {} => (less(m, v, w) <=> Len(s) < Len(t))
               /\ Differs(s, t) # {} =>
                    \E i \in Differs(s, t) : s[i] \in Nat /\ t[i] \in Nat /\ (less(m, v, w) <=> s[i] < t[i])
<1> DEFINE s == Content(m, v)
           t == Content(m, w)
           n == IF size(v) < size(w) THEN size(v) ELSE size(w)
           D == {i \in 1..n : /\ m[v[1] + i] # m[w[1] + i]
                              /\ \A k \in 1..i - 1 : m[v[1] + k] = m[w[1] + k] /\ m[v[1] + k] # 0}
           res == strncmp(m, v, w, n)
<1>1. /\ s \in Text /\ Len(s) = size(v) /\ size(v) \in Nat /\ \A i \in 1..size(v) : s[i] = m[v[1] + i]
      /\ t \in Text /\ Len(t) = size(w) /\ size(w) \in Nat /\ \A i \in 1..size(w) : t[i] = m[w[1] + i]
    BY ContentIs
<1>2. less(m, v, w) <=> res < 0 \/ (res = 0 /\ size(v) < size(w))
    BY DEF less
<1>3. res = IF D = {} THEN 0 ELSE LET i == CHOOSE i \in D : TRUE IN m[v[1] + i] - m[w[1] + i]
    BY DEF strncmp
<1> HIDE DEF s, t, res
<1>4. n \in Nat /\ n <= size(v) /\ n <= size(w) /\ n = Shorter(s, t)
    BY <1>1 DEF Shorter
<1> HIDE DEF n
<1>5. \A i \in 1..n : /\ i \in Nat /\ m[v[1] + i] = s[i] /\ m[w[1] + i] = t[i]
                      /\ s[i] \in Nat /\ t[i] \in Nat
                      /\ \A k \in 1..i - 1 : m[v[1] + k] = s[k] /\ m[w[1] + k] = t[k]
    <2> SUFFICES ASSUME NEW i \in 1..n
                 PROVE  /\ i \in Nat /\ m[v[1] + i] = s[i] /\ m[w[1] + i] = t[i]
                        /\ s[i] \in Nat /\ t[i] \in Nat
                        /\ \A k \in 1..i - 1 : m[v[1] + k] = s[k] /\ m[w[1] + k] = t[k]
        OBVIOUS
    <2>1. i \in Nat /\ i \in 1..size(v) /\ i \in 1..size(w) /\ i \in 1..Len(s) /\ i \in 1..Len(t)
        BY <1>1, <1>4
    <2>2. \A k \in 1..i - 1 : k \in 1..size(v) /\ k \in 1..size(w)
        BY <1>1, <1>4
    <2>3. s[i] \in Nat /\ t[i] \in Nat
        BY <1>1, <2>1 DEF Text
    <2>. QED  BY <1>1, <2>1, <2>2, <2>3
<1>6. D = Differs(s, t)
    BY ONLY <1>4, <1>5 DEF D, Differs
<1> HIDE DEF D
<1>7. CASE D = {}
    BY <1>1, <1>2, <1>3, <1>6, <1>7 DEF s, t
<1>8. CASE D # {}
    <2> DEFINE i == CHOOSE i \in D : TRUE
    <2>1. i \in D
        BY <1>8
    <2>2. res = m[v[1] + i] - m[w[1] + i]
        BY <1>3, <1>8
    <2> HIDE DEF i
    <2>3. i \in 1..n
        BY <2>1, <1>4, <1>6 DEF Differs
    <2>4. s[i] \in Nat /\ t[i] \in Nat /\ res = s[i] - t[i] /\ s[i] # t[i]
        BY <2>1, <2>2, <2>3, <1>5, <1>6 DEF Differs
    <2>5. less(m, v, w) <=> s[i] < t[i]
        BY ONLY <2>4, <1>2
    <2>. QED  BY ONLY <1>6, <1>8, <2>1, <2>4, <2>5 DEF s, t
<1>. QED  BY <1>7, <1>8

\* Views are in the order of what is in them.
LEMMA LessIs ==
    ASSUME NEW m \in Text, NEW v \in ViewsOf(m), NEW w \in ViewsOf(m)
    PROVE  less(m, v, w) <=> Precedes(Content(m, v), Content(m, w))
<1> DEFINE s == Content(m, v)
           t == Content(m, w)
           f == Key(s)
           g == Key(t)
<1>1. s \in Text /\ t \in Text
    BY ContentIs
<1>2. /\ Differs(s, t) = {} => (less(m, v, w) <=> Len(s) < Len(t))
      /\ Differs(s, t) # {} =>
            \E i \in Differs(s, t) : s[i] \in Nat /\ t[i] \in Nat /\ (less(m, v, w) <=> s[i] < t[i])
    BY StrncmpIs
<1> HIDE DEF s, t
<1>3. Len(s) \in Nat /\ Len(t) \in Nat /\ \A k \in Places : k \in Nat
    BY <1>1 DEF Text, Places
<1>4. /\ f \in [Places -> Nat] /\ g \in [Places -> Nat]
      /\ \A k \in Places : f[k] = IF Live(s, k) THEN s[k] + 1 ELSE 0
      /\ \A k \in Places : g[k] = IF Live(t, k) THEN t[k] + 1 ELSE 0
    BY <1>1, KeyType
<1>5. /\ f = g \/ Lex(f, g) \/ Lex(g, f)
      /\ Lex(f, g) => f # g /\ ~Lex(g, f)
      /\ Lex(g, f) => f # g /\ ~Lex(f, g)
    BY <1>4, LexTotal
<1>6. Precedes(s, t) <=> Lex(f, g) \/ (f = g /\ Len(s) < Len(t))
    BY DEF Precedes
<1>11. \A i \in Places : i <= Len(s) /\ i <= Len(t) /\ f[i] # g[i] /\ (\A k \in Places : k < i => f[k] = g[k])
                           => i \in Differs(s, t)
    <2> SUFFICES ASSUME NEW i \in Places, i <= Len(s), i <= Len(t), f[i] # g[i],
                        \A k \in Places : k < i => f[k] = g[k]
                 PROVE  i \in Differs(s, t)
        OBVIOUS
    <2>1. s[i] # t[i] /\ \A k \in Places : k < i => s[k] = t[k] /\ s[k] # 0
        BY <1>1, FirstDifference
    <2>2. i \in 1..Shorter(s, t)
        BY <1>3 DEF Shorter, Places
    <2>3. \A k \in 1..i - 1 : k \in Places /\ k < i
        BY <1>3 DEF Places
    <2>. QED  BY <2>1, <2>2, <2>3 DEF Differs
<1> HIDE DEF f, g
<1>7. CASE Differs(s, t) # {}
    <2>1. PICK i \in Differs(s, t) : s[i] \in Nat /\ t[i] \in Nat /\ (less(m, v, w) <=> s[i] < t[i])
        BY <1>2, <1>7
    <2>2. /\ i \in Places /\ i <= Len(s) /\ i <= Len(t) /\ s[i] # t[i]
          /\ \A k \in Places : k < i => s[k] = t[k] /\ s[k] # 0
        <3>1. /\ i \in 1..Shorter(s, t) /\ s[i] # t[i]
              /\ \A k \in 1..i - 1 : s[k] = t[k] /\ s[k] # 0
            BY DEF Differs
        <3>2. i \in Places /\ i <= Len(s) /\ i <= Len(t)
            BY <1>3, <3>1 DEF Shorter, Places
        <3>3. \A k \in Places : k < i => k \in 1..i - 1
            BY <3>2, <1>3 DEF Places
        <3>. QED  BY ONLY <3>1, <3>2, <3>3
    <2>3. \A k \in Places : k <= i => Live(s, k) /\ Live(t, k)
        <3> SUFFICES ASSUME NEW k \in Places, k <= i PROVE Live(s, k) /\ Live(t, k)
            OBVIOUS
        <3>1. k <= Len(s) /\ k <= Len(t) /\ \A j \in Places : j < k => j < i
            BY <1>3, <2>2
        <3>. QED  BY <2>2, <3>1 DEF Live
    <2>4. f[i] = s[i] + 1 /\ g[i] = t[i] + 1 /\ \A k \in Places : k < i => f[k] = g[k]
        <3>1. i <= i /\ \A k \in Places : k < i => k <= i
            BY <2>2, <1>3
        <3>. QED  BY <1>4, <2>2, <2>3, <3>1
    <2>5. CASE s[i] < t[i]
        <3>1. Lex(f, g)
            <4>1. f[i] < g[i]
                BY <2>1, <2>4, <2>5
            <4>. QED  BY <2>2, <2>4, <4>1 DEF Lex
        <3>. QED  BY <3>1, <2>1, <2>5, <1>6 DEF s, t
    <2>6. CASE ~(s[i] < t[i])
        <3>1. Lex(g, f)
            <4>1. g[i] < f[i]
                BY <2>1, <2>2, <2>4, <2>6
            <4>. QED  BY <2>2, <2>4, <4>1 DEF Lex
        <3>. QED  BY <3>1, <2>1, <2>6, <1>5, <1>6 DEF s, t
    <2>. QED  BY <2>5, <2>6
<1>8. CASE Differs(s, t) = {}
    <2>1. less(m, v, w) <=> Len(s) < Len(t)
        BY <1>2, <1>8
    <2>2. CASE f = g
        BY <2>1, <2>2, <1>5, <1>6 DEF s, t
    <2>3. CASE Lex(f, g)
        <3>1. PICK i \in Places : f[i] < g[i] /\ \A k \in Places : k < i => f[k] = g[k]
            BY <2>3 DEF Lex
        <3>2. f[i] \in Nat /\ g[i] \in Nat
            BY <1>4
        <3>3. ~(i <= Len(s) /\ i <= Len(t))
            BY <1>8, <1>11, <3>1, <3>2
        <3>4. Live(t, i)
            BY <1>4, <3>1, <3>2
        <3>5. Len(s) < Len(t)
            BY <3>3, <3>4, <1>3 DEF Live
        <3>. QED  BY <3>5, <2>1, <2>3, <1>6 DEF s, t
    <2>4. CASE Lex(g, f)
        <3>1. PICK i \in Places : g[i] < f[i] /\ \A k \in Places : k < i => g[k] = f[k]
            BY <2>4 DEF Lex
        <3>2. f[i] \in Nat /\ g[i] \in Nat
            BY <1>4
        <3>3. ~(i <= Len(s) /\ i <= Len(t))
            BY <1>8, <1>11, <3>1, <3>2
        <3>4. Live(s, i)
            BY <1>4, <3>1, <3>2
        <3>5. ~(Len(s) < Len(t))
            BY <3>3, <3>4, <1>3 DEF Live
        <3>. QED  BY <3>5, <2>1, <2>4, <1>5, <1>6 DEF s, t
    <2>. QED  BY <1>5, <2>2, <2>3, <2>4
<1>. QED  BY <1>7, <1>8

LEMMA NoNullIs ==
    ASSUME NEW m \in Text, NEW v \in ViewsOf(m), NoNull(m, v)
    PROVE  \A i \in 1..Len(Content(m, v)) :
             /\ i \in Places /\ Content(m, v)[i] # 0 /\ Content(m, v)[i] \in Nat
             /\ Live(Content(m, v), i) /\ Key(Content(m, v))[i] = Content(m, v)[i] + 1
<1> DEFINE s == Content(m, v)
<1>1. s \in Text /\ Len(s) = size(v) /\ size(v) \in Nat /\ \A i \in 1..size(v) : s[i] = m[v[1] + i]
    BY ContentIs
<1> HIDE DEF s
<1>2. \A i \in 1..Len(s) : s[i] # 0
    BY <1>1 DEF NoNull
<1>3. ASSUME NEW i \in 1..Len(s)
      PROVE  i \in Places /\ Live(s, i)
    <2>1. i \in Places /\ i <= Len(s)
        BY <1>1 DEF Places
    <2>2. \A k \in Places : k < i => k \in 1..Len(s)
        BY <1>1, <2>1 DEF Places
    <2>. QED  BY <1>2, <2>1, <2>2 DEF Live
<1>4. ASSUME NEW i \in 1..Len(s)
      PROVE  s[i] \in Nat /\ Key(s)[i] = s[i] + 1
    BY <1>1, <1>3, KeyType
<1>. QED  BY <1>2, <1>3, <1>4 DEF s

\* Of views without a null, neither is less only when they are equal, and none
\* is less than one it begins with.
LEMMA StringsCompare ==
    ASSUME NEW m \in Text, NEW v \in ViewsOf(m), NEW w \in ViewsOf(m), NoNull(m, v), NoNull(m, w)
    PROVE  /\ equal(m, v, w) <=> Incomparable(m, v, w)
           /\ strbegins(m, v, w) => ~less(m, v, w)
<1> DEFINE s == Content(m, v)
           t == Content(m, w)
<1>1. /\ s \in Text /\ t \in Text /\ Len(s) \in Nat /\ Len(t) \in Nat /\ Len(s) = size(v) /\ Len(t) = size(w)
      /\ \A i \in 1..size(v) : s[i] = m[v[1] + i]
      /\ \A i \in 1..size(w) : t[i] = m[w[1] + i]
    BY ContentIs
<1>2. \A i \in 1..Len(s) : i \in Places /\ s[i] \in Nat /\ Key(s)[i] = s[i] + 1
    BY NoNullIs
<1>3. \A i \in 1..Len(t) : i \in Places /\ t[i] \in Nat /\ Key(t)[i] = t[i] + 1
    BY NoNullIs
<1>4. equal(m, v, w) <=> s = t
    BY EqualIs
<1>5. (less(m, v, w) <=> Precedes(s, t)) /\ (less(m, w, v) <=> Precedes(t, s))
    BY LessIs
<1> HIDE DEF s, t
<1>6. ~Precedes(s, t) /\ ~Precedes(t, s) <=> Key(s) = Key(t) /\ Len(s) = Len(t)
    BY <1>1, PrecedesOrders
<1>7. Key(s) = Key(t) /\ Len(s) = Len(t) => s = t
    <2> SUFFICES ASSUME Key(s) = Key(t), Len(s) = Len(t) PROVE s = t
        OBVIOUS
    <2>1. \A i \in 1..Len(s) : s[i] = t[i]
        <3> SUFFICES ASSUME NEW i \in 1..Len(s) PROVE s[i] = t[i]
            OBVIOUS
        <3>1. s[i] \in Nat /\ t[i] \in Nat /\ s[i] + 1 = t[i] + 1
            BY <1>2, <1>3
        <3>. QED  BY ONLY <3>1
    <2>. QED  BY <2>1, <1>1, SameText
<1>8. equal(m, v, w) <=> Incomparable(m, v, w)
    BY ONLY <1>4, <1>5, <1>6, <1>7 DEF Incomparable
<1>9. ASSUME strbegins(m, v, w) PROVE ~Precedes(s, t)
    <2>1. \A i \in 1..Len(t) : i <= Len(s) /\ t[i] = s[i]
        <3> SUFFICES ASSUME NEW i \in 1..Len(t) PROVE i <= Len(s) /\ t[i] = s[i]
            OBVIOUS
        <3>1. i <= size(v) /\ m[v[1] + i] = m[w[1] + i]
            BY <1>1, <1>9 DEF strbegins
        <3>2. i \in 1..size(v) /\ i \in 1..size(w)
            BY <1>1, <3>1
        <3>. QED  BY <1>1, <3>1, <3>2
    <2>2. Len(t) <= Len(s)
        <3>1. CASE Len(t) = 0
            BY <1>1, <3>1
        <3>2. CASE Len(t) # 0
            <4>1. Len(t) \in 1..Len(t)
                BY <1>1, <3>2
            <4>. QED  BY <4>1, <2>1
        <3>. QED  BY <3>1, <3>2
    <2>3. ~Lex(Key(s), Key(t))
        <3> SUFFICES ASSUME NEW i \in Places, Key(s)[i] < Key(t)[i] PROVE FALSE
            BY DEF Lex
        <3>1. /\ Key(s)[i] \in Nat /\ Key(t)[i] \in Nat
              /\ Key(t)[i] = IF Live(t, i) THEN t[i] + 1 ELSE 0
            BY <1>1, KeyType
        <3>2. Live(t, i)
            BY ONLY <3>1, Key(s)[i] < Key(t)[i]
        <3>3. i \in 1..Len(t)
            BY <1>1, <3>2, KeyType
        <3>4. i \in 1..Len(s) /\ s[i] = t[i]
            BY <1>1, <2>1, <3>3
        <3>5. Key(s)[i] = Key(t)[i]
            BY <1>2, <1>3, <3>3, <3>4
        <3>. QED  BY ONLY <3>1, <3>5, Key(s)[i] < Key(t)[i]
    <2>. QED  BY <1>1, <2>2, <2>3 DEF Precedes
<1>. QED  BY <1>5, <1>8, <1>9

LEMMA ViewsOrdered ==
    ASSUME NEW m \in Text
    PROVE  Ordered(m)
<1>1. make_view_string(m) = make_view(m)
    BY DEF make_view_string, make_view
<1>2. Content(m, make_view_cstr(m)) = SubSeq(m, 1, strlen(m))
    <2>1. make_view_cstr(m)[1] = 0 /\ make_view_cstr(m)[2] = strlen(m)
        BY DEF make_view_cstr, view
    <2>2. make_view_cstr(m)[1] + 1 = 1
        BY <2>1
    <2>. QED  BY ONLY <2>1, <2>2 DEF Content
<1>3. ASSUME NEW v \in ViewsOf(m), NEW w \in ViewsOf(m)
      PROVE  /\ equal(m, v, w) <=> Content(m, v) = Content(m, w)
             /\ less(m, v, w) => ~less(m, w, v)
             /\ NoNull(m, v) /\ NoNull(m, w) => (equal(m, v, w) <=> Incomparable(m, v, w))
             /\ NoNull(m, v) /\ NoNull(m, w) /\ strbegins(m, v, w) => ~less(m, v, w)
    <2>1. equal(m, v, w) <=> Content(m, v) = Content(m, w)
        BY EqualIs
    <2>2. less(m, v, w) => ~less(m, w, v)
        BY LessIs, ContentIs, PrecedesOrders
    <2>. QED  BY <2>1, <2>2, StringsCompare
<1>4. ASSUME NEW u \in ViewsOf(m), NEW v \in ViewsOf(m), NEW w \in ViewsOf(m)
      PROVE  /\ less(m, u, v) /\ less(m, v, w) => less(m, u, w)
             /\ Incomparable(m, u, v) /\ Incomparable(m, v, w) => Incomparable(m, u, w)
    <2> DEFINE r == Content(m, u)
               s == Content(m, v)
               t == Content(m, w)
    <2>1. r \in Text /\ s \in Text /\ t \in Text
        BY ContentIs
    <2>2. /\ (less(m, u, v) <=> Precedes(r, s)) /\ (less(m, v, u) <=> Precedes(s, r))
          /\ (less(m, v, w) <=> Precedes(s, t)) /\ (less(m, w, v) <=> Precedes(t, s))
          /\ (less(m, u, w) <=> Precedes(r, t)) /\ (less(m, w, u) <=> Precedes(t, r))
        BY LessIs
    <2> HIDE DEF r, s, t
    <2>3. /\ Precedes(r, s) /\ Precedes(s, t) => Precedes(r, t)
          /\ ~Precedes(r, s) /\ ~Precedes(s, r) <=> Key(r) = Key(s) /\ Len(r) = Len(s)
          /\ ~Precedes(s, t) /\ ~Precedes(t, s) <=> Key(s) = Key(t) /\ Len(s) = Len(t)
          /\ ~Precedes(r, t) /\ ~Precedes(t, r) <=> Key(r) = Key(t) /\ Len(r) = Len(t)
        BY ONLY <2>1, PrecedesOrders
    <2>. QED  BY ONLY <2>2, <2>3 DEF Incomparable
<1>. QED  BY <1>1, <1>2, <1>3, <1>4 DEF Ordered

LEMMA Joined ==
    ASSUME NEW a, NEW b, NEW c
    PROVE  <<a, b>> \o <<c>> = <<a, b, c>>
<1> DEFINE S == {a, b, c}
           s == <<a, b>>
           t == <<c>>
           x == s \o t
           y == <<a, b, c>>
<1>1. s \in Seq(S) /\ Len(s) = 2 /\ s[1] = a /\ s[2] = b /\ t \in Seq(S) /\ Len(t) = 1 /\ t[1] = c
    OBVIOUS
<1>2. y \in Seq(S) /\ Len(y) = 3 /\ y[1] = a /\ y[2] = b /\ y[3] = c
    OBVIOUS
<1> HIDE DEF s, t, y, S
<1>7. /\ s \o t \in Seq(S) /\ Len(s \o t) = Len(s) + Len(t)
      /\ \A i \in 1..Len(s) + Len(t) : (s \o t)[i] = IF i <= Len(s) THEN s[i] ELSE t[i - Len(s)]
    BY ONLY <1>1, ConcatProperties
<1>3. x \in Seq(S) /\ Len(x) = 3 /\ \A i \in 1..3 : x[i] = IF i <= 2 THEN s[i] ELSE t[i - 2]
    BY ONLY <1>1, <1>7 DEF x
<1>4. x[1] = a /\ x[2] = b /\ x[3] = c
    BY <1>1, <1>3
<1> HIDE DEF x
<1>5. Len(x) = Len(y) /\ \A i \in 1..Len(x) : x[i] = y[i]
    BY <1>2, <1>3, <1>4
<1>6. x = y
    BY <1>2, <1>3, <1>5, SeqEqual
<1>. QED  BY <1>6 DEF x, y, s, t

\* The two parts a view is split into have the two parts of what is in it.
LEMMA ViewCut ==
    ASSUME NEW m \in Text, NEW v \in ViewsOf(m), NEW pos \in 0..size(v)
    PROVE  LET s == Content(m, v)
           IN  /\ view(v[1], v[1] + pos) \in ViewsOf(m) /\ view(v[1] + pos, v[2]) \in ViewsOf(m)
               /\ Content(m, view(v[1], v[1] + pos)) = SubSeq(s, 1, pos)
               /\ Content(m, view(v[1] + pos, v[2])) = SubSeq(s, pos + 1, Len(s))
<1> DEFINE f == v[1]
           l == v[2]
           s == SubSeq(m, f + 1, l)
<1>1. Len(m) \in Nat /\ f \in 0..Len(m) /\ l \in 0..Len(m) /\ f <= l /\ pos \in 0..(l - f)
    BY DEF ViewsOf, Text, size
<1>2. Content(m, v) = s /\ Len(s) = l - f
    BY ContentIs DEF Content, size
<1> HIDE DEF f, l
<1>3. view(f, f + pos) \in ViewsOf(m) /\ view(f + pos, l) \in ViewsOf(m)
    BY <1>1 DEF view, ViewsOf
<1>4. Content(m, view(f, f + pos)) = SubSeq(s, 1, pos)
    <2>1. Content(m, view(f, f + pos)) = SubSeq(m, f + 1, f + pos)
        BY DEF Content, view
    <2>2. 1 \in Nat \ {0} /\ pos \in Int /\ pos <= l - f /\ f \in Nat /\ l \in Nat /\ f <= l /\ l <= Len(m)
        BY <1>1
    <2>3. SubSeq(s, 1, pos) = SubSeq(m, f + 1, f + pos)
        BY ONLY <2>2, SliceOfSlice, m \in Text DEF s
    <2>. QED  BY <2>1, <2>3
<1>5. Content(m, view(f + pos, l)) = SubSeq(s, pos + 1, Len(s))
    <2>1. Content(m, view(f + pos, l)) = SubSeq(m, f + pos + 1, l)
        BY DEF Content, view
    <2>2. pos + 1 \in Nat \ {0} /\ l - f \in Int /\ l - f <= l - f /\ f \in Nat /\ l \in Nat /\ f <= l /\ l <= Len(m)
        BY <1>1
    <2>3. SubSeq(s, pos + 1, l - f) = SubSeq(m, f + (pos + 1), f + (l - f))
        BY ONLY <2>2, SliceOfSlice, m \in Text DEF s
    <2>4. f + (pos + 1) = f + pos + 1 /\ f + (l - f) = l
        BY <1>1
    <2>. QED  BY ONLY <2>1, <2>3, <2>4, <1>2
<1>. QED  BY ONLY <1>2, <1>3, <1>4, <1>5 DEF f, l

\* Two views, a count, and what a copy of their elements holds.
Viewing(m, p, g) ==
    /\ m \in Text
    /\ p = <<p[1], p[2], p[3]>> /\ g = <<g[1], g[2]>>
    /\ p[1] \in ViewsOf(m) /\ g[1] = Content(m, p[1])
    /\ p[2] \in ViewsOf(m) /\ g[2] = Content(m, p[2])

LEMMA ViewingStarts ==
    ASSUME NEW m \in Text
    PROVE  Viewing(m, << view_of(m), Null, 0 >>, <<m, <<>> >>)
<1>1. Len(m) \in Nat
    BY DEF Text
<1>2. view_of(m) \in ViewsOf(m) /\ Null \in ViewsOf(m)
    BY <1>1 DEF view_of, Null, view, ViewsOf
<1>3. Content(m, view_of(m)) = m
    <2>1. SubSeq(m, 1, Len(m)) = m
        BY SliceWhole
    <2>2. view_of(m)[1] + 1 = 1 /\ view_of(m)[2] = Len(m)
        BY DEF view_of, view
    <2>. QED  BY ONLY <2>1, <2>2 DEF Content
<1>4. Content(m, Null) = <<>>
    <2>1. SubSeq(m, 1, 0) = <<>>
        BY <1>1, SliceWhole
    <2>2. Null[1] + 1 = 1 /\ Null[2] = 0
        BY DEF Null, view
    <2>. QED  BY ONLY <2>1, <2>2 DEF Content
<1>. QED  BY <1>2, <1>3, <1>4 DEF Viewing

\* Both views may be had of the first when it is cut, and either of the second.
LEMMA ViewingSteps ==
    ASSUME NEW m, NEW p, NEW g, Viewing(m, p, g), NEW c
    PROVE  /\ Viewing(m, <<p[2], Null, c>>, <<g[2], <<>> >>)
           /\ Viewing(m, <<p[2], p[2], c>>, <<g[2], g[2]>>)
           /\ \A pos \in 0..size(p[1]) :
                /\ Viewing(m, split(p[1], pos) \o <<c>>,
                              <<SubSeq(g[1], 1, pos), SubSeq(g[1], pos + 1, Len(g[1]))>>)
                /\ Viewing(m, <<consume_prefix(p[1], view_redim(p[1], pos)), view_redim(p[1], pos), c>>,
                              <<SubSeq(g[1], pos + 1, Len(g[1])), SubSeq(g[1], 1, pos)>>)
<1>1. /\ m \in Text
      /\ p[1] \in ViewsOf(m) /\ g[1] = Content(m, p[1])
      /\ p[2] \in ViewsOf(m) /\ g[2] = Content(m, p[2])
    BY DEF Viewing
<1>2. Null \in ViewsOf(m) /\ Content(m, Null) = <<>>
    <2>1. Viewing(m, << view_of(m), Null, 0 >>, <<m, <<>> >>)
        BY <1>1, ViewingStarts
    <2>. QED  BY <2>1 DEF Viewing
<1>3. Viewing(m, <<p[2], Null, c>>, <<g[2], <<>> >>)
    BY <1>1, <1>2 DEF Viewing
<1>4. Viewing(m, <<p[2], p[2], c>>, <<g[2], g[2]>>)
    BY <1>1 DEF Viewing
<1>5. ASSUME NEW pos \in 0..size(p[1])
      PROVE  /\ Viewing(m, split(p[1], pos) \o <<c>>,
                           <<SubSeq(g[1], 1, pos), SubSeq(g[1], pos + 1, Len(g[1]))>>)
             /\ Viewing(m, <<consume_prefix(p[1], view_redim(p[1], pos)), view_redim(p[1], pos), c>>,
                           <<SubSeq(g[1], pos + 1, Len(g[1])), SubSeq(g[1], 1, pos)>>)
    <2> DEFINE a == view(p[1][1], p[1][1] + pos)
               b == view(p[1][1] + pos, p[1][2])
               x == SubSeq(g[1], 1, pos)
               y == SubSeq(g[1], pos + 1, Len(g[1]))
    <2>1. /\ a \in ViewsOf(m) /\ Content(m, a) = x
          /\ b \in ViewsOf(m) /\ Content(m, b) = y
        BY ONLY <1>1, pos \in 0..size(p[1]), ViewCut
    <2>2. split(p[1], pos) = <<a, b>>
        BY DEF split
    <2>3. view_redim(p[1], pos) = a /\ consume_prefix(p[1], a) = b
        BY DEF view_redim, consume_prefix, view
    <2> HIDE DEF a, b, x, y
    <2>4. <<a, b>> \o <<c>> = <<a, b, c>>
        BY Joined
    <2>5. Viewing(m, <<a, b, c>>, <<x, y>>) /\ Viewing(m, <<b, a, c>>, <<y, x>>)
        BY <1>1, <2>1 DEF Viewing
    <2>. QED  BY ONLY <2>2, <2>3, <2>4, <2>5 DEF x, y
<1>. QED  BY <1>3, <1>4, <1>5

\* A view has the elements of its copy, from any of them on.
LEMMA ViewingIsSound ==
    ASSUME NEW m, NEW p, NEW g, Viewing(m, p, g), NEW n \in 1..2
    PROVE  /\ Content(m, p[n]) = g[n]
           /\ \A i \in 1..size(p[n]) :
                /\ Index(m, p[n], i - 1) = g[n][i]
                /\ Content(m, drop(p[n], p[n][1] + i)) = SubSeq(g[n], i + 1, Len(g[n]))
<1>1. m \in Text /\ p[n] \in ViewsOf(m) /\ g[n] = Content(m, p[n])
    <2>1. n = 1 \/ n = 2
        OBVIOUS
    <2>. QED  BY <2>1 DEF Viewing
<1> DEFINE v == p[n]
           s == g[n]
<1>2. /\ s \in Text /\ Len(s) = size(v) /\ size(v) \in Nat /\ \A i \in 1..size(v) : s[i] = m[v[1] + i]
    BY <1>1, ContentIs
<1>3. v[1] \in Nat
    BY <1>1 DEF ViewsOf, Text
<1> HIDE DEF v, s
<1>4. ASSUME NEW i \in 1..size(v)
      PROVE  /\ Index(m, v, i - 1) = s[i]
             /\ Content(m, drop(v, v[1] + i)) = SubSeq(s, i + 1, Len(s))
    <2>1. Index(m, v, i - 1) = m[v[1] + (i - 1) + 1]
        BY DEF Index
    <2>2. v[1] + (i - 1) + 1 = v[1] + i
        BY <1>3, <1>2
    <2>3. i \in 0..size(v)
        BY <1>2
    <2>4. Content(m, view(v[1] + i, v[2])) = SubSeq(s, i + 1, Len(s))
        BY <1>1, <2>3, ViewCut DEF v, s
    <2>. QED  BY ONLY <1>2, <2>1, <2>2, <2>4, i \in 1..size(v) DEF drop
<1>. QED  BY <1>1, <1>4 DEF v, s

-----------------------------------------------------------------------------
(* Rows in order.                                                          *)

\* Where each row goes is the inverse of the order of the indices.
LEMMA SoaInverts ==
    ASSUME NEW m, NEW N \in Nat, Len(m) = N, DOMAIN m = 1..N, NEW p \in Sorted(m)
    PROVE  LET w == soa(m, p)
           IN  /\ w \in [1..N -> 1..N] /\ \A a, b \in 1..N : a # b => w[a] # w[b]
               /\ \A i \in 1..N : p[i] \in 1..N /\ w[p[i]] = i
<1> DEFINE D == 1..N
           w == soa(m, p)
<1>1. p \in [D -> D] /\ \A i, j \in D : i # j => p[i] # p[j]
    BY DEF Sorted
<1>2. IsFiniteSet(D)
    BY FS_Interval
<1> HIDE DEF D
<1>3. p \in Injection(D, D)
    BY <1>1 DEF Injection, IsInjective
<1>4. p \in Surjection(D, D)
    BY ONLY <1>2, <1>3, FS_Injection
<1>5. \A k \in D : \E i \in D : p[i] = k
    BY <1>4 DEF Surjection
<1>6. w = [k \in D |-> CHOOSE i \in D : p[i] = k]
    BY DEF soa, D
<1> HIDE DEF w
<1>7. \A k \in D : w[k] \in D /\ p[w[k]] = k
    <2> SUFFICES ASSUME NEW k \in D PROVE w[k] \in D /\ p[w[k]] = k
        OBVIOUS
    <2>1. w[k] = CHOOSE i \in D : p[i] = k
        BY <1>6
    <2>. QED  BY <1>5, <2>1
<1>8. w \in [D -> D]
    BY <1>6, <1>7
<1>9. \A a, b \in D : a # b => w[a] # w[b]
    BY <1>7
<1>10. \A i \in D : p[i] \in D /\ w[p[i]] = i
    BY <1>1, <1>7
<1>. QED  BY <1>8, <1>9, <1>10 DEF w, D

\* The places before i hold their rows; each swap has put one more in its place.
Fixed(N, d) == {k \in 1..N : d[k] = k}
Placing(N, i, d, swaps) ==
    /\ N \in Nat /\ i \in Nat \ {0} /\ swaps \in Nat
    /\ d \in [1..N -> 1..N] /\ \A a, b \in 1..N : a # b => d[a] # d[b]
    /\ \A k \in 1..N : k < i => d[k] = k
    /\ swaps <= Cardinality(Fixed(N, d)) /\ (swaps < N \/ N = 0)

LEMMA FixedFinite ==
    ASSUME NEW N \in Nat, NEW d
    PROVE  IsFiniteSet(Fixed(N, d)) /\ Cardinality(Fixed(N, d)) \in Nat
<1>1. IsFiniteSet(1..N) /\ Fixed(N, d) \in SUBSET (1..N)
    BY FS_Interval DEF Fixed
<1>. QED  BY <1>1, FS_Subset, FS_CardinalityType

LEMMA PlacingStarts ==
    ASSUME NEW N \in Nat, NEW d \in [1..N -> 1..N], \A a, b \in 1..N : a # b => d[a] # d[b]
    PROVE  Placing(N, 1, d, 0)
<1>1. Cardinality(Fixed(N, d)) \in Nat
    BY FixedFinite
<1>. QED  BY <1>1 DEF Placing

LEMMA PlacingSwaps ==
    ASSUME NEW N, NEW i, NEW d, NEW swaps, Placing(N, i, d, swaps), i < N, d[i] # i
    PROVE  d[i] \in 1..N /\ i \in 1..N /\ Placing(N, i, Swapped(d, i, d[i]), swaps + 1)
<1> DEFINE j == d[i]
           e == Swapped(d, i, j)
           F == Fixed(N, d)
           G == Fixed(N, e)
<1>1. /\ N \in Nat /\ i \in Nat \ {0} /\ swaps \in Nat
      /\ d \in [1..N -> 1..N] /\ \A a, b \in 1..N : a # b => d[a] # d[b]
      /\ \A k \in 1..N : k < i => d[k] = k
      /\ swaps <= Cardinality(F)
    BY DEF Placing
<1>2. i \in 1..N /\ j \in 1..N /\ j # i
    BY <1>1
<1>3. d[j] # j /\ d[i] = j
    BY <1>1, <1>2
<1> HIDE DEF j
<1>4. /\ e \in [1..N -> 1..N]
      /\ e[i] = d[j] /\ e[j] = j
      /\ \A k \in 1..N : k # i /\ k # j => e[k] = d[k]
    BY <1>1, <1>2, <1>3 DEF Swapped
<1> HIDE DEF e
<1>5. \A a, b \in 1..N : a # b => e[a] # e[b]
    <2> DEFINE q(a) == IF a = i THEN j ELSE IF a = j THEN i ELSE a
    <2>1. \A a \in 1..N : q(a) \in 1..N /\ e[a] = d[q(a)]
        BY ONLY <1>2, <1>3, <1>4
    <2>2. \A a, b \in 1..N : a # b => q(a) # q(b)
        BY ONLY <1>2
    <2> HIDE DEF q
    <2>. QED  BY ONLY <1>1, <2>1, <2>2
<1>6. \A k \in 1..N : k < i => e[k] = k
    BY <1>1, <1>2, <1>3, <1>4
<1>7. IsFiniteSet(F) /\ IsFiniteSet(G) /\ Cardinality(F) \in Nat /\ Cardinality(G) \in Nat
    BY <1>1, FixedFinite
<1>8. j \notin F /\ i \notin F /\ F \union {j} \in SUBSET G
    BY <1>2, <1>3, <1>4 DEF Fixed
<1>9. (F \union {j}) \union {i} \in SUBSET (1..N)
    BY <1>2 DEF Fixed
<1>10. IsFiniteSet(1..N) /\ Cardinality(1..N) = N
    BY <1>1, FS_Interval
<1> HIDE DEF F, G
<1>11. IsFiniteSet(F \union {j}) /\ Cardinality(F \union {j}) = Cardinality(F) + 1
    BY <1>7, <1>8, FS_AddElement
<1>12. Cardinality(F \union {j}) <= Cardinality(G)
    BY ONLY <1>7, <1>8, FS_Subset
<1>13. Cardinality((F \union {j}) \union {i}) = Cardinality(F) + 2
    <2>1. i \notin F \union {j}
        BY <1>2, <1>8
    <2>2. Cardinality((F \union {j}) \union {i}) = Cardinality(F \union {j}) + 1
        BY ONLY <1>11, <2>1, FS_AddElement
    <2>. QED  BY <1>7, <1>11, <2>2
<1>14. Cardinality((F \union {j}) \union {i}) <= N
    BY ONLY <1>9, <1>10, FS_Subset
<1>15. swaps + 1 <= Cardinality(G) /\ swaps + 1 < N
    <2>1. swaps \in Nat /\ swaps <= Cardinality(F) /\ N \in Nat
        BY ONLY <1>1
    <2>2. Cardinality(F) + 2 <= N /\ Cardinality(F) + 1 <= Cardinality(G)
        BY ONLY <1>11, <1>12, <1>13, <1>14
    <2>. QED  BY ONLY <1>7, <2>1, <2>2
<1>16. Placing(N, i, e, swaps + 1)
    <2>1. N \in Nat /\ i \in Nat \ {0} /\ swaps + 1 \in Nat
        BY ONLY <1>1
    <2>2. e \in [1..N -> 1..N] /\ swaps + 1 <= Cardinality(Fixed(N, e))
        BY ONLY <1>4, <1>15 DEF G
    <2>. QED  BY ONLY <2>1, <2>2, <1>5, <1>6, <1>15 DEF Placing
<1>. QED  BY <1>2, <1>16 DEF e, j

LEMMA PlacingAdvances ==
    ASSUME NEW N, NEW i, NEW d, NEW swaps, Placing(N, i, d, swaps), i < N, d[i] = i
    PROVE  Placing(N, i + 1, d, swaps)
<1>1. i \in Nat \ {0} /\ N \in Nat /\ \A k \in 1..N : k < i => d[k] = k
    BY DEF Placing
<1>2. i + 1 \in Nat \ {0} /\ \A k \in 1..N : k < i + 1 => d[k] = k
    BY <1>1
<1>. QED  BY <1>2 DEF Placing

LEMMA PlacingEnds ==
    ASSUME NEW N, NEW i, NEW d, NEW swaps, Placing(N, i, d, swaps), i >= N
    PROVE  \A k \in 1..N : d[k] = k
<1>1. /\ i \in Nat \ {0} /\ N \in Nat /\ d \in [1..N -> 1..N]
      /\ \A a, b \in 1..N : a # b => d[a] # d[b]
      /\ \A k \in 1..N : k < i => d[k] = k
    BY DEF Placing
<1> SUFFICES ASSUME NEW k \in 1..N, d[k] # k PROVE FALSE
    OBVIOUS
<1>2. k = N /\ \A a \in 1..N : a < N => d[a] = a
    BY <1>1
<1>3. d[k] \in 1..N /\ d[k] # N /\ d[k] < N
    BY <1>1, <1>2
<1>4. d[d[k]] = d[k]
    BY <1>2, <1>3
<1>. QED  BY <1>1, <1>3, <1>4

\* Each row is somewhere, with the place where it goes.
Kept(N, m, d, w, g) == \A k \in 1..N : \E j \in 1..N : g[j] = m[k] /\ d[j] = w[k]
Rearranged(m, z, g) ==
    /\ Len(m) \in Nat /\ m = [k \in 1..Len(m) |-> m[k]] /\ DOMAIN g = 1..Len(m)
    /\ z = [i |-> z.i, dest |-> z.dest, wanted |-> z.wanted, swaps |-> z.swaps]
    /\ \E p \in Sorted(m) : z.wanted = soa(m, p)
    /\ Placing(Len(m), z.i, z.dest, z.swaps)
    /\ Kept(Len(m), m, z.dest, z.wanted, g)

LEMMA KeptSwaps ==
    ASSUME NEW N \in Nat, NEW m, NEW w, NEW d, NEW g, Kept(N, m, d, w, g),
           DOMAIN d = 1..N, DOMAIN g = 1..N, NEW i \in 1..N, NEW j \in 1..N
    PROVE  Kept(N, m, Swapped(d, i, j), w, Swapped(g, i, j)) /\ DOMAIN Swapped(g, i, j) = 1..N
<1>1. /\ \A k \in 1..N : Swapped(d, i, j)[k] = IF k = i THEN d[j] ELSE IF k = j THEN d[i] ELSE d[k]
      /\ \A k \in 1..N : Swapped(g, i, j)[k] = IF k = i THEN g[j] ELSE IF k = j THEN g[i] ELSE g[k]
      /\ DOMAIN Swapped(g, i, j) = 1..N
    BY DEF Swapped
<1> DEFINE e == Swapped(d, i, j)
           h == Swapped(g, i, j)
<1> HIDE DEF e, h
<1>2. ASSUME NEW k \in 1..N PROVE \E l \in 1..N : h[l] = m[k] /\ e[l] = w[k]
    <2>1. PICK l \in 1..N : g[l] = m[k] /\ d[l] = w[k]
        BY DEF Kept
    <2>2. CASE l = i
        <3>1. h[j] = g[i] /\ e[j] = d[i]
            BY ONLY <1>1, j \in 1..N, i \in 1..N DEF e, h
        <3>. QED  BY <2>1, <2>2, <3>1
    <2>3. CASE l = j
        <3>1. h[i] = g[j] /\ e[i] = d[j]
            BY ONLY <1>1, j \in 1..N, i \in 1..N DEF e, h
        <3>. QED  BY <2>1, <2>3, <3>1
    <2>4. CASE l # i /\ l # j
        <3>1. h[l] = g[l] /\ e[l] = d[l]
            BY ONLY <1>1, <2>4, l \in 1..N DEF e, h
        <3>. QED  BY <2>1, <3>1
    <2>. QED  BY <2>2, <2>3, <2>4
<1>. QED  BY <1>1, <1>2 DEF Kept, e, h

LEMMA RearrangedStarts ==
    ASSUME NEW m, Len(m) \in Nat, m = [k \in 1..Len(m) |-> m[k]], NEW p \in Sorted(m)
    PROVE  Rearranged(m, [i |-> 1, dest |-> soa(m, p), wanted |-> soa(m, p), swaps |-> 0], m)
<1> DEFINE N == Len(m)
           w == soa(m, p)
           z == [i |-> 1, dest |-> w, wanted |-> w, swaps |-> 0]
<1>6. DOMAIN m = 1..N
    OBVIOUS
<1>1. w \in [1..N -> 1..N] /\ \A a, b \in 1..N : a # b => w[a] # w[b]
    BY <1>6, SoaInverts
<1> HIDE DEF w
<1>2. Placing(N, 1, w, 0)
    BY <1>1, PlacingStarts
<1>3. Kept(N, m, w, w, m)
    BY DEF Kept
<1>4. z.i = 1 /\ z.dest = w /\ z.wanted = w /\ z.swaps = 0
    OBVIOUS
<1>5. w = soa(m, p)
    BY DEF w
<1>. QED  BY <1>2, <1>3, <1>4, <1>5, <1>6 DEF Rearranged

LEMMA AfterSwap ==
    ASSUME NEW z, z = [i |-> z.i, dest |-> z.dest, wanted |-> z.wanted, swaps |-> z.swaps], NEW e, NEW t
    PROVE  [z EXCEPT !.dest = e, !.swaps = t] = [i |-> z.i, dest |-> e, wanted |-> z.wanted, swaps |-> t]
<1> DEFINE x == [z EXCEPT !.dest = e]
<1>1. x = [i |-> z.i, dest |-> e, wanted |-> z.wanted, swaps |-> z.swaps]
    OBVIOUS
<1>2. [x EXCEPT !.swaps = t] = [z EXCEPT !.dest = e, !.swaps = t]
    OBVIOUS
<1> HIDE DEF x
<1>3. [x EXCEPT !.swaps = t] = [i |-> x.i, dest |-> x.dest, wanted |-> x.wanted, swaps |-> t]
    BY ONLY <1>1
<1>4. x.i = z.i /\ x.dest = e /\ x.wanted = z.wanted
    BY ONLY <1>1
<1>. QED  BY ONLY <1>2, <1>3, <1>4

LEMMA RearrangedSwaps ==
    ASSUME NEW m, NEW z, NEW g, Rearranged(m, z, g), z.i < Len(m), z.dest[z.i] # z.i
    PROVE  Rearranged(m, [z EXCEPT !.dest = Swapped(z.dest, z.i, z.dest[z.i]), !.swaps = z.swaps + 1],
                      Swapped(g, z.i, z.dest[z.i]))
<1> DEFINE N == Len(m)
           i == z.i
           d == z.dest
           w == z.wanted
           j == d[i]
           e == Swapped(d, i, j)
           h == Swapped(g, i, j)
           y == [z EXCEPT !.dest = e, !.swaps = z.swaps + 1]
<1>1. /\ N \in Nat /\ m = [k \in 1..N |-> m[k]] /\ DOMAIN g = 1..N
      /\ z = [i |-> i, dest |-> d, wanted |-> w, swaps |-> z.swaps]
      /\ Placing(N, i, d, z.swaps) /\ Kept(N, m, d, w, g)
    BY DEF Rearranged
<1>2. \E p \in Sorted(m) : w = soa(m, p)
    BY DEF Rearranged
<1> HIDE DEF i, d, w
<1>3. i < N /\ d[i] # i
    BY DEF i, d
<1>4. j \in 1..N /\ i \in 1..N /\ Placing(N, i, e, z.swaps + 1)
    BY ONLY <1>1, <1>3, PlacingSwaps DEF e, j
<1>5. DOMAIN d = 1..N
    BY <1>1 DEF Placing
<1>6. Kept(N, m, e, w, h) /\ DOMAIN h = 1..N
    BY ONLY <1>1, <1>4, <1>5, KeptSwaps DEF e, h
<1> HIDE DEF e, h
<1>7. y = [i |-> i, dest |-> e, wanted |-> w, swaps |-> z.swaps + 1]
    BY ONLY <1>1, AfterSwap DEF y, i, w, d
<1>8. y.i = i /\ y.dest = e /\ y.wanted = w /\ y.swaps = z.swaps + 1
    BY ONLY <1>7
<1> HIDE DEF y
<1>9. Rearranged(m, y, h)
    BY ONLY <1>1, <1>2, <1>4, <1>6, <1>7, <1>8 DEF Rearranged, N
<1>. QED  BY ONLY <1>9 DEF y, h, e, j, i, d

LEMMA RearrangedAdvances ==
    ASSUME NEW m, NEW z, NEW g, Rearranged(m, z, g), z.i < Len(m), z.dest[z.i] = z.i
    PROVE  Rearranged(m, [z EXCEPT !.i = z.i + 1], g)
<1> DEFINE N == Len(m)
           i == z.i
           d == z.dest
           w == z.wanted
           y == [z EXCEPT !.i = i + 1]
<1>1. /\ N \in Nat /\ m = [k \in 1..N |-> m[k]] /\ DOMAIN g = 1..N
      /\ z = [i |-> i, dest |-> d, wanted |-> w, swaps |-> z.swaps]
      /\ Placing(N, i, d, z.swaps) /\ Kept(N, m, d, w, g)
    BY DEF Rearranged
<1>2. \E p \in Sorted(m) : w = soa(m, p)
    BY DEF Rearranged
<1> HIDE DEF i, d, w
<1>3. i < N /\ d[i] = i
    BY DEF i, d
<1>4. Placing(N, i + 1, d, z.swaps)
    BY ONLY <1>1, <1>3, PlacingAdvances
<1>5. y = [i |-> i + 1, dest |-> d, wanted |-> w, swaps |-> z.swaps]
    BY ONLY <1>1 DEF y
<1>6. y.i = i + 1 /\ y.dest = d /\ y.wanted = w /\ y.swaps = z.swaps
    BY ONLY <1>5
<1> HIDE DEF y
<1>7. Rearranged(m, y, g)
    BY ONLY <1>1, <1>2, <1>4, <1>5, <1>6 DEF Rearranged, N
<1>. QED  BY ONLY <1>7 DEF y, i

LEMMA RearrangedIsSound ==
    ASSUME NEW m, NEW z, NEW g, Rearranged(m, z, g)
    PROVE  /\ \A k \in DOMAIN m :
                \E l \in DOMAIN g : g[l] = m[k] /\ z.dest[l] = z.wanted[k]
           /\ z.swaps < Len(m) \/ m = <<>>
           /\ z.i >= Len(m) =>
                /\ \A k \in DOMAIN m : g[z.wanted[k]] = m[k]
                /\ \A k \in 1 .. Len(m) - 1 : g[k].key <= g[k + 1].key
<1> DEFINE N == Len(m)
           d == z.dest
           w == z.wanted
<1>1. /\ N \in Nat /\ m = [k \in 1..N |-> m[k]] /\ DOMAIN m = 1..N /\ DOMAIN g = 1..N
      /\ Placing(N, z.i, d, z.swaps) /\ Kept(N, m, d, w, g)
    BY DEF Rearranged
<1>2. PICK p \in Sorted(m) : w = soa(m, p)
    BY DEF Rearranged
<1> HIDE DEF d, w
<1>3. \A k \in DOMAIN m : \E l \in DOMAIN g : g[l] = m[k] /\ d[l] = w[k]
    BY ONLY <1>1 DEF Kept
<1>4. z.swaps < N \/ m = <<>>
    <2>1. z.swaps < N \/ N = 0
        BY ONLY <1>1 DEF Placing
    <2>2. ASSUME N = 0 PROVE m = <<>>
        <3> HIDE DEF N
        <3>1. m = [k \in 1..0 |-> m[k]]
            BY ONLY <1>1, <2>2
        <3>. QED  BY ONLY <3>1
    <2>. QED  BY ONLY <2>1, <2>2
<1>5. ASSUME z.i >= N PROVE \A k \in 1..N : g[w[k]] = m[k]
    <2>1. \A k \in 1..N : d[k] = k
        BY ONLY <1>1, <1>5, PlacingEnds
    <2>. QED  BY ONLY <1>1, <2>1 DEF Kept
<1>6. ASSUME z.i >= N, NEW k \in 1..N - 1 PROVE g[k].key <= g[k + 1].key
    <2>1. k \in 1..N /\ k + 1 \in 1..N
        BY <1>1
    <2>2. \A i \in 1..N : p[i] \in 1..N /\ w[p[i]] = i
        <3>1. N \in Nat /\ DOMAIN m = 1..N
            BY ONLY <1>1
        <3>. QED  BY ONLY <3>1, <1>2, SoaInverts, p \in Sorted(m) DEF N
    <2>3. g[k] = m[p[k]] /\ g[k + 1] = m[p[k + 1]]
        BY ONLY <1>5, <1>6, <2>1, <2>2
    <2>4. m[p[k]].key <= m[p[k + 1]].key
        BY ONLY <1>6, p \in Sorted(m) DEF Sorted, N
    <2>. QED  BY ONLY <2>3, <2>4
<1>. QED  BY <1>1, <1>3, <1>4, <1>5, <1>6 DEF d, w

-----------------------------------------------------------------------------
(* The walks.                                                              *)

\* Blocks of what a source was fed.
Blocking(m, p, g) ==
    /\ m = [size |-> m.size, fed |-> m.fed] /\ m.size \in Nat \ {0} /\ m.fed \in Text
    /\ g \in Seq(Text) /\ Blocked(m.size, m.fed, g, p)

\* Of each walk what its state means.
Walking(w, m, p, g) ==
    /\ w \in {"views", "tokens", "zip", "blocks", "order"}
    /\ w = "views" => Viewing(m, p, g)
    /\ w = "tokens" => Tokenised(m, p, g)
    /\ w = "zip" => Zipped(m, p, g)
    /\ w = "blocks" => Blocking(m, p, g)
    /\ w = "order" => Rearranged(m, p, g)
ViewInv == Walking(walk, subject, place, given)

LEMMA SequencesOf ==
    ASSUME NEW values, NEW max \in Nat, NEW s \in SeqsOf(values, max), NEW S, values \subseteq S
    PROVE  s \in Seq(S) /\ Len(s) \in Nat /\ DOMAIN s = 1..Len(s)
<1>1. PICK n \in 0..max : s \in [1..n -> values]
    BY DEF SeqsOf
<1>2. s \in [1..n -> S] /\ n \in Nat
    BY <1>1
<1>. QED  BY <1>2

LEMMA TextsAre ==
    ASSUME NEW m \in SeqsOf(TextBytes, MaxText)
    PROVE  m \in Text
BY SequencesOf, ViewAssumption DEF Text

LEMMA TokenisedStarts ==
    ASSUME NEW m \in Text
    PROVE  Tokenised(m, cbegin(m), <<>>)
<1>1. <<>> \in Seq(Text) /\ Len(<<>>) = 0
    OBVIOUS
<1>. QED  BY <1>1, FirstToken DEF Tokenised

LEMMA ZippedStarts ==
    ASSUME NEW m \in Text
    PROVE  Zipped(m, [token |-> cbegin(m), indices |-> make_indices(Tokens(m)), out |-> Blank], <<>>)
<1> DEFINE z == [token |-> cbegin(m), indices |-> make_indices(Tokens(m)), out |-> Blank]
<1>1. <<>> \in Seq(Text \X Nat) /\ Len(<<>>) = 0
    OBVIOUS
<1>2. z.token = cbegin(m)
    OBVIOUS
<1>3. Copied(m, 0) = Blank /\ make_indices(Tokens(m)) = [index |-> 0, count |-> Tokens(m)]
    BY DEF Copied, make_indices
<1>4. z = [token |-> z.token, indices |-> [index |-> 0, count |-> Tokens(m)], out |-> Copied(m, 0)]
    BY <1>2, <1>3
<1> HIDE DEF z
<1>5. Zipped(m, z, <<>>)
    BY <1>1, <1>2, <1>4, FirstToken DEF Zipped
<1>. QED  BY <1>5 DEF z

LEMMA BlockingStarts ==
    ASSUME NEW m \in [size : BlockSizes, fed : {<<>>}]
    PROVE  Blocking(m, <<>>, <<>>)
<1>1. m = [size |-> m.size, fed |-> m.fed] /\ m.size \in Nat \ {0} /\ m.fed = <<>>
    BY ViewAssumption
<1> DEFINE n == m.size
<1> HIDE DEF n
<1>2. n \in Nat \ {0}
    BY <1>1 DEF n
<1>3. <<>> \in Text /\ <<>> \in Seq(Text) /\ Len(<<>>) = 0
    BY DEF Text
<1>4. 0 * n = 0
    BY <1>2
<1>5. SubSeq(<<>>, 0 + 1, 0) = <<>>
    BY <1>3, SliceWhole
<1>6. Len(<<>>) * n = 0
    BY <1>3, <1>4
<1>7. InPlace(n, <<>>, <<>>)
    BY <1>3 DEF InPlace
<1>8. Blocked(n, <<>>, <<>>, <<>>)
    BY ONLY <1>2, <1>3, <1>5, <1>6, <1>7 DEF Blocked
<1>. QED  BY <1>1, <1>3, <1>8 DEF Blocking, n

LEMMA OrderStarts ==
    ASSUME NEW m \in {RowsOf(keys) : keys \in SeqsOf(RowKeys, MaxRows)}, NEW p \in Sorted(m)
    PROVE  Rearranged(m, [i |-> 1, dest |-> soa(m, p), wanted |-> soa(m, p), swaps |-> 0], m)
<1>1. PICK keys \in SeqsOf(RowKeys, MaxRows) : m = RowsOf(keys)
    OBVIOUS
<1>2. Len(keys) \in Nat /\ DOMAIN keys = 1..Len(keys)
    BY SequencesOf, ViewAssumption
<1>3. m = [k \in 1..Len(keys) |-> [key |-> keys[k], value |-> k]]
    BY <1>1, <1>2 DEF RowsOf
<1>4. Len(m) = Len(keys)
    BY <1>2, <1>3
<1>5. Len(m) \in Nat /\ m = [k \in 1..Len(m) |-> m[k]]
    BY <1>2, <1>3, <1>4
<1>. QED  BY ONLY <1>5, p \in Sorted(m), RearrangedStarts

LEMMA WalksStart ==
    ASSUME ViewInit
    PROVE  ViewInv
<1>1. CASE walk = "views" /\ subject \in SeqsOf(TextBytes, MaxText) /\ place = << view_of(subject), Null, 0 >>
           /\ given = <<subject, <<>> >>
    <2>1. Viewing(subject, place, given)
        BY ONLY <1>1, TextsAre, ViewingStarts
    <2>. QED  BY ONLY <1>1, <2>1 DEF ViewInv, Walking
<1>2. CASE walk = "tokens" /\ subject \in SeqsOf(TextBytes, MaxText) /\ place = cbegin(subject) /\ given = <<>>
    <2>1. Tokenised(subject, place, given)
        BY ONLY <1>2, TextsAre, TokenisedStarts
    <2>. QED  BY ONLY <1>2, <2>1 DEF ViewInv, Walking
<1>3. CASE walk = "zip" /\ subject \in SeqsOf(TextBytes, MaxText) /\ given = <<>>
           /\ place = [token |-> cbegin(subject), indices |-> make_indices(Tokens(subject)), out |-> Blank]
    <2>1. Zipped(subject, place, given)
        BY ONLY <1>3, TextsAre, ZippedStarts
    <2>. QED  BY ONLY <1>3, <2>1 DEF ViewInv, Walking
<1>4. CASE walk = "blocks" /\ subject \in [size : BlockSizes, fed : {<<>>}] /\ place = <<>> /\ given = <<>>
    <2>1. Blocking(subject, place, given)
        BY ONLY <1>4, BlockingStarts
    <2>. QED  BY ONLY <1>4, <2>1 DEF ViewInv, Walking
<1>5. CASE walk = "order" /\ subject \in {RowsOf(keys) : keys \in SeqsOf(RowKeys, MaxRows)}
           /\ (\E indices \in Sorted(subject) :
                 place = [i |-> 1, dest |-> soa(subject, indices), wanted |-> soa(subject, indices), swaps |-> 0])
           /\ given = subject
    <2>1. Rearranged(subject, place, given)
        BY ONLY <1>5, OrderStarts
    <2>. QED  BY ONLY <1>5, <2>1 DEF ViewInv, Walking
<1>. QED  BY <1>1, <1>2, <1>3, <1>4, <1>5 DEF ViewInit

LEMMA BlockingFed ==
    ASSUME NEW m, NEW p, NEW g, Blocking(m, p, g), NEW src \in Text
    PROVE  LET b == transform_by_block(m.size, [held |-> p, passed |-> g], src)
           IN  Blocking([m EXCEPT !.fed = m.fed \o src], b.held, b.passed)
<1> DEFINE n == m.size
           f == m.fed
           b == transform_by_block(n, [held |-> p, passed |-> g], src)
           e == f \o src
           y == [m EXCEPT !.fed = e]
<1>1. /\ m = [size |-> n, fed |-> f] /\ n \in Nat \ {0} /\ f \in Text
      /\ g \in Seq(Text) /\ Blocked(n, f, g, p)
    BY DEF Blocking
<1> HIDE DEF n, f
<1>2. b.passed \in Seq(Text) /\ Blocked(n, e, b.passed, b.held)
    BY ONLY <1>1, src \in Text, FeedBlocks DEF b, e
<1>3. e \in Text
    BY <1>1, Joint
<1> HIDE DEF b, e
<1>4. y = [size |-> n, fed |-> e]
    BY ONLY <1>1 DEF y
<1>5. y.size = n /\ y.fed = e
    BY ONLY <1>4
<1> HIDE DEF y
<1>6. Blocking(y, b.held, b.passed)
    BY ONLY <1>1, <1>2, <1>3, <1>4, <1>5 DEF Blocking
<1>. QED  BY ONLY <1>6 DEF y, e, b, n, f

\* Every walk goes on as it must.
LEMMA WalksGoOn ==
    ASSUME ViewInv, ViewNext
    PROVE  ViewInv'
<1>0. /\ walk \in {"views", "tokens", "zip", "blocks", "order"}
      /\ walk = "views" => Viewing(subject, place, given)
      /\ walk = "tokens" => Tokenised(subject, place, given)
      /\ walk = "zip" => Zipped(subject, place, given)
      /\ walk = "blocks" => Blocking(subject, place, given)
      /\ walk = "order" => Rearranged(subject, place, given)
    BY DEF ViewInv, Walking
<1>1. ASSUME NEW pos \in 0..MaxText, Cut(pos) PROVE ViewInv'
    <2>1. /\ walk = "views" /\ walk' = walk /\ subject' = subject /\ pos \in 0..size(place[1])
          /\ \/ /\ place' = split(place[1], pos) \o <<place[3] + 1>>
                /\ given' = <<SubSeq(given[1], 1, pos), SubSeq(given[1], pos + 1, Len(given[1]))>>
             \/ /\ place' = <<consume_prefix(place[1], view_redim(place[1], pos)), view_redim(place[1], pos), place[3] + 1>>
                /\ given' = <<SubSeq(given[1], pos + 1, Len(given[1])), SubSeq(given[1], 1, pos)>>
        BY ONLY <1>1 DEF Cut
    <2>2. Viewing(subject, place, given)
        BY ONLY <1>0, <2>1
    <2>3. Viewing(subject', place', given')
        BY ONLY <2>1, <2>2, ViewingSteps
    <2>. QED  BY ONLY <2>1, <2>3 DEF ViewInv, Walking
<1>2. CASE MoveAssign
    <2>1. /\ walk = "views" /\ walk' = walk /\ subject' = subject
          /\ place' = <<place[2], Null, place[3] + 1>> /\ given' = <<given[2], <<>> >>
        BY ONLY <1>2 DEF MoveAssign
    <2>2. Viewing(subject, place, given)
        BY ONLY <1>0, <2>1
    <2>3. Viewing(subject', place', given')
        BY ONLY <2>1, <2>2, ViewingSteps
    <2>. QED  BY ONLY <2>1, <2>3 DEF ViewInv, Walking
<1>3. CASE CopyAssign
    <2>1. /\ walk = "views" /\ walk' = walk /\ subject' = subject
          /\ place' = <<place[2], place[2], place[3] + 1>> /\ given' = <<given[2], given[2]>>
        BY ONLY <1>3 DEF CopyAssign
    <2>2. Viewing(subject, place, given)
        BY ONLY <1>0, <2>1
    <2>3. Viewing(subject', place', given')
        BY ONLY <2>1, <2>2, ViewingSteps
    <2>. QED  BY ONLY <2>1, <2>3 DEF ViewInv, Walking
<1>4. CASE NextToken
    <2>1. /\ walk = "tokens" /\ walk' = walk /\ subject' = subject
          /\ ~equal(subject, place, cend(subject))
          /\ given' = Append(given, Content(subject, place)) /\ place' = token_increment(subject, place)
        BY ONLY <1>4 DEF NextToken
    <2>2. Tokenised(subject, place, given)
        BY ONLY <1>0, <2>1
    <2>3. Tokenised(subject', place', given')
        BY ONLY <2>1, <2>2, TokenStep
    <2>. QED  BY ONLY <2>1, <2>3 DEF ViewInv, Walking
<1>5. CASE NextZipped
    <2>1. /\ walk = "zip" /\ walk' = walk /\ subject' = subject /\ ~AtEnd(subject, place)
          /\ given' = Append(given, <<Content(subject, place.token), place.indices.index>>)
          /\ place' = [place EXCEPT !.token = token_increment(subject, place.token), !.indices.index = place.indices.index + 1,
                                    !.out = infix(place.out, <<Separator>>, Content(subject, place.token))]
        BY ONLY <1>5 DEF NextZipped
    <2>2. Zipped(subject, place, given)
        BY ONLY <1>0, <2>1
    <2>3. Zipped(subject', place', given')
        BY ONLY <2>1, <2>2, ZipStep
    <2>. QED  BY ONLY <2>1, <2>3 DEF ViewInv, Walking
<1>6. ASSUME NEW n \in 0..MaxSource, walk = "blocks", Feed(Source(n)) PROVE ViewInv'
    <2> DEFINE src == Source(n)
               b == transform_by_block(subject.size, [held |-> place, passed |-> given], src)
    <2>1. /\ walk' = walk /\ place' = b.held /\ given' = b.passed
          /\ subject' = [subject EXCEPT !.fed = subject.fed \o src]
        BY ONLY <1>6 DEF Feed
    <2>2. Blocking(subject, place, given)
        BY ONLY <1>0, <1>6
    <2>3. src \in Text
        <3>1. Len(subject.fed) \in Nat /\ n \in Nat
            BY <2>2, ViewAssumption DEF Blocking, Text
        <3>2. src = [k \in 1..n |-> Len(subject.fed) + k]
            BY DEF Source
        <3>. QED  BY ONLY <3>1, <3>2 DEF Text
    <2> HIDE DEF src
    <2>4. Blocking(subject', place', given')
        BY ONLY <2>1, <2>2, <2>3, BlockingFed DEF b
    <2>. QED  BY ONLY <1>6, <2>1, <2>4 DEF ViewInv, Walking
<1>7. CASE Reorder
    <2>1. /\ walk = "order" /\ walk' = walk /\ subject' = subject /\ place.i < Len(subject)
        BY ONLY <1>7 DEF Reorder
    <2>2. Rearranged(subject, place, given)
        BY ONLY <1>0, <2>1
    <2>3. CASE place.dest[place.i] = place.i
        <3>1. place' = [place EXCEPT !.i = place.i + 1] /\ given' = given
            BY ONLY <1>7, <2>3 DEF Reorder
        <3>2. Rearranged(subject', place', given')
            BY ONLY <2>1, <2>2, <2>3, <3>1, RearrangedAdvances
        <3>. QED  BY ONLY <2>1, <3>2 DEF ViewInv, Walking
    <2>4. CASE place.dest[place.i] # place.i
        <3>1. /\ given' = Swapped(given, place.i, place.dest[place.i])
              /\ place' = [place EXCEPT !.dest = Swapped(place.dest, place.i, place.dest[place.i]),
                                        !.swaps = place.swaps + 1]
            BY ONLY <1>7, <2>4 DEF Reorder
        <3>2. Rearranged(subject', place', given')
            BY ONLY <2>1, <2>2, <2>4, <3>1, RearrangedSwaps
        <3>. QED  BY ONLY <2>1, <3>2 DEF ViewInv, Walking
    <2>. QED  BY ONLY <2>3, <2>4
<1>. QED  BY ONLY ViewNext, <1>1, <1>2, <1>3, <1>4, <1>5, <1>6, <1>7 DEF ViewNext

\* What each walk has done so far is whole.
LEMMA WalksSoFar ==
    ASSUME ViewInv
    PROVE  WalksWhole
<1>0. /\ walk = "views" => Viewing(subject, place, given)
      /\ walk = "tokens" => Tokenised(subject, place, given)
      /\ walk = "zip" => Zipped(subject, place, given)
      /\ walk = "blocks" => Blocking(subject, place, given)
      /\ walk = "order" => Rearranged(subject, place, given)
    BY DEF ViewInv, Walking
<1>1. CutsSound
    <2>1. ASSUME Viewing(subject, place, given)
          PROVE  Ordered(subject)
        BY ONLY <2>1, ViewsOrdered DEF Viewing
    <2>2. ASSUME Viewing(subject, place, given), NEW n \in 1 .. 2
          PROVE  /\ Content(subject, place[n]) = given[n]
                 /\ \A i \in 1 .. size(place[n]) :
                      /\ Index(subject, place[n], i - 1) = given[n][i]
                      /\ Content(subject, drop(place[n], place[n][1] + i)) = SubSeq(given[n], i + 1, Len(given[n]))
        BY ONLY <2>2, ViewingIsSound, SMTT(30)
    <2>. QED  BY ONLY <1>0, <2>1, <2>2 DEF CutsSound
<1>2. TokensSound
    <2>1. ASSUME Tokenised(subject, place, given)
          PROVE  /\ Len(given) <= Tokens(subject) /\ \A k \in 1 .. Len(given) : given[k] = TokenAt(subject, k)
                 /\ equal(subject, place, cend(subject)) /\ (\A k \in 1 .. Tokens(subject) : TokenAt(subject, k) # <<>>)
                     => Len(given) = Tokens(subject)
        BY ONLY <2>1, TokenisedIsSound
    <2>2. ASSUME Zipped(subject, place, given)
          PROVE  /\ \A k \in 1 .. Len(given) : given[k] = <<TokenAt(subject, k), k - 1>>
                 /\ AtEnd(subject, place) => Len(given) = Tokens(subject) /\ place.out.text = subject
        BY ONLY <2>2, ZippedIsSound
    <2>. QED  BY ONLY <1>0, <2>1, <2>2 DEF TokensSound
<1>3. BlocksSound
    <2>1. ASSUME Blocking(subject, place, given)
          PROVE  /\ InPlace(subject.size, subject.fed, given)
                 /\ place = SubSeq(subject.fed, Len(given) * subject.size + 1, Len(subject.fed))
                 /\ Len(given) * subject.size <= Len(subject.fed) /\ Len(place) < subject.size
        BY ONLY <2>1 DEF Blocking, Blocked
    <2>. QED  BY ONLY <1>0, <2>1 DEF BlocksSound, InPlace
<1>4. RowsSound
    BY ONLY <1>0, RearrangedIsSound DEF RowsSound
<1>. QED  BY ONLY <1>1, <1>2, <1>3, <1>4 DEF WalksWhole

(***************************************************************************)
(* Walks over ranges see all of them, once and in order: views of memory   *)
(* and their comparisons (src/view.hpp), the tokens of a text, zipped with *)
(* as many values and infixed again (src/string.cpp, src/iterator.hpp),    *)
(* blocks cut from any sources (transform_by_block) and rows put where     *)
(* their indices say (src/algo/sort.ipp).                                  *)
(***************************************************************************)
THEOREM WalksAreWhole == ViewSpec => []WalksWhole
<1>1. ViewInit => ViewInv
    BY WalksStart
<1>2. ViewInv /\ [ViewNext]_viewVars => ViewInv'
    <2>1. ASSUME ViewInv, UNCHANGED viewVars PROVE ViewInv'
        BY ONLY <2>1 DEF viewVars, ViewInv
    <2>. QED  BY <2>1, WalksGoOn
<1>3. ViewInv => WalksWhole
    BY WalksSoFar
<1>. QED  BY <1>1, <1>2, <1>3, PTL DEF ViewSpec

-----------------------------------------------------------------------------
(***************************************************************************)
(* The two memory buffers: paged, for every page size, buffer, window and  *)
(* sequence of accesses, and circular, for any number of processes, names  *)
(* and retries and any buffer size.                                        *)
(*                                                                         *)
(* PagedInv adds to the checked invariants what the pages are while the    *)
(* constructor runs; RingInv says at each step of the other constructor    *)
(* who has linked which name and what is mapped so far.                    *)
(***************************************************************************)

BuildInv ==
    /\ phase \in {"new", "reserved"} => written = {} /\ last = Nowhere
    /\ phase = "reserved" => \A p \in PageStarts : prot[p] = "none"

PagedInv == TypeOK /\ BuildInv /\ PagesMatchCursor /\ AccessBounds

\* What an action may never do to the written pages.
WrittenKept == phase' = "ready" =>
            \A p \in written : last' = Nowhere \/ p < last' + Win => p \in written'

-----------------------------------------------------------------------------
(* Sizes and multiples.                                                    *)

LEMMA SumIsMultiple ==
    ASSUME NEW x \in Nat, NEW y \in Nat, NEW a \in Nat \ {0},
           x % a = 0, y % a = 0
    PROVE  (x + y) % a = 0
<1> DEFINE i == x \div a
           j == y \div a
<1>1. i \in Nat /\ j \in Nat /\ x = a * i + (x % a) /\ y = a * j + (y % a)
    BY DivMod
<1> HIDE DEF i, j
<1>2. i \in Nat /\ j \in Nat /\ x = a * i /\ y = a * j
    BY <1>1
<1>3. x + y = a * (i + j) /\ i + j \in Nat
    BY <1>2
<1>4. (a * (i + j)) % a = 0
    BY <1>3, ProductIsMultiple
<1>. QED  BY <1>3, <1>4

LEMMA Sizes ==
    /\ Win \in Nat /\ Win % Page = 0 /\ Win > 0
    /\ End \in Nat /\ End % Page = 0 /\ Reserved <= End
    /\ PageStarts \subseteq Nat /\ \A p \in PageStarts : p < End
<1>1. /\ AlignUp(Window, Page) \in Nat /\ AlignUp(Window, Page) % Page = 0
      /\ Window <= AlignUp(Window, Page)
    BY PagedAssumption, AlignUpCorrect
<1>2. /\ AlignUp(Reserved, Page) \in Nat /\ AlignUp(Reserved, Page) % Page = 0
      /\ Reserved <= AlignUp(Reserved, Page)
    BY PagedAssumption, AlignUpCorrect
<1>3. End \in Nat
    BY <1>2 DEF End
<1>4. PageStarts \subseteq Nat /\ \A p \in PageStarts : p < End
    BY <1>3 DEF PageStarts
<1>. QED  BY <1>1, <1>2, <1>4, PagedAssumption DEF Win, End

\* The initial window fits.
LEMMA FirstWindow ==
    LET first == AlignUp(IF Win < Reserved THEN Win ELSE Reserved, Page)
    IN  first \in 0..End /\ first % Page = 0
<1>1. CASE Win < Reserved
    <2>1. AlignUp(Win, Page) = Win
        BY Sizes DEF AlignUp
    <2>. QED  BY <1>1, <2>1, Sizes, PagedAssumption
<1>2. CASE ~(Win < Reserved)
    <2>1. AlignUp(Reserved, Page) \in 0..End /\ AlignUp(Reserved, Page) % Page = 0
        BY Sizes DEF End
    <2>. QED  BY <1>2, <2>1
<1>. QED  BY <1>1, <1>2

-----------------------------------------------------------------------------
(* One lemma per action that does something to the pages.                  *)

LEMMA RemapTypes ==
    ASSUME TypeOK, NEW lo, NEW hi, NEW how \in {"free", "none", "rw"},
           Remapped(lo, hi, how)
    PROVE  prot' \in [PageStarts -> {"free", "none", "rw"}] /\ written' \subseteq PageStarts
BY DEF TypeOK, Remapped

LEMMA ReserveStep ==
    ASSUME PagedInv, Reserve
    PROVE  PagedInv' /\ WrittenKept
<1> USE Sizes DEF PagedInv, Reserve
<1>1. CASE phase' = "reserved" /\ Remapped(0, End, "none")
    <2>1. TypeOK'
        BY <1>1, RemapTypes DEF TypeOK
    <2>2. \A p \in PageStarts : prot'[p] = "none"
        BY <1>1 DEF Remapped
    <2>3. written' = {} /\ last' = Nowhere
        BY <1>1 DEF BuildInv, Remapped
    <2>. QED  BY <1>1, <2>1, <2>2, <2>3
              DEF BuildInv, PagesMatchCursor, AccessBounds, WrittenKept
<1>2. CASE phase' = "failed" /\ UNCHANGED <<prot, written>>
    BY <1>2 DEF TypeOK, BuildInv, PagesMatchCursor, AccessBounds, WrittenKept
<1>. QED  BY <1>1, <1>2

LEMMA MapWindowStep ==
    ASSUME PagedInv, MapWindow
    PROVE  PagedInv' /\ WrittenKept
<1> USE Sizes DEF PagedInv, MapWindow
<1>0. cursor' \in 0..End /\ cursor' % Page = 0 /\ written = {} /\ last' = Nowhere
    BY FirstWindow DEF BuildInv
<1>1. CASE phase' = "ready" /\ Remapped(0, cursor', "rw")
    <2>1. TypeOK'
        BY <1>0, <1>1, RemapTypes DEF TypeOK
    <2>2. \A p \in PageStarts : prot'[p] = IF p < cursor' THEN "rw" ELSE "none"
        BY <1>0, <1>1 DEF Remapped, BuildInv
    <2>3. written' = {}
        BY <1>0, <1>1 DEF Remapped
    <2>. QED  BY <1>0, <1>1, <2>1, <2>2, <2>3
              DEF BuildInv, PagesMatchCursor, AccessBounds, WrittenKept
<1>2. CASE phase' = "failed" /\ UNCHANGED <<prot, written>>
    BY <1>0, <1>2 DEF TypeOK, BuildInv, PagesMatchCursor, AccessBounds, WrittenKept
<1>. QED  BY <1>1, <1>2

LEMMA DestroyStep ==
    ASSUME PagedInv, Destroy
    PROVE  PagedInv' /\ WrittenKept
<1> USE Sizes DEF PagedInv, Destroy
<1>1. TypeOK'
    BY RemapTypes DEF TypeOK
<1>2. \A p \in PageStarts : prot'[p] = "free"
    BY DEF Remapped
<1>. QED  BY <1>1, <1>2 DEF BuildInv, PagesMatchCursor, AccessBounds, WrittenKept

\* An access that throws, or returns at once, changes no page.
LEMMA QuietStep ==
    ASSUME PagedInv, phase = "ready", UNCHANGED <<phase, cursor, prot, written>>,
           \/ last' = Nowhere
           \/ last' \in Asked /\ last' <= cursor /\ cursor <= last' + Win + Page
    PROVE  PagedInv' /\ WrittenKept
BY Sizes DEF PagedInv, TypeOK, BuildInv, PagesMatchCursor, AccessBounds, WrittenKept

LEMMA CommitStep ==
    ASSUME PagedInv, NEW c \in Asked, Commit(c)
    PROVE  PagedInv' /\ WrittenKept
<1> USE Sizes, PagedAssumption
<1> DEFINE up == AlignUp(c, Page)
           to == IF up + Win < End THEN up + Win ELSE End
<1>0. phase = "ready" /\ phase' = phase /\ cursor <= c /\ c \in Nat
      /\ cursor \in 0..End /\ last \in Asked \cup {Nowhere} /\ Page \in Nat \ {0}
    BY DEF Commit, PagedInv, TypeOK
<1>1. CASE c = cursor /\ Returns(c) /\ UNCHANGED <<cursor, prot, written>>
    BY <1>0, <1>1, QuietStep DEF Returns
<1>2. CASE /\ cursor < c /\ c <= End /\ Mappable(cursor, to)
           /\ Remapped(cursor, to, "rw")
           /\ cursor' = to /\ Returns(c)
    <2>1. up \in Nat /\ up % Page = 0 /\ c <= up /\ up < c + Page
        <3>1. AlignUp(c, Page) \in Nat /\ AlignUp(c, Page) % Page = 0
              /\ c <= AlignUp(c, Page) /\ AlignUp(c, Page) < c + Page
            BY <1>0, AlignUpCorrect
        <3>. QED  BY <3>1
    <2> HIDE DEF up
    <2>2. (up + Win) % Page = 0 /\ up + Win \in Nat
        <3>1. /\ up \in Nat /\ Win \in Nat /\ Page \in Nat \ {0}
              /\ up % Page = 0 /\ Win % Page = 0
            BY <1>0, <2>1
        <3>2. (up + Win) % Page = 0
            BY ONLY <3>1, SumIsMultiple
        <3>. QED  BY <3>1, <3>2
    <2>3. to \in 0..End /\ to % Page = 0 /\ c <= to /\ to <= c + Win + Page
        BY <1>0, <1>2, <2>1, <2>2
    <2>4. cursor' = to /\ last' = c /\ Remapped(cursor, to, "rw")
        BY <1>2 DEF Returns
    <2> HIDE DEF to
    <2>5. \A p \in PageStarts : prot'[p] = IF p < to THEN "rw" ELSE "none"
        BY <1>0, <1>2, <2>3, <2>4 DEF PagedInv, PagesMatchCursor, Remapped
    <2>6. written' = written /\ \A p \in written : p < to
        <3>1. \A p \in written : p \in Nat /\ p < cursor
            BY <1>0 DEF PagedInv, PagesMatchCursor, TypeOK
        <3>2. cursor \in Nat /\ c \in Nat /\ to \in Nat /\ cursor < c /\ c <= to
            BY <1>0, <1>2, <2>3
        <3>3. \A p \in written : p < to /\ ~(cursor <= p)
            BY <3>1, <3>2
        <3>. QED  BY <2>4, <3>3 DEF Remapped
    <2>7. TypeOK'
        BY <1>0, <2>3, <2>4, RemapTypes DEF PagedInv, TypeOK
    <2>. QED  BY <1>0, <2>3, <2>4, <2>5, <2>6, <2>7
              DEF PagedInv, BuildInv, PagesMatchCursor, AccessBounds, WrittenKept
<1>3. CASE cursor < c /\ AccessThrows
    BY <1>0, <1>3, QuietStep DEF AccessThrows
<1>. QED  BY <1>1, <1>2, <1>3 DEF Commit

LEMMA ReleaseStep ==
    ASSUME PagedInv, NEW c \in Asked, Release(c)
    PROVE  PagedInv' /\ WrittenKept
<1> USE Sizes, PagedAssumption
<1>0. phase = "ready" /\ phase' = phase /\ c < cursor /\ c \in Nat
      /\ cursor \in 0..End /\ last \in Asked \cup {Nowhere} /\ Page \in Nat \ {0}
    BY DEF Release, PagedInv, TypeOK
<1>1. CASE cursor - c < Win /\ Returns(c) /\ UNCHANGED <<cursor, prot, written>>
    BY <1>0, <1>1, QuietStep DEF Returns
<1>2. CASE /\ cursor - c >= Win /\ Mappable(c + Win, End)
           /\ Remapped(c + Win, End, "none")
           /\ cursor' = c + Win /\ Returns(c)
    <2>1. /\ c + Win \in 0..End /\ c + Win <= cursor /\ last' = c
          /\ (c + Win) % Page = 0
        BY <1>0, <1>2 DEF Returns, Mappable
    <2>2. \A p \in PageStarts : prot'[p] = IF p < c + Win THEN "rw" ELSE "none"
        BY <1>0, <1>2, <2>1 DEF PagedInv, PagesMatchCursor, Remapped
    <2>3. written' = {p \in written : p < c + Win}
        <3>1. \A p \in written : p \in Nat /\ p < End
            BY DEF PagedInv, TypeOK
        <3>2. c + Win \in Nat /\ End \in Nat
            BY <2>1
        <3>3. \A p \in written : ~(c + Win <= p /\ p < End) <=> p < c + Win
            BY <3>1, <3>2
        <3>4. written' = {p \in written : ~(c + Win <= p /\ p < End)}
            BY <1>2 DEF Remapped
        <3>. QED  BY <3>3, <3>4
    <2>4. TypeOK'
        BY <1>0, <1>2, <2>1, RemapTypes DEF PagedInv, TypeOK
    <2>. QED  BY <1>0, <1>2, <2>1, <2>2, <2>3, <2>4
              DEF PagedInv, BuildInv, PagesMatchCursor, AccessBounds, WrittenKept
<1>3. CASE cursor - c >= Win /\ AccessThrows
    BY <1>0, <1>3, QuietStep DEF AccessThrows
<1>. QED  BY <1>1, <1>2, <1>3 DEF Release

LEMMA WriteStep ==
    ASSUME PagedInv, NEW p \in PageStarts, Write(p)
    PROVE  PagedInv' /\ WrittenKept
<1>1. p < cursor
    BY DEF PagedInv, PagesMatchCursor, Write
<1>. QED  BY <1>1 DEF PagedInv, TypeOK, BuildInv, PagesMatchCursor,
                      AccessBounds, Write, WrittenKept

LEMMA InitPaged == Init => PagedInv
BY Sizes DEF Init, PagedInv, TypeOK, BuildInv, PagesMatchCursor, AccessBounds

LEMMA NextStep ==
    ASSUME PagedInv, [Next]_vars
    PROVE  PagedInv' /\ WrittenKept
<1>1. CASE Reserve
    BY <1>1, ReserveStep
<1>2. CASE MapWindow
    BY <1>2, MapWindowStep
<1>3. CASE Destroy
    BY <1>3, DestroyStep
<1>4. CASE \E c \in Asked : Commit(c) \/ Release(c)
    BY <1>4, CommitStep, ReleaseStep
<1>5. CASE \E p \in PageStarts : Write(p)
    BY <1>5, WriteStep
<1>6. CASE Ended \/ UNCHANGED vars
    BY <1>6 DEF Ended, vars, PagedInv, TypeOK, BuildInv, PagesMatchCursor,
                AccessBounds, WrittenKept
<1>. QED  BY <1>1, <1>2, <1>3, <1>4, <1>5, <1>6 DEF Next

LEMMA Invariance == Spec => []PagedInv
BY InitPaged, NextStep, PTL DEF Spec

-----------------------------------------------------------------------------
\* Every variable keeps its type; the cursor never leaves the buffer.
THEOREM TypeCorrect == Spec => []TypeOK
<1>1. PagedInv => TypeOK
    BY DEF PagedInv
<1>. QED  BY <1>1, Invariance, PTL

\* The pages that can be touched are exactly those in front of the cursor,
\* whatever is asked for and whatever fails.
THEOREM PagesCorrect == Spec => []PagesMatchCursor
<1>1. PagedInv => PagesMatchCursor
    BY DEF PagedInv
<1>. QED  BY <1>1, Invariance, PTL

\* After an access the cursor is at most a window and a page ahead.
THEOREM BoundsCorrect == Spec => []AccessBounds
<1>1. PagedInv => AccessBounds
    BY DEF PagedInv
<1>. QED  BY <1>1, Invariance, PTL

\* No access takes away what was written in front of its window.
THEOREM DataIsKept == Spec => DataKept
<1>1. PagedInv /\ [Next]_vars => [WrittenKept]_vars
    BY NextStep
<1>. QED  BY <1>1, Invariance, PTL DEF Spec, DataKept, WrittenKept

-----------------------------------------------------------------------------
(* The circular buffer.                                                    *)

Steps == Busy \cup {"ready", "failed", "gone", "crashed"}
HalfContent(p) == {"free", "reserved", p}

HalfTypes ==
    /\ half \in [Procs -> [{1, 2} -> Procs \cup {"free", "reserved"}]]
    /\ \A p \in Procs : half[p][1] \in HalfContent(p) /\ half[p][2] \in HalfContent(p)

RingTypes ==
    /\ pc \in [Procs -> Steps]
    /\ name \in [Procs -> Leaves \cup {Nobody}]
    /\ fd \in [Procs -> Procs \cup {Nobody}]
    /\ shm \in [Leaves -> Procs \cup {Nobody}]
    /\ failed \in [Procs -> SUBSET {1, 2}]
    /\ HalfTypes

\* A constructor at work has an object of its own, linked to the name it drew;
\* nothing else is linked but what crashed processes left.
LinkInv ==
    /\ \A p \in Procs : pc[p] \in Busy \ {"open"} =>
          name[p] \in Leaves /\ shm[name[p]] = p /\ fd[p] = p
    /\ \A p \in Procs, n \in Leaves : shm[n] = p =>
          \/ pc[p] \in Busy \ {"open"} /\ name[p] = n
          \/ pc[p] = "crashed"

\* What is mapped so far, and which maps are known to have failed.
MapInv ==
    \A p \in Procs :
        /\ pc[p] \in {"open", "size", "reserve", "first"} => failed[p] = {}
        /\ pc[p] = "second" =>
              failed[p] \subseteq {1} /\ (1 \notin failed[p] => half[p][1] = p)
        /\ pc[p] = "check" => \A i \in {1, 2} \ failed[p] : half[p][i] = p
        /\ pc[p] = "ready" => half[p][1] = p /\ half[p][2] = p

RingInv == RingTypes /\ LinkInv /\ MapInv

LEMMA HalvesMapped ==
    ASSUME HalfTypes, NEW p \in Procs, NEW i \in {1, 2}, NEW v \in HalfContent(p),
           half' = [half EXCEPT ![p][i] = v]
    PROVE  HalfTypes'
<1>1. half' = [half EXCEPT ![p] = [half[p] EXCEPT ![i] = v]]
    OBVIOUS
<1>2. [half[p] EXCEPT ![i] = v] \in [{1, 2} -> Procs \cup {"free", "reserved"}]
    BY DEF HalfTypes, HalfContent
<1>3. half' \in [Procs -> [{1, 2} -> Procs \cup {"free", "reserved"}]]
    BY <1>1, <1>2 DEF HalfTypes
<1>4. \A q \in Procs, j \in {1, 2} : half'[q][j] = IF q = p /\ j = i THEN v ELSE half[q][j]
    BY <1>1 DEF HalfTypes
<1>. QED  BY <1>3, <1>4 DEF HalfTypes

LEMMA HalvesReset ==
    ASSUME HalfTypes, NEW p \in Procs, NEW v \in {"free", "reserved"},
           half' = [half EXCEPT ![p] = <<v, v>>]
    PROVE  HalfTypes'
<1>1. <<v, v>> \in [{1, 2} -> Procs \cup {"free", "reserved"}]
    OBVIOUS
<1>2. half' \in [Procs -> [{1, 2} -> Procs \cup {"free", "reserved"}]]
    BY <1>1 DEF HalfTypes
<1>3. \A q \in Procs : half'[q] = IF q = p THEN <<v, v>> ELSE half[q]
    BY DEF HalfTypes
<1>4. \A q \in Procs : half'[q][1] \in HalfContent(q) /\ half'[q][2] \in HalfContent(q)
    BY <1>3 DEF HalfTypes, HalfContent
<1>. QED  BY <1>2, <1>4 DEF HalfTypes

LEMMA InitRing == RingInit => RingInv
<1> SUFFICES ASSUME RingInit PROVE RingInv
    OBVIOUS
<1> USE CircularAssumption DEF RingInit, Busy
<1>1. RingTypes
    BY DEF RingTypes, HalfTypes, Steps, HalfContent
<1>2. LinkInv
    BY DEF LinkInv
<1>3. MapInv
    BY DEF MapInv
<1>. QED  BY <1>1, <1>2, <1>3 DEF RingInv

LEMMA RingStep ==
    ASSUME RingInv, [RingNext]_ringVars
    PROVE  RingInv'
<1> USE CircularAssumption DEF RingInv, Goto, Busy
<1>1. ASSUME NEW p \in Procs, NEW n \in Leaves, Open(p, n) PROVE RingInv'
    <2> USE <1>1 DEF Open
    <2>1. RingTypes'
        BY DEF RingTypes, HalfTypes, Steps
    <2>2. LinkInv'
        BY DEF LinkInv, RingTypes
    <2>3. MapInv'
        BY DEF MapInv, RingTypes
    <2>. QED  BY <2>1, <2>2, <2>3
<1>2. ASSUME NEW p \in Procs, OpenFails(p) PROVE RingInv'
    <2> USE <1>2 DEF OpenFails
    <2>1. RingTypes'
        BY DEF RingTypes, HalfTypes, Steps
    <2>2. LinkInv'
        BY DEF LinkInv, RingTypes
    <2>3. MapInv'
        BY DEF MapInv, RingTypes
    <2>. QED  BY <2>1, <2>2, <2>3
<1>3. ASSUME NEW p \in Procs, Resize(p) \/ ReserveHalves(p) PROVE RingInv'
    <2> USE <1>3 DEF Resize, ReserveHalves
    <2>1. RingTypes'
        <3>1. HalfTypes'
            BY HalvesReset DEF RingTypes, HalfTypes
        <3>. QED  BY <3>1 DEF RingTypes, Steps
    <2>2. LinkInv'
        BY DEF LinkInv, RingTypes
    <2>3. MapInv'
        BY DEF MapInv, RingTypes, HalfTypes
    <2>. QED  BY <2>1, <2>2, <2>3
<1>4. ASSUME NEW p \in Procs, CallFails(p) PROVE RingInv'
    <2> USE <1>4 DEF CallFails, Unlinked
    <2>1. RingTypes'
        BY DEF RingTypes, HalfTypes, Steps
    <2>2. LinkInv'
        BY DEF LinkInv, RingTypes
    <2>3. MapInv'
        BY DEF MapInv, RingTypes
    <2>. QED  BY <2>1, <2>2, <2>3
<1>5. ASSUME NEW p \in Procs, MapFirst(p) \/ MapSecond(p) PROVE RingInv'
    <2> USE <1>5 DEF MapFirst, MapSecond
    <2>1. fd[p] = p
        BY DEF LinkInv
    <2>2. RingTypes'
        <3>1. HalfTypes'
            BY <2>1, HalvesMapped DEF RingTypes, HalfTypes, HalfContent
        <3>. QED  BY <3>1 DEF RingTypes, Steps
    <2>3. LinkInv'
        BY DEF LinkInv, RingTypes
    <2>4. MapInv'
        BY <2>1 DEF MapInv, RingTypes, HalfTypes
    <2>. QED  BY <2>2, <2>3, <2>4
<1>6. ASSUME NEW p \in Procs, Check(p) PROVE RingInv'
    <2> USE <1>6 DEF Check, Unlinked
    <2>1. RingTypes'
        <3>1. HalfTypes'
            <4>1. CASE UNCHANGED half
                BY <4>1 DEF RingTypes, HalfTypes, HalfContent
            <4>2. CASE half' = [half EXCEPT ![p][1] = "free"]
                <5>1. HalfTypes /\ "free" \in HalfContent(p) /\ 1 \in {1, 2}
                    BY DEF RingTypes, HalfContent
                <5>. QED  BY <4>2, <5>1, HalvesMapped
            <4>. QED  BY <4>1, <4>2
        <3>. QED  BY <3>1 DEF RingTypes, Steps
    <2>2. LinkInv'
        BY DEF LinkInv, RingTypes
    <2>3. MapInv'
        BY DEF MapInv, RingTypes, HalfTypes
    <2>. QED  BY <2>1, <2>2, <2>3
<1>7. ASSUME NEW p \in Procs, Unmap(p) \/ Crash(p) PROVE RingInv'
    <2> USE <1>7 DEF Unmap, Crash
    <2>1. RingTypes'
        <3>1. HalfTypes'
            BY HalvesReset DEF RingTypes, HalfTypes
        <3>. QED  BY <3>1 DEF RingTypes, Steps
    <2>2. LinkInv'
        BY DEF LinkInv, RingTypes
    <2>3. MapInv'
        BY DEF MapInv, RingTypes, HalfTypes
    <2>. QED  BY <2>1, <2>2, <2>3
<1>8. ASSUME UNCHANGED ringVars PROVE RingInv'
    BY <1>8 DEF ringVars, RingTypes, HalfTypes, LinkInv, MapInv
<1>. QED  BY <1>1, <1>2, <1>3, <1>4, <1>5, <1>6, <1>7, <1>8 DEF RingNext, RingEnded

\* An address of the second half is the same byte as the one constrain () gives.
LEMMA RingMeaning == RingInv => RingSafe
<1> SUFFICES ASSUME RingInv PROVE RingSafe
    OBVIOUS
<1> USE CircularAssumption DEF RingInv
<1>1. Isolated
    BY DEF Isolated, RingTypes, HalfTypes, HalfContent
<1>2. Mirrored
    <2> SUFFICES ASSUME NEW p \in Procs, pc[p] = "ready", NEW i \in 0..(2 * HalfSize - 1)
                 PROVE  /\ Byte(p, i) = Byte(p, Constrain(i))
                        /\ Byte(p, i)[1] \in Procs
        BY DEF Mirrored
    <2>1. half[p][1] = p /\ half[p][2] = p
        BY DEF MapInv
    <2>2. ASSUME NEW k \in 0..(2 * HalfSize - 1) PROVE Byte(p, k) = <<p, k % HalfSize>>
        <3>. k \in Nat /\ HalfSize \in Nat \ {0}
            OBVIOUS
        <3>1. k \div HalfSize \in Nat /\ k % HalfSize \in 0..(HalfSize - 1) /\ k = HalfSize * (k \div HalfSize) + (k % HalfSize)
            BY DivMod
        <3>2. k \div HalfSize = 0 \/ k \div HalfSize = 1
            <4> SUFFICES ASSUME NEW d \in Nat, NEW r \in 0..(HalfSize - 1), k = HalfSize * d + r, d >= 2
                         PROVE  FALSE
                BY <3>1
            <4>1. HalfSize * d >= HalfSize * 2
                OBVIOUS
            <4>. QED  BY <4>1
        <3>. QED  BY <2>1, <3>2 DEF Byte
    <2>3. i % HalfSize \in 0..(2 * HalfSize - 1) /\ (i % HalfSize) % HalfSize = i % HalfSize
        <3>1. i % HalfSize \in 0..(HalfSize - 1)
            BY DivMod
        <3>2. ASSUME NEW r \in 0..(HalfSize - 1) PROVE r % HalfSize = r
            OBVIOUS
        <3>. QED  BY <3>1, <3>2
    <2>. QED  BY <2>2, <2>3 DEF Constrain
<1>3. NamesUnlinked
    BY DEF NamesUnlinked, LinkInv, RingTypes, Busy
<1>. QED  BY <1>1, <1>2, <1>3 DEF RingSafe

\* However many processes construct circular buffers at once, whatever names
\* they draw, whichever calls fail and whoever dies: no two buffers share
\* memory, both halves of a buffer are the same bytes, and a constructor that
\* ends leaves no name behind.
THEOREM RingIsSafe == RingSpec => []RingSafe
<1>1. RingInit => RingInv
    BY InitRing
<1>2. RingInv /\ [RingNext]_ringVars => RingInv'
    BY RingStep
<1>3. RingInv => RingSafe
    BY RingMeaning
<1>. QED  BY <1>1, <1>2, <1>3, PTL DEF RingSpec
=============================================================================
