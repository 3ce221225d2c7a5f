---------------------------- MODULE LibraryProofs ----------------------------
(***************************************************************************)
(* Proofs about the parts that work on values.  Regions: for points of any *)
(* number of axes, regions and margins of any extent, and any number of    *)
(* points shown and moves, the box and the region are exact bounds, their  *)
(* operations are those on sets of points, and a walk meets every point    *)
(* once and in order.                                                      *)
(*                                                                         *)
(* Vec(n) are the coordinates of n axes and Regs(n) the regions of them;   *)
(* every operator is first described axis by axis, and two coordinates are *)
(* the same if they are on every axis (SameElements).  The inductive       *)
(* invariant, RegionInv, says that the region is Tight around the points   *)
(* seen, and that a walk is where Walked says.                             *)
(*                                                                         *)
(* Codecs: for any octets, in any number.  A text and its octets are rows  *)
(* of the same bits, cut at different places (Tally, Chunk); what encode   *)
(* returns is Coded, what the register of decode holds is Aligned with the *)
(* octets.  For utf8, a turn of the decoder reads the one codepoint that   *)
(* Stands behind the cursor; along the turns, what was read Reads in front *)
(* of it, and what was Written is read again.                              *)
(***************************************************************************)
EXTENDS Regions, Codecs, Pointer, FiniteSetTheorems, SequenceTheorems, WellFoundedInduction

(***************************************************************************)
(* Induction over the natural numbers, for a set of them: the library      *)
(* states it for an operator, which no prover here instantiates, and its   *)
(* well-founded minimum for a set.                                         *)
(***************************************************************************)

\* A set of natural numbers that is not empty has a least one.
LEMMA LeastNatural ==
    ASSUME NEW T, T \subseteq Nat, T # {}
    PROVE  \E x \in T : \A y \in T : x <= y
<1>1. PICK x \in T : \A y \in T : ~ (<<y, x>> \in OpToRel(<, Nat))
    BY NatLessThanWellFounded, WFMin
<1>2. \A y \in T : ~(y < x)
    <2>. SUFFICES ASSUME NEW y \in T, y < x PROVE FALSE
        OBVIOUS
    <2>. QED  BY <1>1 DEF OpToRel
<1>. QED  BY <1>2

\* What holds 0, and with a number the next one, holds them all.
LEMMA Induction ==
    ASSUME NEW G, 0 \in G, \A n \in Nat : n \in G => n + 1 \in G
    PROVE  Nat \subseteq G
<1>. SUFFICES ASSUME NEW k \in Nat, k \notin G PROVE FALSE
    OBVIOUS
<1>. DEFINE T == {n \in Nat : n \notin G}
<1>1. PICK x \in T : \A y \in T : x <= y
    BY LeastNatural
<1>2. x # 0 /\ x - 1 \in Nat
    OBVIOUS
<1>3. x - 1 \notin T
    BY <1>1, <1>2
<1>. QED  BY <1>2, <1>3

-----------------------------------------------------------------------------
(* Sums and products.  A table holds those of the first elements.          *)

Vec(n) == [1..n -> Int]
SumTable(t, k, n) == t \in [0..n -> Int] /\ t[0] = 0 /\ \A i \in 1..n : t[i] = t[i - 1] + k[i]
ProductTable(t, k, n) == t \in [0..n -> Int] /\ t[0] = 1 /\ \A i \in 1..n : t[i] = t[i - 1] * k[i]

\* There is a table of the sums, and one of the products.
LEMMA TablesExist ==
    ASSUME NEW n \in Nat, NEW k \in Vec(n)
    PROVE  /\ \E t : SumTable(t, k, n)
           /\ \E t : ProductTable(t, k, n)
<1>. DEFINE G == {m \in Nat : m <= n => (\E t : SumTable(t, k, m)) /\ (\E t : ProductTable(t, k, m))}
<1>1. 0 \in G
    <2>1. SumTable([i \in 0..0 |-> 0], k, 0) /\ ProductTable([i \in 0..0 |-> 1], k, 0)
        BY DEF SumTable, ProductTable
    <2>. QED  BY <2>1
<1>2. ASSUME NEW m \in Nat, m \in G PROVE m + 1 \in G
    <2>. SUFFICES ASSUME m + 1 <= n
                  PROVE  (\E t : SumTable(t, k, m + 1)) /\ (\E t : ProductTable(t, k, m + 1))
        OBVIOUS
    <2>0. k[m + 1] \in Int
        BY DEF Vec
    <2>1. PICK s : SumTable(s, k, m)
        BY <1>2
    <2>2. PICK p : ProductTable(p, k, m)
        BY <1>2
    <2>3. SumTable([i \in 0..(m + 1) |-> IF i <= m THEN s[i] ELSE s[m] + k[m + 1]], k, m + 1)
        BY <2>0, <2>1 DEF SumTable
    <2>4. ProductTable([i \in 0..(m + 1) |-> IF i <= m THEN p[i] ELSE p[m] * k[m + 1]], k, m + 1)
        BY <2>0, <2>2 DEF ProductTable
    <2>. QED  BY <2>3, <2>4
<1>3. Nat \subseteq G
    <2>. HIDE DEF G
    <2>. QED  BY <1>1, <1>2, Induction
<1>. QED  BY <1>3

\* A function that is defined by its table is the table.
LEMMA SumIsLast ==
    ASSUME NEW n \in Nat, NEW k \in Vec(n), NEW t, SumTable(t, k, n)
    PROVE  sum(k) = t[n]
<1>. DEFINE Def(f) == [i \in 0..Len(k) |-> IF i = 0 THEN 0 ELSE f[i - 1] + k[i]]
            S == CHOOSE f : f = Def(f)
<1>0. Len(k) = n
    BY DEF Vec
<1>1. t = Def(t)
    BY <1>0 DEF SumTable
<1>2. S = Def(S)
    <2>. HIDE DEF Def
    <2>. QED  BY <1>1
<1>3. sum(k) = S[n]
    BY <1>0 DEF sum
<1>4. \A i \in 0..n : S[i] = IF i = 0 THEN 0 ELSE S[i - 1] + k[i]
    <2>. HIDE DEF S
    <2>. QED  BY <1>2, <1>0
<1>. HIDE DEF S
<1>. DEFINE G == {i \in Nat : i <= n => S[i] = t[i]}
<1>5. 0 \in G /\ \A i \in Nat : i \in G => i + 1 \in G
    BY <1>4 DEF SumTable
<1>6. Nat \subseteq G
    <2>. HIDE DEF G
    <2>. QED  BY <1>5, Induction
<1>. QED  BY <1>3, <1>6

LEMMA ProductIsLast ==
    ASSUME NEW n \in Nat, NEW k \in Vec(n), NEW t, ProductTable(t, k, n)
    PROVE  product(k) = t[n]
<1>. DEFINE Def(f) == [i \in 0..Len(k) |-> IF i = 0 THEN 1 ELSE f[i - 1] * k[i]]
            S == CHOOSE f : f = Def(f)
<1>0. Len(k) = n
    BY DEF Vec
<1>1. t = Def(t)
    BY <1>0 DEF ProductTable
<1>2. S = Def(S)
    <2>. HIDE DEF Def
    <2>. QED  BY <1>1
<1>3. product(k) = S[n]
    BY <1>0 DEF product
<1>4. \A i \in 0..n : S[i] = IF i = 0 THEN 1 ELSE S[i - 1] * k[i]
    <2>. HIDE DEF S
    <2>. QED  BY <1>2, <1>0
<1>. HIDE DEF S
<1>. DEFINE G == {i \in Nat : i <= n => S[i] = t[i]}
<1>5. 0 \in G /\ \A i \in Nat : i \in G => i + 1 \in G
    BY <1>4 DEF ProductTable
<1>6. Nat \subseteq G
    <2>. HIDE DEF G
    <2>. QED  BY <1>5, Induction
<1>. QED  BY <1>3, <1>6
\* Sums keep an order of the elements, a sum of what is not negative is not
\* below any of it, and its square is not below the sum of the squares.
LEMMA SumsCompare ==
    ASSUME NEW n \in Nat, NEW k \in Vec(n), NEW l \in Vec(n)
    PROVE  /\ sum(k) \in Int
           /\ (\A i \in 1..n : k[i] <= l[i]) => sum(k) <= sum(l)
           /\ (\A i \in 1..n : 0 <= k[i]) => 0 <= sum(k) /\ \A i \in 1..n : k[i] <= sum(k)
           /\ (\A i \in 1..n : 0 <= k[i] /\ l[i] = k[i] * k[i]) => sum(l) <= sum(k) * sum(k)
<1>1. PICK s : SumTable(s, k, n)
    BY TablesExist
<1>2. PICK t : SumTable(t, l, n)
    BY TablesExist
<1>3. sum(k) = s[n] /\ sum(l) = t[n]
    BY <1>1, <1>2, SumIsLast
<1>0. /\ \A i \in 1..n : k[i] \in Int /\ l[i] \in Int
      /\ \A i \in 0..n : s[i] \in Int /\ t[i] \in Int
      /\ s[0] = 0 /\ t[0] = 0
      /\ \A i \in Nat : i + 1 <= n => s[i + 1] = s[i] + k[i + 1] /\ t[i + 1] = t[i] + l[i + 1]
    BY <1>1, <1>2 DEF SumTable, Vec
<1>4. ASSUME \A i \in 1..n : k[i] <= l[i] PROVE s[n] <= t[n]
    <2>. DEFINE G == {i \in Nat : i <= n => s[i] <= t[i]}
    <2>1. 0 \in G
        BY <1>0
    <2>2. \A i \in Nat : i \in G => i + 1 \in G
        BY <1>0, <1>4
    <2>3. Nat \subseteq G
        <3>. HIDE DEF G
        <3>. QED  BY <2>1, <2>2, Induction
    <2>. QED  BY <2>3
<1>5. ASSUME \A i \in 1..n : 0 <= k[i] PROVE 0 <= s[n] /\ \A i \in 1..n : k[i] <= s[n]
    <2>. DEFINE G == {i \in Nat : i <= n => 0 <= s[i] /\ \A j \in 1..i : k[j] <= s[i]}
    <2>1. 0 \in G
        BY <1>0
    <2>2. ASSUME NEW i \in Nat, i \in G PROVE i + 1 \in G
        <3>. SUFFICES ASSUME i + 1 <= n, NEW j \in 1..(i + 1) PROVE 0 <= s[i + 1] /\ k[j] <= s[i + 1]
            BY <1>0, <2>2
        <3>1. 0 <= s[i] /\ s[i + 1] = s[i] + k[i + 1] /\ 0 <= k[i + 1] /\ s[i] \in Int /\ k[i + 1] \in Int
            BY <1>0, <1>5, <2>2
        <3>2. j # i + 1 => k[j] <= s[i] /\ k[j] \in Int
            BY <1>0, <2>2
        <3>. QED  BY <3>1, <3>2
    <2>3. Nat \subseteq G
        <3>. HIDE DEF G
        <3>. QED  BY <2>1, <2>2, Induction
    <2>. QED  BY <2>3
<1>6. ASSUME \A i \in 1..n : 0 <= k[i] /\ l[i] = k[i] * k[i] PROVE t[n] <= s[n] * s[n]
    <2>. DEFINE G == {i \in Nat : i <= n => 0 <= s[i] /\ t[i] <= s[i] * s[i]}
    <2>1. 0 \in G
        BY <1>0
    <2>2. ASSUME NEW i \in Nat, i \in G PROVE i + 1 \in G
        <3>. SUFFICES ASSUME i + 1 <= n PROVE 0 <= s[i + 1] /\ t[i + 1] <= s[i + 1] * s[i + 1]
            OBVIOUS
        <3>. DEFINE a == s[i]
                    x == k[i + 1]
        <3>1. /\ 0 <= a /\ 0 <= x /\ a \in Int /\ x \in Int /\ t[i] \in Int /\ t[i] <= a * a
              /\ s[i + 1] = a + x /\ t[i + 1] = t[i] + x * x
            BY <1>0, <1>6, <2>2
        <3>. HIDE DEF a, x
        <3>2. (a + x) * (a + x) = a * a + 2 * (a * x) + x * x /\ 0 <= a * x
            BY <3>1
        <3>. QED  BY <3>1, <3>2
    <2>3. Nat \subseteq G
        <3>. HIDE DEF G
        <3>. QED  BY <2>1, <2>2, Induction
    <2>. QED  BY <2>3
<1>. QED  BY <1>0, <1>3, <1>4, <1>5, <1>6

LEMMA SumOfThree ==
    ASSUME NEW k \in Vec(3)
    PROVE  sum(k) = k[1] + k[2] + k[3]
<1>1. PICK s : SumTable(s, k, 3)
    BY TablesExist
<1>2. s[3] = s[2] + k[3] /\ s[2] = s[1] + k[2] /\ s[1] = s[0] + k[1] /\ s[0] = 0
    BY <1>1 DEF SumTable
<1>3. k[1] \in Int /\ k[2] \in Int /\ k[3] \in Int
    BY DEF Vec
<1>. QED  BY <1>1, <1>2, <1>3, SumIsLast

\* A product is zero exactly when an element is.
LEMMA ProductIsZero ==
    ASSUME NEW n \in Nat, NEW k \in Vec(n)
    PROVE  product(k) = 0 <=> \E i \in 1..n : k[i] = 0
<1>1. PICK t : ProductTable(t, k, n)
    BY TablesExist
<1>0. /\ \A i \in 1..n : k[i] \in Int
      /\ \A i \in 0..n : t[i] \in Int
      /\ t[0] = 1
      /\ \A i \in Nat : i + 1 <= n => t[i + 1] = t[i] * k[i + 1]
    BY <1>1 DEF ProductTable, Vec
<1>. DEFINE G == {i \in Nat : i <= n => (t[i] = 0 <=> \E j \in 1..i : k[j] = 0)}
<1>2. 0 \in G
    BY <1>0
<1>3. ASSUME NEW i \in Nat, i \in G PROVE i + 1 \in G
    <2>. SUFFICES ASSUME i + 1 <= n PROVE t[i + 1] = 0 <=> \E j \in 1..(i + 1) : k[j] = 0
        OBVIOUS
    <2>1. t[i] \in Int /\ k[i + 1] \in Int /\ t[i + 1] = t[i] * k[i + 1]
        BY <1>0
    <2>2. t[i + 1] = 0 <=> t[i] = 0 \/ k[i + 1] = 0
        BY <2>1
    <2>3. (\E j \in 1..(i + 1) : k[j] = 0) <=> (\E j \in 1..i : k[j] = 0) \/ k[i + 1] = 0
        <3>1. 1..(i + 1) = 1..i \union {i + 1}
            OBVIOUS
        <3>. QED  BY <3>1
    <2>4. t[i] = 0 <=> \E j \in 1..i : k[j] = 0
        BY <1>3
    <2>. QED  BY <2>2, <2>3, <2>4
<1>4. Nat \subseteq G
    <2>. HIDE DEF G
    <2>. QED  BY <1>2, <1>3, Induction
<1>5. t[n] = 0 <=> \E j \in 1..n : k[j] = 0
    BY <1>4
<1>. QED  BY <1>1, <1>5, ProductIsLast

\* A coordinate that has an element has a least and a greatest one.
LEMMA Extremes ==
    ASSUME NEW n \in Nat \ {0}, NEW k \in Vec(n)
    PROVE  /\ \E j \in 1..n : min_element(k) = k[j]
           /\ \E j \in 1..n : max_element(k) = k[j]
           /\ \A i \in 1..n : min_element(k) <= k[i] /\ k[i] <= max_element(k)
<1>0. DOMAIN k = 1..n /\ \A i \in 1..n : k[i] \in Int
    BY DEF Vec
<1>. DEFINE G == {m \in Nat : 1 <= m /\ m <= n =>
                    /\ \E j \in 1..m : \A i \in 1..m : k[j] <= k[i]
                    /\ \E j \in 1..m : \A i \in 1..m : k[i] <= k[j]}
<1>1. 0 \in G
    OBVIOUS
<1>2. ASSUME NEW m \in Nat, m \in G PROVE m + 1 \in G
    <2>. SUFFICES ASSUME m + 1 <= n
                  PROVE  /\ \E j \in 1..(m + 1) : \A i \in 1..(m + 1) : k[j] <= k[i]
                         /\ \E j \in 1..(m + 1) : \A i \in 1..(m + 1) : k[i] <= k[j]
        OBVIOUS
    <2>1. CASE m = 0
        BY <1>0, <2>1
    <2>2. CASE m # 0
        <3>1. PICK j \in 1..m : \A i \in 1..m : k[j] <= k[i]
            BY <1>2, <2>2
        <3>2. PICK l \in 1..m : \A i \in 1..m : k[i] <= k[l]
            BY <1>2, <2>2
        <3>3. \E x \in 1..(m + 1) : \A i \in 1..(m + 1) : k[x] <= k[i]
            <4>1. CASE k[j] <= k[m + 1]
                <5>. \A i \in 1..(m + 1) : k[j] <= k[i]
                    BY <3>1, <4>1
                <5>. QED  OBVIOUS
            <4>2. CASE k[m + 1] <= k[j]
                <5>. \A i \in 1..(m + 1) : k[m + 1] <= k[i]
                    BY <3>1, <4>2, <1>0
                <5>. QED  OBVIOUS
            <4>. QED  BY <4>1, <4>2, <1>0
        <3>4. \E x \in 1..(m + 1) : \A i \in 1..(m + 1) : k[i] <= k[x]
            <4>1. CASE k[m + 1] <= k[l]
                <5>. \A i \in 1..(m + 1) : k[i] <= k[l]
                    BY <3>2, <4>1
                <5>. QED  OBVIOUS
            <4>2. CASE k[l] <= k[m + 1]
                <5>. \A i \in 1..(m + 1) : k[i] <= k[m + 1]
                    BY SMTT(40), <3>2, <4>2, <1>0
                <5>. QED  OBVIOUS
            <4>. QED  BY <4>1, <4>2, <1>0
        <3>. QED  BY <3>3, <3>4
    <2>. QED  BY <2>1, <2>2
<1>3. Nat \subseteq G
    <2>. HIDE DEF G
    <2>. QED  BY <1>1, <1>2, Induction
<1>4. /\ \E v \in {k[i] : i \in DOMAIN k} : \A i \in DOMAIN k : v <= k[i]
      /\ \E v \in {k[i] : i \in DOMAIN k} : \A i \in DOMAIN k : v >= k[i]
    <2>0. n \in G
        BY <1>3
    <2>1. PICK j \in 1..n : \A i \in 1..n : k[j] <= k[i]
        BY <2>0
    <2>2. PICK l \in 1..n : \A i \in 1..n : k[i] <= k[l]
        BY <2>0
    <2>3. k[j] \in {k[i] : i \in DOMAIN k} /\ k[l] \in {k[i] : i \in DOMAIN k}
        BY <1>0
    <2>. QED  BY <1>0, <2>1, <2>2, <2>3, k[j] \in Int, k[l] \in Int
<1>5. /\ min_element(k) \in {k[i] : i \in DOMAIN k} /\ \A i \in DOMAIN k : min_element(k) <= k[i]
      /\ max_element(k) \in {k[i] : i \in DOMAIN k} /\ \A i \in DOMAIN k : max_element(k) >= k[i]
    BY <1>4 DEF min_element, max_element
<1>. QED  BY <1>0, <1>5

-----------------------------------------------------------------------------
(* Coordinates and regions, axis by axis.                                  *)

\* The regions of n axes: nowhere of negative extent.
Regs(n) == {r \in [p : Vec(n), e : Vec(n)] : \A i \in 1..n : 0 <= r.e[i]}

\* The operators of a coordinate, axis by axis.
LEMMA Elements ==
    ASSUME NEW n \in Nat, NEW a \in Vec(n)
    PROVE  DOMAIN a = 1..n /\ Len(a) = n /\ a \in Seq(Int) /\ \A i \in 1..n : a[i] \in Int
BY DEF Vec

LEMMA Additions ==
    ASSUME NEW n \in Nat, NEW a \in Vec(n), NEW b \in Vec(n)
    PROVE  /\ Plus(a, b) \in Vec(n) /\ \A i \in 1..n : Plus(a, b)[i] = a[i] + b[i]
           /\ Minus(a, b) \in Vec(n) /\ \A i \in 1..n : Minus(a, b)[i] = a[i] - b[i]
           /\ PointDifference(a, b) = Minus(a, b)
<1>1. DOMAIN a = 1..n /\ \A i \in 1..n : a[i] \in Int /\ b[i] \in Int
    BY DEF Vec
<1>2. \A x, y \in Int : Functor("plus", x, y) = x + y /\ Functor("minus", x, y) = x - y
    BY DEF Functor
<1>3. Plus(a, b) = [i \in 1..n |-> a[i] + b[i]]
    BY <1>1, <1>2 DEF Plus, eval
<1>4. Minus(a, b) = [i \in 1..n |-> a[i] - b[i]] /\ PointDifference(a, b) = [i \in 1..n |-> a[i] - b[i]]
    BY <1>1, <1>2 DEF Minus, eval, PointDifference
<1>5. \A i \in 1..n : a[i] + b[i] \in Int /\ a[i] - b[i] \in Int
    BY <1>1
<1>. QED  BY <1>3, <1>4, <1>5 DEF Vec

LEMMA Scalings ==
    ASSUME NEW n \in Nat, NEW a \in Vec(n), NEW c \in Int
    PROVE  /\ PlusScalar(a, c) \in Vec(n) /\ \A i \in 1..n : PlusScalar(a, c)[i] = a[i] + c
           /\ ScalarTimes(c, a) \in Vec(n) /\ \A i \in 1..n : ScalarTimes(c, a)[i] = c * a[i]
<1>1. DOMAIN a = 1..n /\ \A i \in 1..n : a[i] \in Int
    BY DEF Vec
<1>2. \A x, y \in Int : Functor("plus", x, y) = x + y /\ Functor("multiplies", x, y) = x * y
    BY DEF Functor
<1>3. PlusScalar(a, c) = [i \in 1..n |-> a[i] + c]
    BY <1>1, <1>2 DEF PlusScalar, eval_right
<1>4. ScalarTimes(c, a) = [i \in 1..n |-> c * a[i]]
    BY <1>1, <1>2 DEF ScalarTimes, eval_left
<1>5. \A i \in 1..n : a[i] + c \in Int /\ c * a[i] \in Int
    BY <1>1
<1>. QED  BY <1>3, <1>4, <1>5 DEF Vec

LEMMA Extrema ==
    ASSUME NEW n \in Nat, NEW a \in Vec(n), NEW b \in Vec(n)
    PROVE  /\ min2(a, b) \in Vec(n)
           /\ \A i \in 1..n : min2(a, b)[i] = IF b[i] < a[i] THEN b[i] ELSE a[i]
           /\ max2(a, b) \in Vec(n)
           /\ \A i \in 1..n : max2(a, b)[i] = IF b[i] > a[i] THEN b[i] ELSE a[i]
<1>1. DOMAIN a = 1..n /\ \A i \in 1..n : a[i] \in Int /\ b[i] \in Int
    BY DEF Vec
<1>2. /\ min2(a, b) = [i \in 1..n |-> IF b[i] < a[i] THEN b[i] ELSE a[i]]
      /\ max2(a, b) = [i \in 1..n |-> IF b[i] > a[i] THEN b[i] ELSE a[i]]
    BY <1>1 DEF min2, max2
<1>. QED  BY <1>1, <1>2 DEF Vec

LEMMA Magnitudes ==
    ASSUME NEW n \in Nat, NEW a \in Vec(n)
    PROVE  /\ abs(a) \in Vec(n) /\ \A i \in 1..n : abs(a)[i] = IF a[i] < 0 THEN -a[i] ELSE a[i]
           /\ ExtentOf(a) = abs(a)
           /\ pow2(a) \in Vec(n) /\ \A i \in 1..n : pow2(a)[i] = a[i] * a[i]
<1>1. DOMAIN a = 1..n /\ \A i \in 1..n : a[i] \in Int
    BY DEF Vec
<1>2. /\ abs(a) = [i \in 1..n |-> IF a[i] < 0 THEN -a[i] ELSE a[i]]
      /\ ExtentOf(a) = [i \in 1..n |-> IF a[i] < 0 THEN -a[i] ELSE a[i]]
      /\ pow2(a) = [i \in 1..n |-> a[i] * a[i]]
    BY <1>1 DEF abs, Magnitude, ExtentOf, pow2
<1>3. \A i \in 1..n : a[i] * a[i] \in Int /\ -a[i] \in Int
    BY <1>1
<1>. QED  BY <1>1, <1>2, <1>3 DEF Vec

\* The points of a grid are those between its corners.
LEMMA GridIs ==
    ASSUME NEW n \in Nat \ {0}, NEW lo \in Vec(n), NEW hi \in Vec(n)
    PROVE  Grid(lo, hi) = {q \in Vec(n) : \A i \in 1..n : lo[i] <= q[i] /\ q[i] <= hi[i]}
<1>1. DOMAIN lo = 1..n /\ \A i \in 1..n : lo[i] \in Int /\ hi[i] \in Int
    BY DEF Vec
<1>2. /\ min_element(lo) \in Int /\ max_element(hi) \in Int
      /\ \A i \in 1..n : min_element(lo) <= lo[i] /\ hi[i] <= max_element(hi)
    BY <1>1, Extremes
<1>3. ASSUME NEW q \in Vec(n), \A i \in 1..n : lo[i] <= q[i] /\ q[i] <= hi[i]
      PROVE  q \in Grid(lo, hi)
    <2>1. \A i \in 1..n : q[i] \in min_element(lo)..max_element(hi) /\ q[i] \in lo[i]..hi[i]
        BY <1>1, <1>2, <1>3 DEF Vec
    <2>2. q \in [1..n -> min_element(lo)..max_element(hi)]
        BY <2>1 DEF Vec
    <2>. QED  BY <1>1, <2>1, <2>2 DEF Grid
<1>4. ASSUME NEW q \in Grid(lo, hi)
      PROVE  q \in Vec(n) /\ \A i \in 1..n : lo[i] <= q[i] /\ q[i] <= hi[i]
    <2>1. q \in [1..n -> min_element(lo)..max_element(hi)] /\ \A i \in 1..n : q[i] \in lo[i]..hi[i]
        BY <1>1 DEF Grid
    <2>2. \A i \in 1..n : q[i] \in Int
        BY <1>2, <2>1
    <2>3. q \in Vec(n)
        BY <2>1, <2>2 DEF Vec
    <2>. QED  BY <1>1, <2>1, <2>3
<1>. QED  BY <1>3, <1>4

\* A region, its far corner and the points it holds.
LEMMA RegionIs ==
    ASSUME NEW n \in Nat \ {0}, NEW r \in Regs(n)
    PROVE  /\ r.p \in Vec(n) /\ r.e \in Vec(n) /\ away(r) \in Vec(n) /\ r = Region(r.p, r.e)
           /\ \A i \in 1..n : /\ r.p[i] \in Int /\ r.e[i] \in Int /\ 0 <= r.e[i]
                              /\ away(r)[i] \in Int /\ away(r)[i] = r.p[i] + r.e[i] /\ r.p[i] <= away(r)[i]
           /\ Inside(r) = {q \in Vec(n) : \A i \in 1..n : r.p[i] <= q[i] /\ q[i] <= away(r)[i]}
           /\ Cells(r) = {q \in Vec(n) : \A i \in 1..n : r.p[i] <= q[i] /\ q[i] < away(r)[i]}
<1>1. r.p \in Vec(n) /\ r.e \in Vec(n) /\ r = Region(r.p, r.e) /\ \A i \in 1..n : 0 <= r.e[i]
    BY DEF Regs, Region
<1>2. away(r) \in Vec(n) /\ \A i \in 1..n : away(r)[i] = r.p[i] + r.e[i]
    <2>1. n \in Nat
        OBVIOUS
    <2>. QED  BY ONLY <1>1, <2>1, Additions DEF away
<1>3. \A v \in Vec(n) : DOMAIN v = 1..n /\ \A i \in 1..n : v[i] \in Int
    BY DEF Vec
<1>4. Inside(r) = {q \in Vec(n) : \A i \in 1..n : r.p[i] <= q[i] /\ q[i] <= away(r)[i]}
    BY <1>1, <1>2, GridIs DEF Inside
<1>5. \A q \in Inside(r) : DOMAIN q = 1..n
    BY <1>3, <1>4
<1>6. Cells(r) = {q \in Vec(n) : \A i \in 1..n : r.p[i] <= q[i] /\ q[i] < away(r)[i]}
    <2>1. ASSUME NEW q \in Vec(n), NEW i \in 1..n, q[i] < away(r)[i] PROVE q[i] <= away(r)[i]
        BY <1>2, <1>3, <2>1
    <2>. QED  BY <1>4, <1>5, <2>1 DEF Cells
<1>7. \A i \in 1..n : r.p[i] <= away(r)[i]
    BY <1>1, <1>2, <1>3
<1>. QED  BY <1>1, <1>2, <1>3, <1>4, <1>6, <1>7

-----------------------------------------------------------------------------
(* Regions as sets of points.                                              *)

\* The tests on regions, axis by axis.
LEMMA TestsAre ==
    ASSUME NEW n \in Nat \ {0}, NEW r \in Regs(n), NEW s \in Regs(n)
    PROVE  /\ covers(r, s) <=> \A i \in 1..n : r.p[i] <= s.p[i] /\ away(s)[i] <= away(r)[i]
           /\ overlaps(r, s) <=> \A i \in 1..n : r.p[i] <= away(s)[i] /\ s.p[i] <= away(r)[i]
           /\ intersects(r, s) <=> \A i \in 1..n : r.p[i] < away(s)[i] /\ s.p[i] < away(r)[i]
           /\ \A q \in Vec(n) :
                /\ inclusive(r, q) <=> \A i \in 1..n : r.p[i] <= q[i] /\ q[i] <= away(r)[i]
                /\ exclusive(r, q) <=> \A i \in 1..n : r.p[i] <= q[i] /\ q[i] < away(r)[i]
           /\ extent_empty(r.e) <=> \E i \in 1..n : r.e[i] = 0
<1>0. n \in Nat
    OBVIOUS
<1>1. /\ r.p \in Vec(n) /\ r.e \in Vec(n) /\ away(r) \in Vec(n) /\ s.p \in Vec(n) /\ away(s) \in Vec(n)
      /\ \A i \in 1..n : /\ r.p[i] \in Int /\ r.e[i] \in Int /\ s.p[i] \in Int /\ s.e[i] \in Int
                         /\ away(r)[i] \in Int /\ away(s)[i] \in Int /\ 0 <= r.e[i] /\ 0 <= s.e[i]
                         /\ away(r)[i] = r.p[i] + r.e[i] /\ away(s)[i] = s.p[i] + s.e[i]
    BY RegionIs
<1>2. \A v \in Vec(n) : DOMAIN v = 1..n /\ \A i \in 1..n : v[i] \in Int
    BY DEF Vec
<1>3. \A a, b \in Vec(n) : /\ all(LessEqual(a, b)) <=> \A i \in 1..n : a[i] <= b[i]
                           /\ all(GreaterEqual(a, b)) <=> \A i \in 1..n : b[i] <= a[i]
    BY <1>2 DEF all, LessEqual, GreaterEqual
<1>4. covers(r, s) <=> \A i \in 1..n : r.p[i] <= s.p[i] /\ away(s)[i] <= away(r)[i]
    BY <1>1, <1>3 DEF covers
<1>5. overlaps(r, s) <=> \A i \in 1..n : r.p[i] <= away(s)[i] /\ s.p[i] <= away(r)[i]
    <2>1. /\ max2(r.p, s.p) \in Vec(n) /\ min2(away(r), away(s)) \in Vec(n)
          /\ \A i \in 1..n :
                /\ max2(r.p, s.p)[i] = IF s.p[i] > r.p[i] THEN s.p[i] ELSE r.p[i]
                /\ min2(away(r), away(s))[i] = IF away(s)[i] < away(r)[i] THEN away(s)[i] ELSE away(r)[i]
        BY ONLY <1>0, <1>1, Extrema
    <2>2. overlaps(r, s) <=> \A i \in 1..n : max2(r.p, s.p)[i] <= min2(away(r), away(s))[i]
        BY <1>3, <2>1 DEF overlaps
    <2>3. \A i \in 1..n : (max2(r.p, s.p)[i] <= min2(away(r), away(s))[i])
                              <=> r.p[i] <= away(s)[i] /\ s.p[i] <= away(r)[i]
        BY ONLY <1>1, <2>1
    <2>. QED  BY <2>2, <2>3
<1>6. intersects(r, s) <=> \A i \in 1..n : r.p[i] < away(s)[i] /\ s.p[i] < away(r)[i]
    <2>1. intersects(r, s) <=> \A i \in 1..n : ~(r.p[i] >= away(s)[i] \/ s.p[i] >= away(r)[i])
        <3>1. DOMAIN r.p = 1..n
            BY <1>1, <1>2
        <3>. QED  BY ONLY <1>1, <3>1 DEF intersects
    <2>. QED  BY ONLY <1>1, <2>1
<1>7. ASSUME NEW q \in Vec(n)
      PROVE  /\ inclusive(r, q) <=> \A i \in 1..n : r.p[i] <= q[i] /\ q[i] <= away(r)[i]
             /\ exclusive(r, q) <=> \A i \in 1..n : r.p[i] <= q[i] /\ q[i] < away(r)[i]
    <2>1. DOMAIN q = 1..n /\ \A i \in 1..n : q[i] \in Int
        BY <1>2
    <2>2. inclusive(r, q) <=> \A i \in 1..n : r.p[i] <= q[i] /\ q[i] <= away(r)[i]
        BY <1>1, <1>2, <2>1 DEF inclusive, all, And, LessEqual, GreaterEqual
    <2>3. exclusive(r, q) <=> \A i \in 1..n : r.p[i] <= q[i] /\ q[i] < away(r)[i]
        BY <1>1, <1>2, <2>1 DEF exclusive, all, And, LessEqual, Greater
    <2>. QED  BY <2>2, <2>3
<1>8. extent_empty(r.e) <=> \E i \in 1..n : r.e[i] = 0
    BY <1>0, <1>1, ProductIsZero DEF extent_empty, extent_area
<1>. QED  BY <1>4, <1>5, <1>6, <1>7, <1>8

\* The corner of both regions is in both of them when they overlap.
LEMMA Overlap ==
    ASSUME NEW n \in Nat \ {0}, NEW r \in Regs(n), NEW s \in Regs(n),
           \A i \in 1..n : r.p[i] <= away(s)[i] /\ s.p[i] <= away(r)[i]
    PROVE  /\ intersection(r, s) \in Regs(n)
           /\ Inside(intersection(r, s)) = Inside(s) \intersect Inside(r)
           /\ max2(r.p, s.p) \in Inside(s) \intersect Inside(r)
           /\ \A i \in 1..n : max2(r.p, s.p)[i] = IF s.p[i] > r.p[i] THEN s.p[i] ELSE r.p[i]
<1>0. n \in Nat
    OBVIOUS
<1>. DEFINE lo == max2(r.p, s.p)
            hi == min2(away(r), away(s))
            both == intersection(r, s)
<1>1. /\ r.p \in Vec(n) /\ away(r) \in Vec(n) /\ s.p \in Vec(n) /\ away(s) \in Vec(n)
      /\ \A i \in 1..n : /\ r.p[i] \in Int /\ r.e[i] \in Int /\ s.p[i] \in Int /\ s.e[i] \in Int
                         /\ away(r)[i] \in Int /\ away(s)[i] \in Int /\ 0 <= r.e[i] /\ 0 <= s.e[i]
                         /\ away(r)[i] = r.p[i] + r.e[i] /\ away(s)[i] = s.p[i] + s.e[i]
      /\ Inside(r) = {q \in Vec(n) : \A i \in 1..n : r.p[i] <= q[i] /\ q[i] <= away(r)[i]}
      /\ Inside(s) = {q \in Vec(n) : \A i \in 1..n : s.p[i] <= q[i] /\ q[i] <= away(s)[i]}
    BY RegionIs
<1>2. /\ lo \in Vec(n) /\ hi \in Vec(n)
      /\ \A i \in 1..n : lo[i] = IF s.p[i] > r.p[i] THEN s.p[i] ELSE r.p[i]
      /\ \A i \in 1..n : hi[i] = IF away(s)[i] < away(r)[i] THEN away(s)[i] ELSE away(r)[i]
    BY ONLY <1>0, <1>1, Extrema
<1>3. \A i \in 1..n : lo[i] \in Int /\ hi[i] \in Int /\ lo[i] <= hi[i]
    BY ONLY <1>1, <1>2, \A i \in 1..n : r.p[i] <= away(s)[i] /\ s.p[i] <= away(r)[i]
<1>4. both.p = lo /\ both.e = ExtentOf(PointDifference(hi, lo)) /\ both = [p |-> lo, e |-> both.e]
    BY DEF intersection, Between, Region
<1>. HIDE DEF lo, hi, both
<1>5. both.e \in Vec(n) /\ \A i \in 1..n : both.e[i] = hi[i] - lo[i]
    <2>1. PointDifference(hi, lo) \in Vec(n) /\ \A i \in 1..n : PointDifference(hi, lo)[i] = hi[i] - lo[i]
        BY ONLY <1>0, <1>2, Additions
    <2>2. /\ both.e \in Vec(n)
          /\ \A i \in 1..n : both.e[i] = IF PointDifference(hi, lo)[i] < 0
                                          THEN -PointDifference(hi, lo)[i] ELSE PointDifference(hi, lo)[i]
        BY ONLY <1>0, <1>4, <2>1, Magnitudes
    <2>3. \A i \in 1..n : PointDifference(hi, lo)[i] = hi[i] - lo[i] /\ ~(hi[i] - lo[i] < 0)
        BY <1>3, <2>1
    <2>. QED  BY <2>2, <2>3
<1>6. both \in Regs(n)
    BY <1>2, <1>3, <1>4, <1>5 DEF Regs
<1>7. away(both) \in Vec(n) /\ \A i \in 1..n : away(both)[i] = hi[i]
    <2>1. away(both) \in Vec(n) /\ \A i \in 1..n : away(both)[i] = both.p[i] + both.e[i]
        BY <1>6, RegionIs
    <2>. QED  BY <1>3, <1>4, <1>5, <2>1
<1>8. Inside(both) = {q \in Vec(n) : \A i \in 1..n : lo[i] <= q[i] /\ q[i] <= hi[i]}
    <2>1. Inside(both) = {q \in Vec(n) : \A i \in 1..n : both.p[i] <= q[i] /\ q[i] <= away(both)[i]}
        BY <1>6, RegionIs
    <2>. QED  BY <1>4, <1>7, <2>1
<1>9. ASSUME NEW q \in Vec(n), NEW i \in 1..n
      PROVE  lo[i] <= q[i] /\ q[i] <= hi[i]
                 <=> r.p[i] <= q[i] /\ q[i] <= away(r)[i] /\ s.p[i] <= q[i] /\ q[i] <= away(s)[i]
    <2>1. q[i] \in Int
        BY DEF Vec
    <2>. QED  BY ONLY <1>1, <1>2, <2>1, i \in 1..n
<1>10. Inside(both) = Inside(s) \intersect Inside(r)
    BY ONLY <1>1, <1>8, <1>9
<1>11. lo \in Inside(both)
    BY <1>2, <1>3, <1>8
<1>. QED  BY <1>2, <1>6, <1>10, <1>11 DEF lo, both

\* The tests and combinations of two regions are those of their sets.
LEMMA SetsAgree ==
    ASSUME NEW n \in Nat \ {0}, NEW r \in Regs(n), NEW s \in Regs(n)
    PROVE  /\ covers(r, s) <=> Inside(s) \subseteq Inside(r)
           /\ overlaps(r, s) <=> Inside(s) \intersect Inside(r) # {}
           /\ overlaps(r, s) => Inside(intersection(r, s)) = Inside(s) \intersect Inside(r)
           /\ intersects(r, s) => overlaps(r, s)
           /\ ~extent_empty(r.e) /\ ~extent_empty(s.e) =>
                  (intersects(r, s) <=> Cells(s) \intersect Cells(r) # {})
           /\ \A q \in Inside(s) : /\ inclusive(r, q) <=> q \in Inside(r)
                                   /\ exclusive(r, q) <=> q \in Cells(r)
<1>1. /\ r.p \in Vec(n) /\ away(r) \in Vec(n) /\ s.p \in Vec(n) /\ away(s) \in Vec(n)
      /\ \A i \in 1..n : /\ r.p[i] \in Int /\ r.e[i] \in Int /\ s.p[i] \in Int /\ s.e[i] \in Int
                         /\ away(r)[i] \in Int /\ away(s)[i] \in Int /\ 0 <= r.e[i] /\ 0 <= s.e[i]
                         /\ away(r)[i] = r.p[i] + r.e[i] /\ away(s)[i] = s.p[i] + s.e[i]
      /\ Inside(r) = {q \in Vec(n) : \A i \in 1..n : r.p[i] <= q[i] /\ q[i] <= away(r)[i]}
      /\ Cells(r) = {q \in Vec(n) : \A i \in 1..n : r.p[i] <= q[i] /\ q[i] < away(r)[i]}
      /\ Inside(s) = {q \in Vec(n) : \A i \in 1..n : s.p[i] <= q[i] /\ q[i] <= away(s)[i]}
      /\ Cells(s) = {q \in Vec(n) : \A i \in 1..n : s.p[i] <= q[i] /\ q[i] < away(s)[i]}
    BY RegionIs
<1>2. \A q \in Vec(n) : \A i \in 1..n : q[i] \in Int
    BY DEF Vec
<1>3. /\ covers(r, s) <=> \A i \in 1..n : r.p[i] <= s.p[i] /\ away(s)[i] <= away(r)[i]
      /\ overlaps(r, s) <=> \A i \in 1..n : r.p[i] <= away(s)[i] /\ s.p[i] <= away(r)[i]
      /\ intersects(r, s) <=> \A i \in 1..n : r.p[i] < away(s)[i] /\ s.p[i] < away(r)[i]
      /\ \A q \in Vec(n) :
           /\ inclusive(r, q) <=> \A i \in 1..n : r.p[i] <= q[i] /\ q[i] <= away(r)[i]
           /\ exclusive(r, q) <=> \A i \in 1..n : r.p[i] <= q[i] /\ q[i] < away(r)[i]
      /\ extent_empty(r.e) <=> \E i \in 1..n : r.e[i] = 0
      /\ extent_empty(s.e) <=> \E i \in 1..n : s.e[i] = 0
    BY TestsAre
<1>4. covers(r, s) <=> Inside(s) \subseteq Inside(r)
    <2>1. ASSUME covers(r, s), NEW q \in Inside(s) PROVE q \in Inside(r)
        <3>1. ASSUME NEW i \in 1..n PROVE r.p[i] <= q[i] /\ q[i] <= away(r)[i]
            <4>1. r.p[i] <= s.p[i] /\ s.p[i] <= q[i] /\ q[i] <= away(s)[i] /\ away(s)[i] <= away(r)[i] /\ q[i] \in Int
                BY <1>1, <1>2, <1>3, <2>1
            <4>. QED  BY <1>1, <4>1
        <3>. QED  BY <1>1, <3>1
    <2>2. ASSUME Inside(s) \subseteq Inside(r) PROVE covers(r, s)
        <3>1. s.p \in Inside(s) /\ away(s) \in Inside(s)
            BY ONLY <1>1
        <3>2. s.p \in Inside(r) /\ away(s) \in Inside(r)
            BY <2>2, <3>1
        <3>. QED  BY ONLY <1>1, <1>3, <3>2
    <2>. QED  BY <2>1, <2>2
<1>5. ASSUME overlaps(r, s)
      PROVE  /\ Inside(intersection(r, s)) = Inside(s) \intersect Inside(r)
             /\ max2(r.p, s.p) \in Inside(s) \intersect Inside(r)
             /\ \A i \in 1..n : max2(r.p, s.p)[i] = IF s.p[i] > r.p[i] THEN s.p[i] ELSE r.p[i]
    BY <1>3, <1>5, Overlap
<1>6. ASSUME NEW q \in Inside(s) \intersect Inside(r) PROVE overlaps(r, s)
    <2>1. ASSUME NEW i \in 1..n PROVE r.p[i] <= away(s)[i] /\ s.p[i] <= away(r)[i]
        <3>1. r.p[i] <= q[i] /\ q[i] <= away(r)[i] /\ s.p[i] <= q[i] /\ q[i] <= away(s)[i] /\ q[i] \in Int
            BY <1>1, <1>2
        <3>. QED  BY <1>1, <3>1
    <2>. QED  BY <1>3, <2>1
<1>7. ASSUME intersects(r, s) PROVE overlaps(r, s)
    BY ONLY <1>1, <1>3, <1>7
<1>8. ASSUME ~extent_empty(r.e), ~extent_empty(s.e)
      PROVE  intersects(r, s) <=> Cells(s) \intersect Cells(r) # {}
    <2>0. \A i \in 1..n : r.p[i] < away(r)[i] /\ s.p[i] < away(s)[i]
        BY ONLY <1>1, <1>3, <1>8
    <2>1. ASSUME intersects(r, s) PROVE Cells(s) \intersect Cells(r) # {}
        <3>1. /\ max2(r.p, s.p) \in Vec(n)
              /\ \A i \in 1..n : max2(r.p, s.p)[i] = IF s.p[i] > r.p[i] THEN s.p[i] ELSE r.p[i]
            BY <1>1, <1>5, <1>7, <2>1
        <3>2. \A i \in 1..n : /\ r.p[i] <= max2(r.p, s.p)[i] /\ max2(r.p, s.p)[i] < away(r)[i]
                              /\ s.p[i] <= max2(r.p, s.p)[i] /\ max2(r.p, s.p)[i] < away(s)[i]
            BY ONLY <1>1, <1>3, <2>0, <2>1, <3>1
        <3>3. max2(r.p, s.p) \in Cells(s) \intersect Cells(r)
            BY ONLY <1>1, <3>1, <3>2
        <3>. QED  BY <3>3
    <2>2. ASSUME NEW q \in Cells(s) \intersect Cells(r) PROVE intersects(r, s)
        <3>1. ASSUME NEW i \in 1..n PROVE r.p[i] < away(s)[i] /\ s.p[i] < away(r)[i]
            <4>1. r.p[i] <= q[i] /\ q[i] < away(r)[i] /\ s.p[i] <= q[i] /\ q[i] < away(s)[i] /\ q[i] \in Int
                BY <1>1, <1>2
            <4>. QED  BY <1>1, <4>1
        <3>. QED  BY <1>3, <3>1
    <2>. QED  BY <2>1, <2>2
<1>9. ASSUME NEW q \in Inside(s)
      PROVE  /\ inclusive(r, q) <=> q \in Inside(r)
             /\ exclusive(r, q) <=> q \in Cells(r)
    BY ONLY <1>1, <1>3, <1>9
<1>. QED  BY <1>4, <1>5, <1>6, <1>7, <1>8, <1>9

-----------------------------------------------------------------------------
(* The nearest point.                                                      *)

\* Along each axis, how far apart two points are.
Gap(a, b) == abs(PointDifference(a, b))

LEMMA Distances ==
    ASSUME NEW n \in Nat, NEW a \in Vec(n), NEW b \in Vec(n)
    PROVE  /\ Gap(a, b) \in Vec(n)
           /\ \A i \in 1..n : /\ 0 <= Gap(a, b)[i]
                              /\ Gap(a, b)[i] = IF a[i] < b[i] THEN b[i] - a[i] ELSE a[i] - b[i]
           /\ pow2(PointDifference(a, b)) \in Vec(n)
           /\ \A i \in 1..n : pow2(PointDifference(a, b))[i] = Gap(a, b)[i] * Gap(a, b)[i]
           /\ manhattan(a, b) = sum(Gap(a, b)) /\ chebyshev(a, b) = max_element(Gap(a, b))
           /\ distance2(a, b) = sum(pow2(PointDifference(a, b)))
<1>. DEFINE d == PointDifference(a, b)
<1>1. d \in Vec(n) /\ \A i \in 1..n : d[i] = a[i] - b[i] /\ a[i] \in Int /\ b[i] \in Int
    BY Additions, Elements
<1>. HIDE DEF d
<1>2. /\ abs(d) \in Vec(n) /\ \A i \in 1..n : abs(d)[i] = IF d[i] < 0 THEN -d[i] ELSE d[i]
      /\ pow2(d) \in Vec(n) /\ \A i \in 1..n : pow2(d)[i] = d[i] * d[i]
    BY ONLY <1>1, n \in Nat, Magnitudes
<1>3. ASSUME NEW i \in 1..n
      PROVE  /\ 0 <= abs(d)[i] /\ abs(d)[i] = IF a[i] < b[i] THEN b[i] - a[i] ELSE a[i] - b[i]
             /\ pow2(d)[i] = abs(d)[i] * abs(d)[i]
    <2>1. /\ d[i] = a[i] - b[i] /\ a[i] \in Int /\ b[i] \in Int
          /\ abs(d)[i] = IF d[i] < 0 THEN -d[i] ELSE d[i]
          /\ pow2(d)[i] = d[i] * d[i]
        BY <1>1, <1>2
    <2>2. \A x \in Int : x * x = (-x) * (-x)
        OBVIOUS
    <2>. QED  BY <2>1, <2>2
<1>. QED  BY <1>2, <1>3 DEF d, Gap, manhattan, chebyshev, distance2

\* What is nearer along every axis is nearer by every measure.
LEMMA NearerEverywhere ==
    ASSUME NEW n \in Nat \ {0}, NEW a \in Vec(n), NEW b \in Vec(n), NEW c \in Vec(n),
           \A i \in 1..n : Gap(a, b)[i] <= Gap(a, c)[i]
    PROVE  /\ manhattan(a, b) <= manhattan(a, c)
           /\ chebyshev(a, b) <= chebyshev(a, c)
           /\ distance2(a, b) <= distance2(a, c)
<1>0. n \in Nat
    OBVIOUS
<1>. DEFINE x == Gap(a, b)
            y == Gap(a, c)
            xx == pow2(PointDifference(a, b))
            yy == pow2(PointDifference(a, c))
<1>1. /\ x \in Vec(n) /\ y \in Vec(n) /\ xx \in Vec(n) /\ yy \in Vec(n)
      /\ \A i \in 1..n : /\ 0 <= x[i] /\ 0 <= y[i] /\ xx[i] = x[i] * x[i] /\ yy[i] = y[i] * y[i]
                         /\ x[i] <= y[i]
      /\ manhattan(a, b) = sum(x) /\ chebyshev(a, b) = max_element(x) /\ distance2(a, b) = sum(xx)
      /\ manhattan(a, c) = sum(y) /\ chebyshev(a, c) = max_element(y) /\ distance2(a, c) = sum(yy)
    BY <1>0, Distances
<1>. HIDE DEF x, y, xx, yy
<1>2. \A i \in 1..n : x[i] \in Int /\ y[i] \in Int /\ xx[i] \in Int /\ yy[i] \in Int
    BY <1>0, <1>1, Elements
<1>3. sum(x) <= sum(y)
    BY ONLY <1>0, <1>1, SumsCompare
<1>4. sum(xx) <= sum(yy)
    <2>1. \A u, v \in Int : 0 <= u /\ u <= v => u * u <= v * v
        OBVIOUS
    <2>2. \A i \in 1..n : xx[i] <= yy[i]
        BY <1>1, <1>2, <2>1
    <2>. QED  BY ONLY <1>0, <1>1, <2>2, SumsCompare
<1>5. max_element(x) <= max_element(y)
    <2>1. PICK j \in 1..n : max_element(x) = x[j]
        BY <1>1, Extremes
    <2>2. y[j] <= max_element(y) /\ max_element(y) \in Int
        BY <1>1, <1>2, Extremes
    <2>. QED  BY <1>1, <1>2, <2>1, <2>2
<1>. QED  BY <1>1, <1>3, <1>4, <1>5

\* The measures of one distance are in order.
LEMMA MeasuresInOrder ==
    ASSUME NEW n \in Nat \ {0}, NEW a \in Vec(n), NEW b \in Vec(n)
    PROVE  /\ chebyshev(a, b) <= manhattan(a, b)
           /\ chebyshev(a, b) * chebyshev(a, b) <= distance2(a, b)
           /\ distance2(a, b) <= manhattan(a, b) * manhattan(a, b)
<1>0. n \in Nat
    OBVIOUS
<1>. DEFINE x == Gap(a, b)
            xx == pow2(PointDifference(a, b))
<1>1. /\ x \in Vec(n) /\ xx \in Vec(n)
      /\ \A i \in 1..n : 0 <= x[i] /\ xx[i] = x[i] * x[i]
      /\ manhattan(a, b) = sum(x) /\ chebyshev(a, b) = max_element(x) /\ distance2(a, b) = sum(xx)
    BY <1>0, Distances
<1>. HIDE DEF x, xx
<1>2. \A i \in 1..n : x[i] \in Int /\ 0 <= xx[i]
    <2>1. \A i \in 1..n : x[i] \in Int
        BY <1>0, <1>1, Elements
    <2>2. \A u \in Int : 0 <= u => 0 <= u * u
        OBVIOUS
    <2>. QED  BY <1>1, <2>1, <2>2
<1>3. PICK j \in 1..n : max_element(x) = x[j]
    BY <1>1, Extremes
<1>4. x[j] <= sum(x) /\ sum(xx) <= sum(x) * sum(x)
    BY ONLY <1>0, <1>1, SumsCompare, j \in 1..n
<1>5. xx[j] <= sum(xx)
    BY ONLY <1>0, <1>1, <1>2, SumsCompare, j \in 1..n
<1>. QED  BY <1>1, <1>3, <1>4, <1>5

\* What a point is constrained to, axis by axis.
LEMMA Constrained ==
    ASSUME NEW n \in Nat \ {0}, NEW r \in Regs(n), NEW q \in Vec(n)
    PROVE  /\ constrain(r, q) \in Inside(r) /\ constrain(r, q) \in Vec(n)
           /\ \A i \in 1..n : constrain(r, q)[i] = IF q[i] < r.p[i] THEN r.p[i]
                                                   ELSE IF q[i] > away(r)[i] THEN away(r)[i] ELSE q[i]
<1>0. n \in Nat
    OBVIOUS
<1>. DEFINE low == min2(q, away(r))
            near == constrain(r, q)
<1>1. /\ r.p \in Vec(n) /\ away(r) \in Vec(n) /\ q \in Vec(n)
      /\ \A i \in 1..n : /\ r.p[i] \in Int /\ away(r)[i] \in Int /\ q[i] \in Int /\ r.p[i] <= away(r)[i]
      /\ Inside(r) = {p \in Vec(n) : \A i \in 1..n : r.p[i] <= p[i] /\ p[i] <= away(r)[i]}
    <2>1. \A i \in 1..n : q[i] \in Int
        BY <1>0, Elements
    <2>. QED  BY <2>1, RegionIs
<1>2. low \in Vec(n) /\ \A i \in 1..n : low[i] = IF away(r)[i] < q[i] THEN away(r)[i] ELSE q[i]
    BY ONLY <1>0, <1>1, Extrema
<1>. HIDE DEF low
<1>3. near = max2(low, r.p)
    BY DEF constrain, limit, low
<1>. HIDE DEF near
<1>4. near \in Vec(n) /\ \A i \in 1..n : near[i] = IF r.p[i] > low[i] THEN r.p[i] ELSE low[i]
    BY ONLY <1>0, <1>1, <1>2, <1>3, Extrema
<1>5. \A i \in 1..n : /\ near[i] = IF q[i] < r.p[i] THEN r.p[i]
                                    ELSE IF q[i] > away(r)[i] THEN away(r)[i] ELSE q[i]
                      /\ r.p[i] <= near[i] /\ near[i] <= away(r)[i]
    BY ONLY <1>1, <1>2, <1>4
<1>. QED  BY <1>1, <1>4, <1>5 DEF near

\* Of the values between two bounds, none is nearer a value than its clamp.
LEMMA ClampIsNearest ==
    ASSUME NEW lo \in Int, NEW hi \in Int, NEW x \in Int, NEW y \in Int, lo <= y, y <= hi,
           NEW c, c = IF x < lo THEN lo ELSE IF x > hi THEN hi ELSE x
    PROVE  (IF x < c THEN c - x ELSE x - c) <= (IF x < y THEN y - x ELSE x - y)
<1>1. CASE x < lo
    BY <1>1
<1>2. CASE ~(x < lo) /\ x > hi
    BY <1>2
<1>3. CASE ~(x < lo) /\ ~(x > hi)
    BY <1>3
<1>. QED  BY <1>1, <1>2, <1>3

\* The nearest point of a region.
LEMMA NearestIs ==
    ASSUME NEW n \in Nat \ {0}, NEW r \in Regs(n), NEW q \in Vec(n)
    PROVE  LET near == constrain(r, q)
               span == Span(r.p[1], away(r)[1])
           IN /\ near \in Inside(r) /\ near = aabb_closest([p0 |-> r.p, p1 |-> away(r)], q)
              /\ \A other \in Inside(r) :
                     /\ manhattan(q, near) <= manhattan(q, other)
                     /\ chebyshev(q, near) <= chebyshev(q, other)
                     /\ distance2(q, near) <= distance2(q, other)
              /\ near[1] = range_clamp(span, q[1])
              /\ range_contains(span, q[1]) <=> near[1] = q[1]
              /\ closest(r, q) = near <=> \A i \in DOMAIN q : q[i] <= r.p[i] \/ q[i] >= away(r)[i]
<1>0. n \in Nat /\ 1 \in 1..n
    OBVIOUS
<1>. DEFINE near == constrain(r, q)
<1>1. /\ r.p \in Vec(n) /\ away(r) \in Vec(n) /\ DOMAIN q = 1..n
      /\ \A i \in 1..n : /\ r.p[i] \in Int /\ away(r)[i] \in Int /\ q[i] \in Int /\ r.p[i] <= away(r)[i]
                         /\ r.e[i] \in Int /\ away(r)[i] = r.p[i] + r.e[i]
      /\ Inside(r) = {p \in Vec(n) : \A i \in 1..n : r.p[i] <= p[i] /\ p[i] <= away(r)[i]}
    <2>1. DOMAIN q = 1..n /\ \A i \in 1..n : q[i] \in Int
        BY <1>0, Elements
    <2>. QED  BY <2>1, RegionIs
<1>2. near \in Inside(r) /\ near \in Vec(n)
    BY Constrained
<1>3. \A i \in 1..n : near[i] = IF q[i] < r.p[i] THEN r.p[i]
                                ELSE IF q[i] > away(r)[i] THEN away(r)[i] ELSE q[i]
    BY Constrained
<1>4. near = aabb_closest([p0 |-> r.p, p1 |-> away(r)], q)
    BY DEF constrain, aabb_closest
<1>. HIDE DEF near
<1>5. ASSUME NEW other \in Inside(r)
      PROVE  /\ manhattan(q, near) <= manhattan(q, other)
             /\ chebyshev(q, near) <= chebyshev(q, other)
             /\ distance2(q, near) <= distance2(q, other)
    <2>1. other \in Vec(n) /\ \A i \in 1..n : other[i] \in Int /\ r.p[i] <= other[i] /\ other[i] <= away(r)[i]
        BY <1>0, <1>1, Elements
    <2>2. \A i \in 1..n : /\ Gap(q, near)[i] = IF q[i] < near[i] THEN near[i] - q[i] ELSE q[i] - near[i]
                          /\ Gap(q, other)[i] = IF q[i] < other[i] THEN other[i] - q[i] ELSE q[i] - other[i]
        BY ONLY <1>0, <1>2, <2>1, q \in Vec(n), Distances
    <2>3. ASSUME NEW i \in 1..n
          PROVE  Gap(q, near)[i] <= Gap(q, other)[i]
        <3>1. /\ r.p[i] \in Int /\ away(r)[i] \in Int /\ q[i] \in Int
              /\ other[i] \in Int /\ r.p[i] <= other[i] /\ other[i] <= away(r)[i]
            BY ONLY <1>1, <2>1, i \in 1..n
        <3>2. near[i] = IF q[i] < r.p[i] THEN r.p[i]
                        ELSE IF q[i] > away(r)[i] THEN away(r)[i] ELSE q[i]
            BY ONLY <1>3, i \in 1..n
        <3>3. /\ Gap(q, near)[i] = IF q[i] < near[i] THEN near[i] - q[i] ELSE q[i] - near[i]
              /\ Gap(q, other)[i] = IF q[i] < other[i] THEN other[i] - q[i] ELSE q[i] - other[i]
            BY ONLY <2>2, i \in 1..n
        <3>4. (IF q[i] < near[i] THEN near[i] - q[i] ELSE q[i] - near[i])
                  <= (IF q[i] < other[i] THEN other[i] - q[i] ELSE q[i] - other[i])
            BY ONLY <3>1, <3>2, ClampIsNearest
        <3>. QED  BY ONLY <3>3, <3>4
    <2>. QED  BY ONLY <1>0, <1>2, <2>1, <2>3, n \in Nat \ {0}, q \in Vec(n), NearerEverywhere
<1>6. /\ near[1] = range_clamp(Span(r.p[1], away(r)[1]), q[1])
      /\ range_contains(Span(r.p[1], away(r)[1]), q[1]) <=> near[1] = q[1]
    <2>1. /\ r.p[1] \in Int /\ away(r)[1] \in Int /\ q[1] \in Int /\ r.p[1] <= away(r)[1]
        BY ONLY <1>0, <1>1
    <2>2. near[1] = IF q[1] < r.p[1] THEN r.p[1]
                    ELSE IF q[1] > away(r)[1] THEN away(r)[1] ELSE q[1]
        BY ONLY <1>0, <1>3
    <2>. QED  BY ONLY <2>1, <2>2 DEF range_clamp, range_contains, Span
<1>7. closest(r, q) = near <=> \A i \in 1..n : q[i] <= r.p[i] \/ q[i] >= away(r)[i]
    <2>1. /\ closest(r, q) = [i \in 1..n |-> IF q[i] < r.p[i] THEN r.p[i]
                                             ELSE IF q[i] > r.p[i] THEN r.p[i] + r.e[i] ELSE q[i]]
        BY <1>1 DEF closest
    <2>2. closest(r, q) = near <=> \A i \in 1..n : closest(r, q)[i] = near[i]
        BY <1>2, <2>1 DEF Vec
    <2>3. ASSUME NEW i \in 1..n
          PROVE  closest(r, q)[i] = near[i] <=> q[i] <= r.p[i] \/ q[i] >= away(r)[i]
        <3>1. /\ r.p[i] \in Int /\ away(r)[i] \in Int /\ q[i] \in Int /\ r.p[i] <= away(r)[i]
              /\ away(r)[i] = r.p[i] + r.e[i]
            BY ONLY <1>1, i \in 1..n
        <3>2. near[i] = IF q[i] < r.p[i] THEN r.p[i]
                        ELSE IF q[i] > away(r)[i] THEN away(r)[i] ELSE q[i]
            BY ONLY <1>3, i \in 1..n
        <3>3. closest(r, q)[i] = IF q[i] < r.p[i] THEN r.p[i]
                                 ELSE IF q[i] > r.p[i] THEN away(r)[i] ELSE q[i]
            BY ONLY <2>1, <3>1, i \in 1..n
        <3>. QED  BY ONLY <3>1, <3>2, <3>3
    <2>. QED  BY <2>2, <2>3
<1>. QED  BY <1>1, <1>2, <1>4, <1>5, <1>6, <1>7 DEF near

-----------------------------------------------------------------------------
(* Margins, and the operators of a coordinate.                             *)

\* Margins, for a region and a vector.
LEMMA MarginsKept ==
    ASSUME NEW n \in Nat \ {0}, NEW r \in Regs(n), NEW v \in Vec(n)
    PROVE  LET wide == abs(v)
           IN /\ has_room(expand(r, wide), wide) /\ inset(expand(r, wide), wide) = r
              /\ has_room(r, wide) => covers(r, inset(r, wide))
              /\ covers(expand(r, wide), r)
<1>0. n \in Nat /\ 2 \in Int
    OBVIOUS
<1>. DEFINE w == abs(v)
            ww == ScalarTimes(2, w)
            big == expand(r, w)
            small == inset(r, w)
<1>1. /\ r.p \in Vec(n) /\ r.e \in Vec(n) /\ r = Region(r.p, r.e)
      /\ \A i \in 1..n : r.p[i] \in Int /\ r.e[i] \in Int /\ 0 <= r.e[i] /\ away(r)[i] = r.p[i] + r.e[i]
    BY RegionIs
<1>2. w \in Vec(n) /\ \A i \in 1..n : w[i] \in Int /\ 0 <= w[i]
    <2>1. \A i \in 1..n : v[i] \in Int
        BY <1>0, Elements
    <2>2. w \in Vec(n) /\ \A i \in 1..n : w[i] = IF v[i] < 0 THEN -v[i] ELSE v[i]
        BY <1>0, Magnitudes
    <2>. QED  BY ONLY <2>1, <2>2
<1>. HIDE DEF w
<1>3. ww \in Vec(n) /\ \A i \in 1..n : ww[i] = 2 * w[i] /\ ww[i] \in Int
    <2>1. ww \in Vec(n) /\ \A i \in 1..n : ww[i] = 2 * w[i]
        BY ONLY <1>0, <1>2, Scalings
    <2>. QED  BY <1>2, <2>1
<1>. HIDE DEF ww
<1>4. /\ Plus(r.p, w) \in Vec(n) /\ \A i \in 1..n : Plus(r.p, w)[i] = r.p[i] + w[i]
      /\ Minus(r.p, w) \in Vec(n) /\ \A i \in 1..n : Minus(r.p, w)[i] = r.p[i] - w[i]
    BY ONLY <1>0, <1>1, <1>2, Additions
<1>5. /\ Plus(r.e, ww) \in Vec(n) /\ \A i \in 1..n : Plus(r.e, ww)[i] = r.e[i] + ww[i]
      /\ Minus(r.e, ww) \in Vec(n) /\ \A i \in 1..n : Minus(r.e, ww)[i] = r.e[i] - ww[i]
    BY ONLY <1>0, <1>1, <1>3, Additions
<1>6. big = Region(Minus(r.p, w), Plus(r.e, ww)) /\ small = Region(Plus(r.p, w), Minus(r.e, ww))
    BY DEF expand, inset, ww
<1>7. big \in Regs(n) /\ big.p = Minus(r.p, w) /\ big.e = Plus(r.e, ww)
    <2>1. \A i \in 1..n : 0 <= Plus(r.e, ww)[i]
        BY <1>1, <1>2, <1>3, <1>5
    <2>. QED  BY <1>4, <1>5, <1>6, <2>1 DEF Regs, Region
<1>. HIDE DEF big
<1>8. \A x, y \in Vec(n) : all(GreaterEqual(x, y)) <=> \A i \in 1..n : y[i] <= x[i]
    BY DEF all, GreaterEqual, Vec
<1>9. has_room(big, w)
    <2>1. \A i \in 1..n : ww[i] <= Plus(r.e, ww)[i]
        BY <1>1, <1>3, <1>5
    <2>. QED  BY <1>3, <1>5, <1>7, <1>8, <2>1 DEF has_room, ww
<1>10. inset(big, w) = r
    <2>1. Plus(big.p, w) = r.p
        <3>1. Plus(big.p, w) \in Vec(n) /\ \A i \in 1..n : Plus(big.p, w)[i] = big.p[i] + w[i]
            BY ONLY <1>0, <1>2, <1>4, <1>7, Additions
        <3>2. ASSUME NEW i \in 1..n PROVE Plus(big.p, w)[i] = r.p[i]
            <4>1. Plus(big.p, w)[i] = big.p[i] + w[i] /\ big.p[i] = r.p[i] - w[i] /\ r.p[i] \in Int /\ w[i] \in Int
                BY ONLY <1>1, <1>2, <1>4, <1>7, <3>1, i \in 1..n
            <4>. QED  BY ONLY <4>1
        <3>3. Plus(big.p, w) \in Vec(n) /\ r.p \in Vec(n)
            BY <1>1, <3>1
        <3>. QED  BY ONLY <3>2, <3>3 DEF Vec
    <2>2. Minus(big.e, ww) = r.e
        <3>1. Minus(big.e, ww) \in Vec(n) /\ \A i \in 1..n : Minus(big.e, ww)[i] = big.e[i] - ww[i]
            BY ONLY <1>0, <1>3, <1>5, <1>7, Additions
        <3>2. ASSUME NEW i \in 1..n PROVE Minus(big.e, ww)[i] = r.e[i]
            <4>1. Minus(big.e, ww)[i] = big.e[i] - ww[i] /\ big.e[i] = r.e[i] + ww[i] /\ r.e[i] \in Int /\ ww[i] \in Int
                BY ONLY <1>1, <1>3, <1>5, <1>7, <3>1, i \in 1..n
            <4>. QED  BY ONLY <4>1
        <3>3. Minus(big.e, ww) \in Vec(n) /\ r.e \in Vec(n)
            BY <1>1, <3>1
        <3>. QED  BY ONLY <3>2, <3>3 DEF Vec
    <2>. QED  BY <1>1, <2>1, <2>2 DEF inset, ww
<1>11. ASSUME has_room(r, w) PROVE covers(r, small)
    <2>1. \A i \in 1..n : ww[i] <= r.e[i]
        BY <1>1, <1>3, <1>8, <1>11 DEF has_room, ww
    <2>2. small \in Regs(n) /\ small.p = Plus(r.p, w) /\ small.e = Minus(r.e, ww)
        <3>1. \A i \in 1..n : 0 <= Minus(r.e, ww)[i]
            BY <1>1, <1>3, <1>5, <2>1
        <3>. QED  BY <1>4, <1>5, <1>6, <3>1 DEF Regs, Region
    <2>. HIDE DEF small
    <2>3. \A i \in 1..n : away(small)[i] = small.p[i] + small.e[i]
        BY <2>2, RegionIs
    <2>4. \A i \in 1..n : r.p[i] <= small.p[i] /\ away(small)[i] <= away(r)[i]
        BY <1>1, <1>2, <1>3, <1>4, <1>5, <2>2, <2>3
    <2>. QED  BY <2>2, <2>4, TestsAre
<1>12. covers(big, r)
    <2>1. \A i \in 1..n : away(big)[i] = big.p[i] + big.e[i]
        BY <1>7, RegionIs
    <2>2. \A i \in 1..n : big.p[i] <= r.p[i] /\ away(r)[i] <= away(big)[i]
        BY <1>1, <1>2, <1>3, <1>4, <1>5, <1>7, <2>1
    <2>. QED  BY <1>7, <2>2, TestsAre
<1>. QED  BY <1>9, <1>10, <1>11, <1>12 DEF big, w

\* The identities of Vectors, for two coordinates.
LEMMA Comparisons ==
    ASSUME NEW n \in Nat, NEW a \in Vec(n), NEW b \in Vec(n)
    PROVE  /\ Unequal(a, b) <=> ~Equal(a, b)
           /\ Equal(a, b) <=> almost_zero(PointDifference(a, b))
           /\ Equal(a, b) <=> a = b
           /\ any(Not(Less(a, b))) <=> ~all(Less(a, b))
<1>1. DOMAIN a = 1..n /\ DOMAIN b = 1..n /\ \A i \in 1..n : a[i] \in Int /\ b[i] \in Int
    BY DEF Vec
<1>2. \A x, y \in Int : Functor("equal_to", x, y) = (x = y) /\ Functor("not_equal_to", x, y) = (x # y)
    BY DEF Functor
<1>3. Equal(a, b) <=> \A i \in 1..n : a[i] = b[i]
    BY <1>1, <1>2 DEF Equal, compare, all
<1>4. Unequal(a, b) <=> \E i \in 1..n : a[i] # b[i]
    <2>1. compare(a, b, "not_equal_to") = [i \in 1..n |-> Functor("not_equal_to", a[i], b[i])]
        BY <1>1 DEF compare
    <2>2. \A i \in 1..n : Functor("not_equal_to", a[i], b[i]) <=> a[i] # b[i]
        BY <1>1, <1>2
    <2>. QED  BY ONLY <2>1, <2>2 DEF Unequal, any
<1>5. almost_zero(PointDifference(a, b)) <=> \A i \in 1..n : a[i] = b[i]
    <2>1. almost_zero(PointDifference(a, b)) <=> \A i \in 1..n : a[i] - b[i] = 0
        BY <1>1 DEF PointDifference, almost_zero, all, EqualScalar
    <2>. QED  BY <1>1, <2>1
<1>6. a = b <=> \A i \in 1..n : a[i] = b[i]
    BY DEF Vec
<1>7. any(Not(Less(a, b))) <=> ~all(Less(a, b))
    BY <1>1 DEF any, all, Not, Less
<1>. QED  BY <1>3, <1>4, <1>5, <1>6, <1>7

LEMMA SameElements ==
    ASSUME NEW n \in Nat, NEW a \in Vec(n), NEW b \in Vec(n), \A i \in 1..n : a[i] = b[i]
    PROVE  a = b
BY DEF Vec

LEMMA SequencesAre ==
    ASSUME NEW s \in Seq(Int)
    PROVE  s \in Vec(Len(s))
BY LenProperties DEF Vec

LEMMA Halves ==
    ASSUME NEW n \in Nat, NEW a \in Vec(n), NEW b \in Vec(n)
    PROVE  /\ Plus(min2(a, b), max2(a, b)) = Plus(a, b)
           /\ select(Less(a, b), a, b) = min2(a, b)
           /\ norm2(Minus(a, b)) = distance2(a, b)
           /\ Negate(to(a, b)) = from(a, b)
<1>1. DOMAIN a = 1..n /\ DOMAIN b = 1..n /\ \A i \in 1..n : a[i] \in Int /\ b[i] \in Int
    BY DEF Vec
<1>2. /\ min2(a, b) \in Vec(n) /\ max2(a, b) \in Vec(n)
      /\ \A i \in 1..n : /\ min2(a, b)[i] = IF b[i] < a[i] THEN b[i] ELSE a[i]
                         /\ max2(a, b)[i] = IF b[i] > a[i] THEN b[i] ELSE a[i]
    BY Extrema
<1>3. Plus(min2(a, b), max2(a, b)) = Plus(a, b)
    <2>1. /\ Plus(min2(a, b), max2(a, b)) \in Vec(n)
          /\ \A i \in 1..n : Plus(min2(a, b), max2(a, b))[i] = min2(a, b)[i] + max2(a, b)[i]
        BY <1>2, Additions
    <2>2. Plus(a, b) \in Vec(n) /\ \A i \in 1..n : Plus(a, b)[i] = a[i] + b[i]
        BY Additions
    <2>3. \A i \in 1..n : Plus(min2(a, b), max2(a, b))[i] = Plus(a, b)[i]
        BY ONLY <1>1, <1>2, <2>1, <2>2
    <2>. QED  BY ONLY <2>1, <2>2, <2>3, SameElements
<1>4. select(Less(a, b), a, b) = min2(a, b)
    <2>1. /\ select(Less(a, b), a, b) \in Vec(n)
          /\ \A i \in 1..n : select(Less(a, b), a, b)[i] = IF a[i] < b[i] THEN a[i] ELSE b[i]
        BY <1>1 DEF select, Less, Vec
    <2>2. \A i \in 1..n : select(Less(a, b), a, b)[i] = min2(a, b)[i]
        BY ONLY <1>1, <1>2, <2>1
    <2>. QED  BY ONLY <1>2, <2>1, <2>2, SameElements
<1>5. norm2(Minus(a, b)) = distance2(a, b)
    <2>1. Minus(a, b) \in Vec(n) /\ PointDifference(a, b) = Minus(a, b)
        BY Additions
    <2>. QED  BY <2>1 DEF norm2, dot, distance2, pow2
<1>6. Negate(to(a, b)) = from(a, b)
    <2>1. /\ Minus(a, b) \in Vec(n) /\ \A i \in 1..n : Minus(a, b)[i] = a[i] - b[i]
          /\ Minus(b, a) \in Vec(n) /\ \A i \in 1..n : Minus(b, a)[i] = b[i] - a[i]
        BY Additions
    <2>2. Negate(Minus(b, a)) \in Vec(n) /\ \A i \in 1..n : Negate(Minus(b, a))[i] = -(b[i] - a[i])
        BY <1>1, <2>1 DEF Negate, Vec
    <2>3. \A i \in 1..n : Negate(Minus(b, a))[i] = Minus(a, b)[i]
        BY ONLY <1>1, <2>1, <2>2
    <2>4. Negate(Minus(b, a)) = Minus(a, b)
        BY ONLY <2>1, <2>2, <2>3, SameElements
    <2>. QED  BY <2>4 DEF to, from
<1>. QED  BY <1>3, <1>4, <1>5, <1>6

LEMMA DivisionFits ==
    ASSUME NEW n \in Nat, NEW a \in Vec(n)
    PROVE  Plus(ScalarTimes(3, DividesScalar(a, 3)), mod(a, 3)) = a
<1>1. DOMAIN a = 1..n /\ 3 \in Int /\ \A i \in 1..n : a[i] \in Int
    BY DEF Vec
<1>. DEFINE d == DividesScalar(a, 3)
<1>2. \A i \in 1..n : Quotient(a[i], 3) \in Int
    BY <1>1 DEF Quotient, Magnitude
<1>3. d \in Vec(n) /\ \A i \in 1..n : d[i] = Quotient(a[i], 3)
    <2>1. \A x : Functor("divides", x, 3) = Quotient(x, 3)
        BY DEF Functor
    <2>. QED  BY <1>1, <1>2, <2>1 DEF DividesScalar, eval_right, Vec
<1>4. mod(a, 3) \in Vec(n) /\ \A i \in 1..n : mod(a, 3)[i] = a[i] - 3 * Quotient(a[i], 3)
    BY <1>1, <1>2 DEF mod, Remainder, Vec
<1>. HIDE DEF d
<1>5. ScalarTimes(3, d) \in Vec(n) /\ \A i \in 1..n : ScalarTimes(3, d)[i] = 3 * d[i]
    BY ONLY <1>1, <1>3, n \in Nat, Scalings
<1>6. /\ Plus(ScalarTimes(3, d), mod(a, 3)) \in Vec(n)
      /\ \A i \in 1..n : Plus(ScalarTimes(3, d), mod(a, 3))[i] = ScalarTimes(3, d)[i] + mod(a, 3)[i]
    BY ONLY <1>4, <1>5, n \in Nat, Additions
<1>7. \A i \in 1..n : Plus(ScalarTimes(3, d), mod(a, 3))[i] = a[i]
    BY ONLY SMTT(40), <1>1, <1>2, <1>3, <1>4, <1>5, <1>6
<1>. QED  BY ONLY <1>6, <1>7, a \in Vec(n), SameElements DEF d

\* A change of size and back.
LEMMA Resized ==
    ASSUME NEW n \in Nat, NEW a \in Vec(n), NEW b \in Vec(n)
    PROVE  /\ redim(redim_fill(a, n + 2, 7), n) = a
           /\ redim(redim_coord(a, Fill(n + 2, 7)), n) = a
           /\ Minus(homog(a, n + 1), homog(b, n + 1)) = Append(Minus(a, b), 0)
<1>1. DOMAIN a = 1..n /\ DOMAIN b = 1..n /\ \A i \in 1..n : a[i] \in Int /\ b[i] \in Int
    BY DEF Vec
<1>2. redim(redim_fill(a, n + 2, 7), n) = a
    <2>1. /\ DOMAIN redim_fill(a, n + 2, 7) = 1..(n + 2)
          /\ \A i \in 1..n : i \in 1..(n + 2) /\ redim_fill(a, n + 2, 7)[i] = a[i]
        BY <1>1 DEF redim_fill
    <2>2. redim(redim_fill(a, n + 2, 7), n) \in Vec(n) /\ \A i \in 1..n : redim(redim_fill(a, n + 2, 7), n)[i] = a[i]
        BY <1>1, <2>1 DEF redim, Vec
    <2>. QED  BY <2>2, SameElements
<1>3. redim(redim_coord(a, Fill(n + 2, 7)), n) = a
    <2>1. /\ DOMAIN redim_coord(a, Fill(n + 2, 7)) = 1..(n + 2)
          /\ \A i \in 1..n : i \in 1..(n + 2) /\ redim_coord(a, Fill(n + 2, 7))[i] = a[i]
        BY <1>1 DEF redim_coord, Fill
    <2>2. /\ redim(redim_coord(a, Fill(n + 2, 7)), n) \in Vec(n)
          /\ \A i \in 1..n : redim(redim_coord(a, Fill(n + 2, 7)), n)[i] = a[i]
        BY <1>1, <2>1 DEF redim, Vec
    <2>. QED  BY <2>2, SameElements
<1>4. Minus(homog(a, n + 1), homog(b, n + 1)) = Append(Minus(a, b), 0)
    <2>1. ASSUME NEW c \in Vec(n)
          PROVE  /\ homog(c, n + 1) \in Vec(n + 1)
                 /\ \A i \in 1..(n + 1) : homog(c, n + 1)[i] = IF i <= n THEN c[i] ELSE 1
        <3>1. redim_fill(c, n + 1 - 1, 0) = c
            <4>1. n + 1 - 1 = n /\ DOMAIN c = 1..n
                BY DEF Vec
            <4>2. redim_fill(c, n, 0) \in Vec(n) /\ \A i \in 1..n : redim_fill(c, n, 0)[i] = c[i]
                BY <4>1 DEF redim_fill, Vec
            <4>. QED  BY <4>1, <4>2, SameElements
        <3>2. homog(c, n + 1) = c \o <<1>>
            BY <3>1 DEF homog
        <3>3. c \in Seq(Int) /\ Len(c) = n /\ \A i \in 1..n : c[i] \in Int
            BY Elements
        <3>4. /\ c \o <<1>> \in Seq(Int) /\ Len(c \o <<1>>) = n + 1
              /\ \A i \in 1..(n + 1) : (c \o <<1>>)[i] = IF i <= n THEN c[i] ELSE 1
            BY <3>3
        <3>. QED  BY <3>2, <3>4, SequencesAre
    <2>2. n + 1 \in Nat
        OBVIOUS
    <2>3. /\ Minus(homog(a, n + 1), homog(b, n + 1)) \in Vec(n + 1)
          /\ \A i \in 1..(n + 1) : Minus(homog(a, n + 1), homog(b, n + 1))[i]
                                       = homog(a, n + 1)[i] - homog(b, n + 1)[i]
        BY ONLY <2>1, <2>2, a \in Vec(n), b \in Vec(n), Additions
    <2>4. Minus(a, b) \in Vec(n) /\ \A i \in 1..n : Minus(a, b)[i] = a[i] - b[i]
        BY Additions
    <2>5. Append(Minus(a, b), 0) \in Vec(n + 1)
          /\ \A i \in 1..(n + 1) : Append(Minus(a, b), 0)[i] = IF i <= n THEN a[i] - b[i] ELSE 0
        <3>1. Minus(a, b) \in Seq(Int) /\ Len(Minus(a, b)) = n
            BY <2>4, Elements
        <3>2. /\ Append(Minus(a, b), 0) \in Seq(Int) /\ Len(Append(Minus(a, b), 0)) = n + 1
              /\ \A i \in 1..(n + 1) : Append(Minus(a, b), 0)[i] = IF i <= n THEN Minus(a, b)[i] ELSE 0
            BY <3>1
        <3>3. Append(Minus(a, b), 0) \in Vec(n + 1)
            BY ONLY <3>2, SequencesAre
        <3>4. \A i \in 1..(n + 1) : i <= n => i \in 1..n
            OBVIOUS
        <3>. QED  BY <2>4, <3>2, <3>3, <3>4
    <2>6. \A i \in 1..(n + 1) : Minus(homog(a, n + 1), homog(b, n + 1))[i] = Append(Minus(a, b), 0)[i]
        <3>. SUFFICES ASSUME NEW i \in 1..(n + 1)
                      PROVE  Minus(homog(a, n + 1), homog(b, n + 1))[i] = Append(Minus(a, b), 0)[i]
            OBVIOUS
        <3>1. /\ homog(a, n + 1)[i] = IF i <= n THEN a[i] ELSE 1
              /\ homog(b, n + 1)[i] = IF i <= n THEN b[i] ELSE 1
              /\ Append(Minus(a, b), 0)[i] = IF i <= n THEN a[i] - b[i] ELSE 0
              /\ Minus(homog(a, n + 1), homog(b, n + 1))[i] = homog(a, n + 1)[i] - homog(b, n + 1)[i]
            BY <2>1, <2>3, <2>5
        <3>2. CASE i <= n
            BY ONLY <3>1, <3>2
        <3>3. CASE ~(i <= n)
            <4>1. homog(a, n + 1)[i] = 1 /\ homog(b, n + 1)[i] = 1 /\ Append(Minus(a, b), 0)[i] = 0
                BY ONLY <3>1, <3>3
            <4>2. Minus(homog(a, n + 1), homog(b, n + 1))[i] = 1 - 1
                BY <3>1, <4>1
            <4>3. 1 - 1 = 0
                OBVIOUS
            <4>. QED  BY ONLY <4>1, <4>2, <4>3
        <3>. QED  BY <3>2, <3>3
    <2>. QED  BY ONLY <2>2, <2>3, <2>5, <2>6, SameElements
<1>. QED  BY <1>2, <1>3, <1>4

\* What is shifted in front of itself and read from a place on.
LEMMA Shifted ==
    ASSUME NEW n \in Nat, NEW a \in Vec(n), NEW b \in Vec(n), NEW k \in 0..n
    PROVE  indices(rshift(a, k, b) \o a, [i \in 1..n |-> k + i - 1])
               = [i \in 1..n |-> IF i <= n - k THEN a[i] ELSE a[i + k - n]]
<1>1. DOMAIN a = 1..n /\ a \in Seq(Int) /\ Len(a) = n /\ \A i \in 1..n : a[i] \in Int /\ b[i] \in Int
    BY DEF Vec
<1>2. rshift(a, k, b) \in Vec(n) /\ \A i \in 1..n : rshift(a, k, b)[i] = IF i > k THEN a[i - k] ELSE b[i]
    <2>1. \A i \in 1..n : i > k => i - k \in 1..n
        OBVIOUS
    <2>. QED  BY <1>1, <2>1 DEF rshift, Vec
<1>. DEFINE w == rshift(a, k, b) \o a
            c == [i \in 1..n |-> k + i - 1]
            f == [i \in 1..n |-> IF i <= n - k THEN a[i] ELSE a[i + k - n]]
<1>3. \A i \in 1..(2 * n) : w[i] = IF i <= n THEN IF i > k THEN a[i - k] ELSE b[i] ELSE a[i - n]
    <2>1. rshift(a, k, b) \in Seq(Int) /\ Len(rshift(a, k, b)) = n
        BY <1>2, Elements
    <2>2. \A i \in 1..(2 * n) : w[i] = IF i <= n THEN rshift(a, k, b)[i] ELSE a[i - n]
        BY SMTT(40), <1>1, <2>1
    <2>3. \A i \in 1..(2 * n) : i <= n => i \in 1..n
        OBVIOUS
    <2>. HIDE DEF w
    <2>. QED  BY <1>2, <2>2, <2>3
<1>. HIDE DEF w
<1>4. \A i \in 1..n : k + i - 1 + 1 = k + i /\ k + i \in 1..(2 * n) /\ k + i > k
    OBVIOUS
<1>5. \A i \in 1..n : w[k + i] = IF i <= n - k THEN a[i] ELSE a[i + k - n]
    BY <1>3, <1>4
<1>6. indices(w, c) = [i \in 1..n |-> w[c[i] + 1]]
    BY DEF indices
<1>7. indices(w, c) \in Vec(n) /\ \A i \in 1..n : indices(w, c)[i] = f[i]
    <2>1. \A i \in 1..n : c[i] + 1 = k + i
        BY <1>4
    <2>2. \A i \in 1..n : indices(w, c)[i] = w[k + i] /\ f[i] = w[k + i]
        BY <1>5, <1>6, <2>1
    <2>3. \A i \in 1..n : f[i] \in Int
        BY <1>1
    <2>. QED  BY ZenonT(60), <1>6, <2>2, <2>3 DEF Vec
<1>8. f \in Vec(n)
    BY <1>1 DEF Vec
<1>. QED  BY <1>7, <1>8, SameElements DEF w

-----------------------------------------------------------------------------
(* The cross product.                                                      *)

LEMMA DotOfThree ==
    ASSUME NEW a \in Vec(3), NEW b \in Vec(3)
    PROVE  dot(a, b) = a[1] * b[1] + a[2] * b[2] + a[3] * b[3]
<1>1. DOMAIN a = 1..3 /\ \A i \in 1..3 : a[i] \in Int /\ b[i] \in Int
    BY DEF Vec
<1>. DEFINE k == [i \in DOMAIN a |-> a[i] * b[i]]
<1>2. k \in Vec(3) /\ k[1] = a[1] * b[1] /\ k[2] = a[2] * b[2] /\ k[3] = a[3] * b[3]
    <2>1. \A i \in 1..3 : a[i] * b[i] \in Int
        BY <1>1
    <2>. QED  BY <1>1, <2>1 DEF Vec
<1>3. dot(a, b) = sum(k)
    BY DEF dot
<1>. HIDE DEF k
<1>. QED  BY <1>2, <1>3, SumOfThree

\* The cross product is at right angles to both sides, and Lagrange's identity.
LEMMA CrossIs ==
    ASSUME NEW a \in Vec(3), NEW b \in Vec(3)
    PROVE  LET c == cross(a, b)
           IN /\ dot(c, a) = 0 /\ dot(c, b) = 0
              /\ norm2(c) = norm2(a) * norm2(b) - dot(a, b) * dot(a, b)
<1>. DEFINE c == cross(a, b)
<1>1. a[1] \in Int /\ a[2] \in Int /\ a[3] \in Int /\ b[1] \in Int /\ b[2] \in Int /\ b[3] \in Int
    BY DEF Vec
<1>2. /\ c \in Vec(3) /\ c[1] = a[2] * b[3] - a[3] * b[2]
      /\ c[2] = a[3] * b[1] - a[1] * b[3] /\ c[3] = a[1] * b[2] - a[2] * b[1]
    <2>1. /\ c = << a[2] * b[3] - a[3] * b[2], a[3] * b[1] - a[1] * b[3], a[1] * b[2] - a[2] * b[1] >>
        BY DEF cross
    <2>2. /\ a[2] * b[3] - a[3] * b[2] \in Int /\ a[3] * b[1] - a[1] * b[3] \in Int
          /\ a[1] * b[2] - a[2] * b[1] \in Int
        BY <1>1
    <2>3. c \in Seq(Int) /\ Len(c) = 3
        BY <2>1, <2>2
    <2>4. c \in Vec(3)
        BY ONLY <2>3, SequencesAre
    <2>. QED  BY <2>1, <2>4
<1>. HIDE DEF c
<1>3. /\ dot(c, a) = c[1] * a[1] + c[2] * a[2] + c[3] * a[3]
      /\ dot(c, b) = c[1] * b[1] + c[2] * b[2] + c[3] * b[3]
      /\ norm2(c) = c[1] * c[1] + c[2] * c[2] + c[3] * c[3]
      /\ norm2(a) = a[1] * a[1] + a[2] * a[2] + a[3] * a[3]
      /\ norm2(b) = b[1] * b[1] + b[2] * b[2] + b[3] * b[3]
      /\ dot(a, b) = a[1] * b[1] + a[2] * b[2] + a[3] * b[3]
    BY <1>2, DotOfThree DEF norm2
<1>4. \A x, y, z, u, v, w \in Int :
        /\ (y * w - z * v) * x + (z * u - x * w) * y + (x * v - y * u) * z = 0
        /\ (y * w - z * v) * u + (z * u - x * w) * v + (x * v - y * u) * w = 0
    OBVIOUS
<1>5. \A x, y, z, u, v, w \in Int :
        (y * w - z * v) * (y * w - z * v) + (z * u - x * w) * (z * u - x * w) + (x * v - y * u) * (x * v - y * u)
            = (x * x + y * y + z * z) * (u * u + v * v + w * w)
                  - (x * u + y * v + z * w) * (x * u + y * v + z * w)
    OBVIOUS
<1>6. dot(c, a) = 0 /\ dot(c, b) = 0
    BY ONLY <1>1, <1>2, <1>3, <1>4
<1>7. norm2(c) = norm2(a) * norm2(b) - dot(a, b) * dot(a, b)
    BY ONLY <1>1, <1>2, <1>3, <1>5
<1>. QED  BY <1>6, <1>7 DEF c

-----------------------------------------------------------------------------
(* What the box and the region grow to.                                    *)

\* The least and the greatest number of a set are the ones it has.
LEMMA LeastAndGreatest ==
    ASSUME NEW S \in SUBSET Int, NEW x \in S
    PROVE  /\ (\A y \in S : x <= y) => Min(S) = x
           /\ (\A y \in S : y <= x) => Max(S) = x
<1>1. ASSUME \A y \in S : x <= y PROVE Min(S) = x
    <2>1. Min(S) \in S /\ \A y \in S : Min(S) <= y
        BY <1>1 DEF Min
    <2>2. Min(S) <= x /\ x <= Min(S) /\ Min(S) \in Int /\ x \in Int
        BY <1>1, <2>1
    <2>. QED  BY ONLY <2>2
<1>2. ASSUME \A y \in S : y <= x PROVE Max(S) = x
    <2>1. Max(S) \in S /\ \A y \in S : Max(S) >= y
        <3>1. \A y \in S : x >= y
            BY <1>2
        <3>. QED  BY <3>1 DEF Max
    <2>2. Max(S) <= x /\ x <= Max(S) /\ Max(S) \in Int /\ x \in Int
        BY <1>2, <2>1
    <2>. QED  BY ONLY <2>2
<1>. QED  BY <1>1, <1>2

\* The region, the box and the range of a corner pair.
BoxOf(r) == [p0 |-> r.p, p1 |-> away(r)]
ReachOf(r) == Span(r.p[1], away(r)[1])

\* A region, its box and its range grow over a point together.
LEMMA UnionIs ==
    ASSUME NEW n \in Nat \ {0}, NEW r \in Regs(n), NEW p \in Vec(n)
    PROVE  LET u == make_union(r, p)
           IN /\ u \in Regs(n) /\ cover(BoxOf(r), p) = BoxOf(u) /\ range_expand(ReachOf(r), p[1]) = ReachOf(u)
              /\ \A i \in 1..n : /\ u.p[i] = IF r.p[i] < p[i] THEN r.p[i] ELSE p[i]
                                 /\ away(u)[i] = IF away(r)[i] > p[i] THEN away(r)[i] ELSE p[i]
<1>0. n \in Nat /\ 1 \in 1..n
    OBVIOUS
<1>. DEFINE lo == select(Less(r.p, p), r.p, p)
            hi == select(Greater(away(r), p), away(r), p)
            u == make_union(r, p)
<1>1. /\ r.p \in Vec(n) /\ away(r) \in Vec(n)
      /\ \A i \in 1..n : /\ r.p[i] \in Int /\ away(r)[i] \in Int /\ p[i] \in Int /\ r.p[i] <= away(r)[i]
    <2>1. \A i \in 1..n : p[i] \in Int
        BY <1>0, Elements
    <2>. QED  BY <2>1, RegionIs
<1>2. /\ lo \in Vec(n) /\ \A i \in 1..n : lo[i] = IF r.p[i] < p[i] THEN r.p[i] ELSE p[i]
      /\ hi \in Vec(n) /\ \A i \in 1..n : hi[i] = IF away(r)[i] > p[i] THEN away(r)[i] ELSE p[i]
    BY <1>1 DEF select, Less, Greater, Vec
<1>3. u = Region(lo, ExtentOf(PointDifference(hi, lo)))
    BY DEF make_union, Between
<1>. HIDE DEF lo, hi
<1>4. \A i \in 1..n : lo[i] \in Int /\ hi[i] \in Int /\ lo[i] <= hi[i]
    BY ONLY <1>1, <1>2
<1>5. PointDifference(hi, lo) \in Vec(n) /\ \A i \in 1..n : PointDifference(hi, lo)[i] = hi[i] - lo[i]
    BY ONLY <1>0, <1>2, Additions
<1>6. /\ ExtentOf(PointDifference(hi, lo)) \in Vec(n)
      /\ \A i \in 1..n : ExtentOf(PointDifference(hi, lo))[i] =
             IF PointDifference(hi, lo)[i] < 0 THEN -PointDifference(hi, lo)[i] ELSE PointDifference(hi, lo)[i]
    BY ONLY <1>0, <1>5, Magnitudes
<1>7. \A i \in 1..n : /\ ExtentOf(PointDifference(hi, lo))[i] = hi[i] - lo[i]
                      /\ 0 <= ExtentOf(PointDifference(hi, lo))[i]
    BY ONLY <1>4, <1>5, <1>6
<1>8. u \in Regs(n) /\ u.p = lo /\ u.e = ExtentOf(PointDifference(hi, lo))
    BY <1>2, <1>3, <1>6, <1>7 DEF Regs, Region
<1>. HIDE DEF u
<1>9. away(u) = hi
    <2>1. away(u) \in Vec(n) /\ \A i \in 1..n : away(u)[i] = lo[i] + (hi[i] - lo[i])
        BY <1>7, <1>8, RegionIs
    <2>2. \A i \in 1..n : away(u)[i] = hi[i]
        BY <1>4, <2>1
    <2>. QED  BY ONLY <1>0, <1>2, <2>1, <2>2, SameElements
<1>10. cover(BoxOf(r), p) = BoxOf(u)
    <2>1. /\ min2(p, r.p) \in Vec(n) /\ \A i \in 1..n : min2(p, r.p)[i] = IF r.p[i] < p[i] THEN r.p[i] ELSE p[i]
          /\ max2(p, away(r)) \in Vec(n)
          /\ \A i \in 1..n : max2(p, away(r))[i] = IF away(r)[i] > p[i] THEN away(r)[i] ELSE p[i]
        BY ONLY <1>0, <1>1, p \in Vec(n), Extrema
    <2>2. min2(p, r.p) = lo
        BY <1>0, <1>2, <2>1, SameElements
    <2>3. max2(p, away(r)) = hi
        BY <1>0, <1>2, <2>1, SameElements
    <2>. QED  BY <1>8, <1>9, <2>2, <2>3 DEF cover, BoxOf
<1>11. range_expand(ReachOf(r), p[1]) = ReachOf(u)
    <2>1. lo[1] = IF p[1] < r.p[1] THEN p[1] ELSE r.p[1]
        BY <1>0, <1>1, <1>2
    <2>2. hi[1] = IF p[1] > away(r)[1] THEN p[1] ELSE away(r)[1]
        BY <1>0, <1>1, <1>2
    <2>. QED  BY <1>8, <1>9, <2>1, <2>2 DEF range_expand, ReachOf, Span
<1>. QED  BY <1>2, <1>8, <1>9, <1>10, <1>11 DEF u

\* They move together.
LEMMA MovedIs ==
    ASSUME NEW n \in Nat \ {0}, NEW r \in Regs(n), NEW v \in Vec(n)
    PROVE  LET m == move(r, v)
           IN /\ m \in Regs(n) /\ aabb_move(BoxOf(r), v) = BoxOf(m) /\ range_minus(ReachOf(r), -v[1]) = ReachOf(m)
              /\ \A i \in 1..n : m.p[i] = r.p[i] + v[i] /\ away(m)[i] = away(r)[i] + v[i]
<1>0. n \in Nat /\ 1 \in 1..n
    OBVIOUS
<1>. DEFINE m == move(r, v)
<1>1. /\ r.p \in Vec(n) /\ away(r) \in Vec(n) /\ r.e \in Vec(n)
      /\ \A i \in 1..n : /\ r.p[i] \in Int /\ away(r)[i] \in Int /\ v[i] \in Int /\ r.e[i] \in Int /\ 0 <= r.e[i]
                         /\ away(r)[i] = r.p[i] + r.e[i]
    <2>1. \A i \in 1..n : v[i] \in Int
        BY <1>0, Elements
    <2>. QED  BY <2>1, RegionIs
<1>2. /\ Plus(r.p, v) \in Vec(n) /\ \A i \in 1..n : Plus(r.p, v)[i] = r.p[i] + v[i]
      /\ Plus(away(r), v) \in Vec(n) /\ \A i \in 1..n : Plus(away(r), v)[i] = away(r)[i] + v[i]
    BY ONLY <1>0, <1>1, v \in Vec(n), Additions
<1>3. m \in Regs(n) /\ m.p = Plus(r.p, v) /\ m.e = r.e
    BY <1>1, <1>2 DEF move, Region, Regs
<1>. HIDE DEF m
<1>4. away(m) = Plus(away(r), v)
    <2>1. away(m) \in Vec(n) /\ \A i \in 1..n : away(m)[i] = r.p[i] + v[i] + r.e[i]
        BY <1>2, <1>3, RegionIs
    <2>2. \A i \in 1..n : away(m)[i] = Plus(away(r), v)[i]
        BY <1>1, <1>2, <2>1
    <2>. QED  BY ONLY <1>0, <1>2, <2>1, <2>2, SameElements
<1>5. aabb_move(BoxOf(r), v) = BoxOf(m)
    BY <1>3, <1>4 DEF aabb_move, BoxOf
<1>6. range_minus(ReachOf(r), -v[1]) = ReachOf(m)
    <2>1. m.p[1] = r.p[1] - (-v[1]) /\ away(m)[1] = away(r)[1] - (-v[1])
        BY <1>0, <1>1, <1>2, <1>3, <1>4
    <2>. QED  BY <2>1 DEF range_minus, ReachOf, Span
<1>. QED  BY <1>2, <1>3, <1>4, <1>5, <1>6 DEF m

(***************************************************************************)
(* What the box, the region and the range have grown to: one pair of       *)
(* corners that holds every point seen, and is met by one of them on each  *)
(* side of each axis.                                                      *)
(***************************************************************************)
Tight(n, r, points) ==
    /\ r \in Regs(n) /\ points \subseteq Vec(n)
    /\ \A i \in 1..n : /\ \A q \in points : r.p[i] <= q[i] /\ q[i] <= away(r)[i]
                       /\ \E q \in points : q[i] = r.p[i]
                       /\ \E q \in points : q[i] = away(r)[i]

Grown(n) ==
    /\ n \in Nat \ {0} /\ Tight(n, area, seen)
    /\ box = BoxOf(area) /\ reach = ReachOf(area)

LEMMA TightStarts ==
    ASSUME NEW n \in Nat \ {0}, NEW p \in Vec(n)
    PROVE  LET r == Region(p, origin(n))
           IN Tight(n, r, {p}) /\ BoxOf(r) = [p0 |-> p, p1 |-> p] /\ ReachOf(r) = Span(p[1], p[1])
<1>0. n \in Nat /\ 1 \in 1..n /\ \A i \in 1..n : p[i] \in Int
    BY Elements
<1>. DEFINE r == Region(p, origin(n))
<1>1. r \in Regs(n) /\ r.p = p /\ \A i \in 1..n : r.e[i] = 0
    BY DEF Region, Regs, origin, Fill, Vec
<1>. HIDE DEF r
<1>2. away(r) = p
    <2>1. away(r) \in Vec(n) /\ \A i \in 1..n : away(r)[i] = p[i] + 0
        BY <1>1, RegionIs
    <2>2. \A i \in 1..n : away(r)[i] = p[i]
        BY <1>0, <2>1
    <2>. QED  BY ONLY <1>0, <2>1, <2>2, p \in Vec(n), SameElements
<1>. QED  BY <1>0, <1>1, <1>2 DEF Tight, BoxOf, ReachOf, r

LEMMA TightGrows ==
    ASSUME NEW n \in Nat \ {0}, NEW r, NEW points, Tight(n, r, points), NEW p \in Vec(n)
    PROVE  Tight(n, make_union(r, p), points \union {p})
<1>. DEFINE u == make_union(r, p)
<1>1. /\ u \in Regs(n)
      /\ \A i \in 1..n : /\ u.p[i] = IF r.p[i] < p[i] THEN r.p[i] ELSE p[i]
                         /\ away(u)[i] = IF away(r)[i] > p[i] THEN away(r)[i] ELSE p[i]
    BY UnionIs DEF Tight
<1>. HIDE DEF u
<1>2. \A i \in 1..n : r.p[i] \in Int /\ away(r)[i] \in Int /\ p[i] \in Int
    <2>1. \A i \in 1..n : p[i] \in Int
        BY Elements
    <2>. QED  BY <2>1, RegionIs DEF Tight
<1>3. ASSUME NEW i \in 1..n
      PROVE  /\ \A q \in points \union {p} : u.p[i] <= q[i] /\ q[i] <= away(u)[i]
             /\ \E q \in points \union {p} : q[i] = u.p[i]
             /\ \E q \in points \union {p} : q[i] = away(u)[i]
    <2>1. ASSUME NEW q \in points \union {p} PROVE u.p[i] <= q[i] /\ q[i] <= away(u)[i]
        <3>1. CASE q = p
            BY <1>1, <1>2, <3>1
        <3>2. CASE q \in points
            <4>1. r.p[i] <= q[i] /\ q[i] <= away(r)[i] /\ q \in Vec(n)
                BY <3>2 DEF Tight
            <4>2. q[i] \in Int
                BY <4>1, Elements
            <4>. QED  BY <1>1, <1>2, <4>1, <4>2
        <3>. QED  BY <3>1, <3>2
    <2>2. PICK q \in points : q[i] = r.p[i]
        BY DEF Tight
    <2>3. PICK w \in points : w[i] = away(r)[i]
        BY DEF Tight
    <2>4. q[i] = u.p[i] \/ p[i] = u.p[i]
        BY <1>1, <2>2
    <2>5. w[i] = away(u)[i] \/ p[i] = away(u)[i]
        BY <1>1, <2>3
    <2>. QED  BY <2>1, <2>4, <2>5
<1>4. points \union {p} \subseteq Vec(n)
    BY DEF Tight
<1>. QED  BY <1>1, <1>3, <1>4 DEF Tight, u

LEMMA TightMoves ==
    ASSUME NEW n \in Nat \ {0}, NEW r, NEW points, Tight(n, r, points), NEW v \in Vec(n)
    PROVE  Tight(n, move(r, v), {Plus(q, v) : q \in points})
<1>. DEFINE m == move(r, v)
            moved == {Plus(q, v) : q \in points}
<1>1. m \in Regs(n) /\ \A i \in 1..n : m.p[i] = r.p[i] + v[i] /\ away(m)[i] = away(r)[i] + v[i]
    BY MovedIs DEF Tight
<1>. HIDE DEF m
<1>2. \A i \in 1..n : r.p[i] \in Int /\ away(r)[i] \in Int /\ v[i] \in Int
    <2>1. \A i \in 1..n : v[i] \in Int
        BY Elements
    <2>. QED  BY <2>1, RegionIs DEF Tight
<1>3. ASSUME NEW q \in points
      PROVE  /\ Plus(q, v) \in Vec(n) /\ Plus(q, v) \in moved
             /\ \A i \in 1..n : Plus(q, v)[i] = q[i] + v[i] /\ q[i] \in Int
    <2>1. q \in Vec(n) /\ n \in Nat
        BY DEF Tight
    <2>. QED  BY <2>1, Additions, Elements
<1>4. moved \subseteq Vec(n)
    BY <1>3
<1>5. ASSUME NEW i \in 1..n
      PROVE  /\ \A q \in moved : m.p[i] <= q[i] /\ q[i] <= away(m)[i]
             /\ \E q \in moved : q[i] = m.p[i]
             /\ \E q \in moved : q[i] = away(m)[i]
    <2>1. ASSUME NEW q \in points PROVE m.p[i] <= Plus(q, v)[i] /\ Plus(q, v)[i] <= away(m)[i]
        <3>1. r.p[i] <= q[i] /\ q[i] <= away(r)[i]
            BY DEF Tight
        <3>. QED  BY <1>1, <1>2, <1>3, <3>1
    <2>2. PICK q \in points : q[i] = r.p[i]
        BY DEF Tight
    <2>3. PICK w \in points : w[i] = away(r)[i]
        BY DEF Tight
    <2>4. Plus(q, v)[i] = m.p[i] /\ Plus(w, v)[i] = away(m)[i] /\ Plus(q, v) \in moved /\ Plus(w, v) \in moved
        BY <1>1, <1>3, <2>2, <2>3
    <2>. QED  BY <2>1, <2>4
<1>. QED  BY <1>1, <1>4, <1>5 DEF Tight, m

\* What is tight is what the properties say of it.
LEMMA GrownIsExact ==
    ASSUME NEW n, Grown(n)
    PROVE  BoundsExact
<1>0. n \in Nat \ {0} /\ n \in Nat /\ 1 \in 1..n
    BY DEF Grown
<1>. DEFINE low == [i \in DOMAIN box.p0 |-> Min({q[i] : q \in seen})]
            high == [i \in DOMAIN box.p0 |-> Max({q[i] : q \in seen})]
<1>1. /\ area \in Regs(n) /\ seen \subseteq Vec(n) /\ box = BoxOf(area) /\ reach = ReachOf(area)
      /\ \A i \in 1..n : /\ \A q \in seen : area.p[i] <= q[i] /\ q[i] <= away(area)[i]
                         /\ \E q \in seen : q[i] = area.p[i]
                         /\ \E q \in seen : q[i] = away(area)[i]
    BY DEF Grown, Tight
<1>2. /\ area.p \in Vec(n) /\ area.e \in Vec(n) /\ away(area) \in Vec(n) /\ area = Region(area.p, area.e)
      /\ \A i \in 1..n : area.p[i] \in Int /\ area.e[i] \in Int /\ away(area)[i] = area.p[i] + area.e[i]
    BY <1>0, <1>1, RegionIs
<1>3. DOMAIN box.p0 = 1..n
    BY <1>0, <1>1, <1>2, Elements DEF BoxOf
<1>4. ASSUME NEW i \in 1..n PROVE low[i] = area.p[i] /\ high[i] = away(area)[i]
    <2>. DEFINE S == {q[i] : q \in seen}
    <2>1. S \in SUBSET Int
        BY <1>0, <1>1, Elements
    <2>2. area.p[i] \in S /\ away(area)[i] \in S
        BY <1>1
    <2>3. \A y \in S : area.p[i] <= y /\ y <= away(area)[i]
        BY <1>1
    <2>4. low[i] = Min(S) /\ high[i] = Max(S)
        BY <1>3
    <2>. HIDE DEF S
    <2>. QED  BY <2>1, <2>2, <2>3, <2>4, LeastAndGreatest
<1>5. low = area.p /\ high = away(area)
    <2>1. low \in Vec(n) /\ high \in Vec(n)
        <3>1. \A i \in 1..n : area.p[i] \in Int /\ away(area)[i] \in Int
            BY <1>0, <1>2, Elements
        <3>. QED  BY <1>3, <1>4, <3>1 DEF Vec
    <2>. HIDE DEF low, high
    <2>. QED  BY <1>0, <1>2, <1>4, <2>1, SameElements
<1>6. magnitude(box) = area.e
    <2>1. /\ PointDifference(away(area), area.p) \in Vec(n)
          /\ \A i \in 1..n : PointDifference(away(area), area.p)[i] = away(area)[i] - area.p[i]
        BY <1>0, <1>2, Additions
    <2>2. \A i \in 1..n : PointDifference(away(area), area.p)[i] = area.e[i]
        BY <1>2, <2>1
    <2>3. PointDifference(away(area), area.p) = area.e
        BY ONLY <1>0, <1>2, <2>1, <2>2, SameElements
    <2>. QED  BY <1>1, <2>3 DEF magnitude, BoxOf
<1>7. ASSUME NEW q \in seen PROVE inclusive(area, q) /\ constrain(area, q) = q
    <2>1. q \in Vec(n) /\ \A i \in 1..n : area.p[i] <= q[i] /\ q[i] <= away(area)[i]
        BY <1>1
    <2>2. inclusive(area, q)
        BY <1>0, <1>1, <2>1, TestsAre
    <2>3. /\ constrain(area, q) \in Vec(n)
          /\ \A i \in 1..n : constrain(area, q)[i] = IF q[i] < area.p[i] THEN area.p[i]
                                          ELSE IF q[i] > away(area)[i] THEN away(area)[i] ELSE q[i]
        BY <1>0, <1>1, <2>1, Constrained
    <2>4. \A i \in 1..n : constrain(area, q)[i] = q[i]
        <3>1. \A i \in 1..n : q[i] \in Int /\ area.p[i] \in Int /\ away(area)[i] \in Int
            BY <1>0, <1>2, <2>1, Elements
        <3>. QED  BY ONLY <2>1, <2>3, <3>1
    <2>. QED  BY ONLY <1>0, <2>1, <2>2, <2>3, <2>4, SameElements
<1>. QED  BY <1>1, <1>2, <1>5, <1>6, <1>7 DEF BoundsExact, BoxOf, ReachOf

-----------------------------------------------------------------------------
(* Division, strides and the number of points.                             *)

\* A quotient and a remainder are the only ones.
LEMMA DivisionIsOnly ==
    ASSUME NEW d \in Nat \ {0}, NEW q \in Nat, NEW r \in 0..(d - 1)
    PROVE  (d * q + r) \div d = q /\ (d * q + r) % d = r
<1>. DEFINE a == d * q + r
            p == a \div d
            s == a % d
<1>1. a \in Nat
    BY d * q \in Nat
<1>. HIDE DEF a
<1>2. p \in Int /\ s \in 0..(d - 1) /\ a = d * p + s
    BY <1>1
<1>. HIDE DEF p, s
<1>3. d * p + s = d * q + r
    BY <1>2 DEF a
<1>4. p = q
    <2>1. CASE p < q
        <3>1. d * (p + 1) <= d * q /\ d * (p + 1) = d * p + d
            BY <1>2, <2>1
        <3>. QED  BY <1>2, <1>3, <3>1
    <2>2. CASE q < p
        <3>1. d * (q + 1) <= d * p /\ d * (q + 1) = d * q + d
            BY <1>2, <2>2
        <3>. QED  BY <1>2, <1>3, <3>1
    <2>. QED  BY <1>2, <2>1, <2>2
<1>5. s = r
    BY <1>2, <1>3, <1>4
<1>. QED  BY <1>4, <1>5 DEF p, s, a

\* The quotient of the next number is the next one where nothing remains.
LEMMA NextQuotient ==
    ASSUME NEW m \in Nat, NEW d \in Nat \ {0}
    PROVE  (m + 1) \div d = IF (m + 1) % d = 0 THEN (m \div d) + 1 ELSE m \div d
<1>. DEFINE q == m \div d
            r == m % d
<1>1. q \in Nat /\ r \in 0..(d - 1) /\ m = d * q + r
    BY DivMod
<1>. HIDE DEF q, r
<1>2. CASE r + 1 = d
    <2>1. m + 1 = d * (q + 1) + 0
        BY <1>1, <1>2
    <2>2. q + 1 \in Nat /\ 0 \in 0..(d - 1)
        BY <1>1
    <2>3. (d * (q + 1) + 0) \div d = q + 1 /\ (d * (q + 1) + 0) % d = 0
        BY ONLY <2>2, d \in Nat \ {0}, DivisionIsOnly
    <2>4. (m + 1) \div d = q + 1 /\ (m + 1) % d = 0
        BY ONLY <2>1, <2>3
    <2>. QED  BY <2>4 DEF q
<1>3. CASE r + 1 # d
    <2>1. m + 1 = d * q + (r + 1) /\ r + 1 \in 0..(d - 1) /\ r + 1 # 0
        BY <1>1, <1>3
    <2>2. (d * q + (r + 1)) \div d = q /\ (d * q + (r + 1)) % d = r + 1
        BY ONLY <1>1, <2>1, d \in Nat \ {0}, DivisionIsOnly
    <2>3. (m + 1) \div d = q /\ (m + 1) % d = r + 1
        BY ONLY <2>1, <2>2
    <2>. QED  BY <2>1, <2>3 DEF q
<1>. QED  BY <1>2, <1>3

\* To divide by a product is to divide twice.
LEMMA DivisionByProduct ==
    ASSUME NEW m \in Nat, NEW d \in Nat \ {0}, NEW s \in Nat \ {0}
    PROVE  /\ d * s \in Nat \ {0}
           /\ m % (d * s) = 0 <=> m % d = 0 /\ (m \div d) % s = 0
<1>. DEFINE q == m \div d
            r == m % d
            u == q \div s
            v == q % s
<1>1. q \in Nat /\ r \in 0..(d - 1) /\ m = d * q + r
    BY DivMod
<1>. HIDE DEF q, r
<1>2. u \in Nat /\ v \in 0..(s - 1) /\ q = s * u + v
    BY <1>1, DivMod
<1>. HIDE DEF u, v
<1>3. d * s \in Nat \ {0}
    OBVIOUS
<1>4. m = (d * s) * u + (d * v + r)
    <2>1. d * (s * u + v) = (d * s) * u + d * v
        BY <1>2
    <2>. QED  BY <1>1, <1>2, <2>1
<1>5. d * v + r \in 0..(d * s - 1)
    <2>1. d * v \in Nat /\ d * v <= d * (s - 1) /\ d * (s - 1) = d * s - d
        BY <1>2
    <2>. QED  BY <1>1, <1>3, <2>1
<1>6. m % (d * s) = d * v + r
    <2>. DEFINE ds == d * s
                w == d * v + r
    <2>1. ds \in Nat \ {0} /\ w \in 0..(ds - 1) /\ m = ds * u + w
        BY <1>3, <1>4, <1>5
    <2>. HIDE DEF ds, w
    <2>2. m % ds = w
        BY <1>2, <2>1, DivisionIsOnly
    <2>. QED  BY <2>2 DEF ds, w
<1>7. d * v + r = 0 <=> r = 0 /\ v = 0
    BY <1>1, <1>2
<1>. QED  BY <1>3, <1>6, <1>7 DEF q, r, v

-----------------------------------------------------------------------------
(* The walk.  A point of a region is a number whose digits are the steps   *)
(* from the near corner, the first axis the lowest.                        *)

Stride(e, i) == product([j \in 1..(i - 1) |-> e[j] + 1])
Digit(e, i, m) == (m \div Stride(e, i)) % (e[i] + 1)

LEMMA Strides ==
    ASSUME NEW n \in Nat, NEW e \in Vec(n), \A i \in 1..n : 0 <= e[i]
    PROVE  /\ Stride(e, 1) = 1
           /\ \A i \in 1..(n + 1) : Stride(e, i) \in Nat \ {0}
           /\ \A i \in 1..n : /\ Stride(e, i + 1) = Stride(e, i) * (e[i] + 1)
                              /\ e[i] + 1 \in Nat \ {0}
<1>. DEFINE k == [j \in 1..n |-> e[j] + 1]
<1>1. k \in Vec(n) /\ \A i \in 1..n : k[i] = e[i] + 1 /\ k[i] \in Nat \ {0}
    BY DEF Vec
<1>. HIDE DEF k
<1>2. PICK t : ProductTable(t, k, n)
    BY <1>1, TablesExist
<1>3. ASSUME NEW i \in 1..(n + 1) PROVE Stride(e, i) = t[i - 1]
    <2>. DEFINE part == [j \in 1..(i - 1) |-> e[j] + 1]
                table == [j \in 0..(i - 1) |-> t[j]]
    <2>0. i - 1 \in Nat /\ i - 1 <= n
        OBVIOUS
    <2>1. part \in Vec(i - 1)
        BY DEF Vec
    <2>2. ProductTable(table, part, i - 1)
        <3>1. \A j \in 0..(i - 1) : j \in 0..n /\ t[j] \in Int
            BY <1>2, <2>0 DEF ProductTable
        <3>2. \A j \in 1..(i - 1) : j - 1 \in 0..(i - 1) /\ j \in 1..n /\ t[j] = t[j - 1] * k[j] /\ k[j] = e[j] + 1
            BY <1>1, <1>2, <2>0 DEF ProductTable
        <3>3. t[0] = 1
            BY <1>2 DEF ProductTable
        <3>. QED  BY <2>0, <3>1, <3>2, <3>3 DEF ProductTable
    <2>3. product(part) = table[i - 1]
        BY ONLY <2>0, <2>1, <2>2, ProductIsLast
    <2>. QED  BY <2>0, <2>3 DEF Stride
<1>4. \A i \in 0..n : t[i] \in Nat \ {0}
    <2>. DEFINE G == {i \in Nat : i <= n => t[i] \in Nat \ {0}}
    <2>1. 0 \in G
        BY <1>2 DEF ProductTable
    <2>2. ASSUME NEW i \in Nat, i \in G PROVE i + 1 \in G
        <3>. SUFFICES ASSUME i + 1 <= n PROVE t[i + 1] \in Nat \ {0}
            OBVIOUS
        <3>1. t[i + 1] = t[i] * k[i + 1] /\ t[i] \in Nat \ {0} /\ k[i + 1] \in Nat \ {0}
            BY <1>1, <1>2, <2>2 DEF ProductTable
        <3>2. \A x, y \in Nat \ {0} : x * y \in Nat \ {0}
            OBVIOUS
        <3>. QED  BY <3>1, <3>2
    <2>3. Nat \subseteq G
        <3>. HIDE DEF G
        <3>. QED  BY <2>1, <2>2, Induction
    <2>. QED  BY <2>3
<1>5. Stride(e, 1) = 1
    BY <1>2, <1>3 DEF ProductTable
<1>6. \A i \in 1..(n + 1) : Stride(e, i) \in Nat \ {0}
    BY <1>3, <1>4
<1>7. ASSUME NEW i \in 1..n PROVE Stride(e, i + 1) = Stride(e, i) * (e[i] + 1) /\ e[i] + 1 \in Nat \ {0}
    <2>1. Stride(e, i + 1) = t[i + 1 - 1] /\ Stride(e, i) = t[i - 1] /\ i + 1 - 1 = i
        BY <1>3
    <2>. QED  BY <1>1, <1>2, <2>1 DEF ProductTable
<1>. QED  BY <1>5, <1>6, <1>7

\* A region holds as many points as the last stride says.
LEMMA PointsCounted ==
    ASSUME NEW n \in Nat \ {0}, NEW r \in Regs(n)
    PROVE  Cardinality(Inside(r)) = Stride(r.e, n + 1)
<1>. DEFINE lo == r.p
            e == r.e
            hi == away(r)
            Front(k) == {q \in [1..k -> Int] : \A i \in 1..k : lo[i] <= q[i] /\ q[i] <= hi[i]}
<1>1. /\ e \in Vec(n) /\ Inside(r) = Front(n)
      /\ \A i \in 1..n : lo[i] \in Int /\ e[i] \in Int /\ hi[i] \in Int /\ 0 <= e[i] /\ hi[i] = lo[i] + e[i]
    BY RegionIs DEF Vec
<1>2. /\ Stride(e, 1) = 1 /\ n \in Nat
      /\ \A i \in 1..(n + 1) : Stride(e, i) \in Nat \ {0}
      /\ \A i \in 1..n : Stride(e, i + 1) = Stride(e, i) * (e[i] + 1)
    <2>1. n \in Nat /\ \A i \in 1..n : 0 <= e[i]
        BY <1>1
    <2>. QED  BY ONLY <1>1, <2>1, Strides
<1>. HIDE DEF lo, e, hi
<1>. DEFINE G == {k \in Nat : k <= n => IsFiniteSet(Front(k)) /\ Cardinality(Front(k)) = Stride(e, k + 1)}
<1>3. 0 \in G
    <2>. DEFINE none == [i \in 1..0 |-> 0]
    <2>1. Front(0) = {none}
        <3>1. none \in Front(0)
            OBVIOUS
        <3>2. ASSUME NEW q \in Front(0) PROVE q = none
            OBVIOUS
        <3>. QED  BY <3>1, <3>2
    <2>. HIDE DEF none
    <2>2. IsFiniteSet({none}) /\ Cardinality({none}) = 1
        BY FS_Singleton
    <2>3. IsFiniteSet(Front(0)) /\ Cardinality(Front(0)) = Stride(e, 0 + 1)
        <3>1. 0 + 1 = 1
            OBVIOUS
        <3>. QED  BY ONLY <1>2, <2>1, <2>2, <3>1
    <2>. QED  BY <2>3
<1>4. ASSUME NEW k \in Nat, k \in G PROVE k + 1 \in G
    <2>. SUFFICES ASSUME k + 1 <= n
                  PROVE  /\ IsFiniteSet(Front(k + 1))
                         /\ Cardinality(Front(k + 1)) = Stride(e, k + 2)
        OBVIOUS
    <2>. DEFINE A == Front(k)
                B == lo[k + 1]..hi[k + 1]
                C == Front(k + 1)
                f == [c \in A \X B |-> [i \in 1..(k + 1) |-> IF i <= k THEN c[1][i] ELSE c[2]]]
    <2>0. lo[k + 1] \in Int /\ hi[k + 1] \in Int /\ k + 1 \in 1..n
        BY <1>1
    <2>1. IsFiniteSet(A) /\ Cardinality(A) = Stride(e, k + 1)
        BY <1>4
    <2>2. IsFiniteSet(B) /\ Cardinality(B) = e[k + 1] + 1
        <3>1. IsFiniteSet(B) /\ Cardinality(B) = IF lo[k + 1] > hi[k + 1] THEN 0 ELSE hi[k + 1] - lo[k + 1] + 1
            BY <2>0, FS_Interval
        <3>. QED  BY <1>1, <2>0, <3>1
    <2>3. f \in [A \X B -> C]
        <3>. SUFFICES ASSUME NEW x \in A, NEW y \in B
                      PROVE  [i \in 1..(k + 1) |-> IF i <= k THEN x[i] ELSE y] \in C
            BY ZenonT(60)
        <3>1. /\ \A i \in 1..k : x[i] \in Int /\ lo[i] <= x[i] /\ x[i] <= hi[i]
              /\ y \in Int /\ lo[k + 1] <= y /\ y <= hi[k + 1]
            BY <2>0
        <3>2. \A i \in 1..(k + 1) : i <= k => i \in 1..k
            OBVIOUS
        <3>3. \A i \in 1..(k + 1) : ~(i <= k) => i = k + 1
            OBVIOUS
        <3>. QED  BY <3>1, <3>2, <3>3
    <2>4. ASSUME NEW x \in A, NEW y \in B
          PROVE  f[<<x, y>>] = [i \in 1..(k + 1) |-> IF i <= k THEN x[i] ELSE y]
        <3>. HIDE DEF A, B
        <3>. QED  OBVIOUS
    <2>5. \A i \in 1..(k + 1) : (i <= k => i \in 1..k) /\ (~(i <= k) => i = k + 1)
        OBVIOUS
    <2>6. ASSUME NEW x \in A, NEW y \in B, NEW u \in A, NEW v \in B, f[<<x, y>>] = f[<<u, v>>]
          PROVE  x = u /\ y = v
        <3>. HIDE DEF f, A, B
        <3>1. [i \in 1..(k + 1) |-> IF i <= k THEN x[i] ELSE y]
                  = [i \in 1..(k + 1) |-> IF i <= k THEN u[i] ELSE v]
            <4>1. f[<<x, y>>] = [i \in 1..(k + 1) |-> IF i <= k THEN x[i] ELSE y]
                BY <2>4
            <4>2. f[<<u, v>>] = [i \in 1..(k + 1) |-> IF i <= k THEN u[i] ELSE v]
                BY <2>4
            <4>. QED  BY ONLY <2>6, <4>1, <4>2, Zenon
        <3>. DEFINE g == [i \in 1..(k + 1) |-> IF i <= k THEN x[i] ELSE y]
                    h == [i \in 1..(k + 1) |-> IF i <= k THEN u[i] ELSE v]
        <3>2. \A i \in 1..k : g[i] = x[i] /\ h[i] = u[i]
            OBVIOUS
        <3>3. g[k + 1] = y /\ h[k + 1] = v
            OBVIOUS
        <3>4. g = h
            BY <3>1
        <3>. HIDE DEF g, h
        <3>5. \A i \in 1..k : x[i] = u[i]
            BY ONLY <3>2, <3>4
        <3>6. x \in [1..k -> Int] /\ u \in [1..k -> Int]
            BY DEF A
        <3>. QED  BY ONLY <3>3, <3>4, <3>5, <3>6
    <2>7. ASSUME NEW q \in C PROVE \E x \in A, y \in B : f[<<x, y>>] = q
        <3>. DEFINE x == [i \in 1..k |-> q[i]]
                    y == q[k + 1]
        <3>1. q \in [1..(k + 1) -> Int] /\ \A i \in 1..(k + 1) : lo[i] <= q[i] /\ q[i] <= hi[i]
            OBVIOUS
        <3>2. x \in A
            BY <3>1
        <3>3. y \in B
            BY <2>0, <3>1
        <3>4. \A i \in 1..k : x[i] = q[i]
            OBVIOUS
        <3>. HIDE DEF x, f, A, B
        <3>5. \A i \in 1..(k + 1) : (IF i <= k THEN x[i] ELSE y) = q[i]
            BY <2>5, <3>4
        <3>6. [i \in 1..(k + 1) |-> IF i <= k THEN x[i] ELSE y] = q
            BY ONLY <3>1, <3>5
        <3>7. f[<<x, y>>] = q
            BY <2>4, <3>2, <3>3, <3>6
        <3>. QED  BY <3>2, <3>3, <3>7
    <2>. HIDE DEF A, B, C, f
    <2>8. f \in Injection(A \X B, C)
        <3>1. \A c, d \in A \X B : f[c] = f[d] => c = d
            <4>. SUFFICES ASSUME NEW x \in A, NEW y \in B, NEW u \in A, NEW v \in B, f[<<x, y>>] = f[<<u, v>>]
                          PROVE  <<x, y>> = <<u, v>>
                OBVIOUS
            <4>. QED  BY <2>6
        <3>. QED  BY <2>3, <3>1 DEF Injection, IsInjective
    <2>9. f \in Surjection(A \X B, C)
        <3>1. \A q \in C : \E c \in A \X B : f[c] = q
            <4>. SUFFICES ASSUME NEW q \in C PROVE \E c \in A \X B : f[c] = q
                OBVIOUS
            <4>1. PICK x \in A, y \in B : f[<<x, y>>] = q
                BY <2>7
            <4>2. <<x, y>> \in A \X B
                OBVIOUS
            <4>. QED  BY <4>1, <4>2
        <3>. QED  BY <2>3, <3>1 DEF Surjection
    <2>10. ExistsBijection(A \X B, C)
        BY <2>8, <2>9 DEF ExistsBijection, Bijection
    <2>11. IsFiniteSet(A \X B) /\ Cardinality(A \X B) = Stride(e, k + 1) * (e[k + 1] + 1)
        BY <2>1, <2>2, FS_Product
    <2>12. IsFiniteSet(C) /\ Cardinality(C) = Cardinality(A \X B)
        BY <2>10, <2>11, FS_Bijection
    <2>13. Stride(e, k + 2) = Stride(e, k + 1) * (e[k + 1] + 1)
        <3>1. k + 1 + 1 = k + 2
            OBVIOUS
        <3>. QED  BY <1>2, <2>0, <3>1
    <2>. QED  BY <2>11, <2>12, <2>13 DEF C
<1>5. Nat \subseteq G
    <2>. HIDE DEF G
    <2>. QED  BY <1>3, <1>4, Induction
<1>6. n \in G
    BY <1>2, <1>5
<1>. QED  BY <1>1, <1>6 DEF e

-----------------------------------------------------------------------------
(* The iterator of a walk.                                                 *)

\* Where the iterator stands after m steps, and the point it is then at.
CursorAt(n, e, m) == [i \in 1..n |-> IF i = n THEN m \div Stride(e, n) ELSE Digit(e, i, m)]
PointAt(n, r, m) == [i \in 1..n |-> r.p[i] + Digit(r.e, i, m)]

\* The digits of a number, when it is one more.
Turning(e, i, m) ==
    /\ (m + 1) % Stride(e, i + 1) = 0 <=> (m + 1) % Stride(e, i) = 0 /\ Digit(e, i, m) + 1 = e[i] + 1
    /\ (m + 1) % Stride(e, i + 1) = 0 => Digit(e, i, m + 1) = 0
    /\ (m + 1) % Stride(e, i) = 0 => (m + 1) \div Stride(e, i) = (m \div Stride(e, i)) + 1
    /\ (m + 1) % Stride(e, i) = 0 /\ Digit(e, i, m) # e[i] => Digit(e, i, m + 1) = Digit(e, i, m) + 1
    /\ (m + 1) % Stride(e, i) # 0 =>
           (m + 1) \div Stride(e, i) = m \div Stride(e, i) /\ Digit(e, i, m + 1) = Digit(e, i, m)

LEMMA DigitsTurn ==
    ASSUME NEW n \in Nat, NEW e \in Vec(n), \A i \in 1..n : 0 <= e[i], NEW m \in Nat, NEW i \in 1..n
    PROVE  /\ m \div Stride(e, i) \in Nat /\ Digit(e, i, m) \in 0..e[i]
           /\ Turning(e, i, m)
<1>. DEFINE d == Stride(e, i)
            s == e[i] + 1
            q == m \div d
            v == q % s
<1>1. d \in Nat \ {0} /\ s \in Nat \ {0} /\ Stride(e, i + 1) = d * s /\ e[i] \in Int
    <2>1. e[i] \in Int /\ i \in 1..(n + 1)
        BY DEF Vec
    <2>. QED  BY <2>1, Strides
<1>. HIDE DEF d, s
<1>2. q \in Nat /\ v \in 0..(s - 1) /\ q = s * (q \div s) + v /\ q \div s \in Nat
    BY <1>1, DivMod
<1>3. (m + 1) \div d = IF (m + 1) % d = 0 THEN q + 1 ELSE q
    BY <1>1, NextQuotient
<1>4. (m + 1) % (d * s) = 0 <=> (m + 1) % d = 0 /\ ((m + 1) \div d) % s = 0
    BY <1>1, m + 1 \in Nat, DivisionByProduct
<1>5. (q + 1) % s = IF v + 1 = s THEN 0 ELSE v + 1
    <2>. DEFINE u == q \div s
    <2>0. u \in Nat /\ q = s * u + v
        BY <1>2
    <2>. HIDE DEF q, v, u
    <2>1. CASE v + 1 = s
        <3>1. q + 1 = s * (u + 1) + 0 /\ u + 1 \in Nat /\ 0 \in 0..(s - 1)
            BY <1>1, <1>2, <2>0, <2>1
        <3>2. (s * (u + 1) + 0) % s = 0
            BY ONLY <1>1, <3>1, DivisionIsOnly
        <3>. QED  BY <2>1, <3>1, <3>2
    <2>2. CASE v + 1 # s
        <3>1. q + 1 = s * u + (v + 1) /\ v + 1 \in 0..(s - 1)
            BY <1>1, <1>2, <2>0, <2>2
        <3>2. (s * u + (v + 1)) % s = v + 1
            BY ONLY <1>1, <2>0, <3>1, DivisionIsOnly
        <3>. QED  BY <2>2, <3>1, <3>2
    <2>. QED  BY <2>1, <2>2
<1>. HIDE DEF q
<1>6. Digit(e, i, m) = v /\ Digit(e, i, m + 1) = ((m + 1) \div d) % s
    BY DEF Digit, d, s, q
<1>. HIDE DEF v
<1>7. v + 1 = s <=> v = e[i]
    BY <1>1, <1>2 DEF s
<1>8. v \in 0..e[i]
    BY <1>1, <1>2 DEF s
<1>9. CASE (m + 1) % d = 0
    <2>1. (m + 1) \div d = q + 1 /\ Digit(e, i, m + 1) = IF v + 1 = s THEN 0 ELSE v + 1
        BY <1>3, <1>5, <1>6, <1>9
    <2>2. v + 1 # 0
        BY <1>8
    <2>3. ((m + 1) \div d) % s = 0 <=> v + 1 = s
        BY <1>6, <2>1, <2>2
    <2>4. (m + 1) % Stride(e, i + 1) = 0 <=> v + 1 = s
        BY <1>1, <1>4, <1>9, <2>3
    <2>. QED  BY <1>2, <1>6, <1>7, <1>8, <1>9, <2>1, <2>4 DEF d, q, s, Turning
<1>10. CASE (m + 1) % d # 0
    <2>1. (m + 1) \div d = q /\ Digit(e, i, m + 1) = v
        BY <1>3, <1>6, <1>10 DEF v
    <2>2. (m + 1) % Stride(e, i + 1) # 0
        BY <1>1, <1>4, <1>10
    <2>. QED  BY <1>2, <1>6, <1>8, <1>10, <2>1, <2>2 DEF d, q, Turning
<1>. QED  BY <1>9, <1>10

\* The axes that turn over are the ones whose stride divides the next number.
LEMMA AxesTurn ==
    ASSUME NEW n \in Nat \ {0}, NEW e \in Vec(n), \A i \in 1..n : 0 <= e[i], NEW m \in Nat,
           NEW i \in Nat, i < n
    PROVE  (\A j \in 1..i : CursorAt(n, e, m)[j] + 1 = e[j] + 1) <=> (m + 1) % Stride(e, i + 1) = 0
<1>. DEFINE c == CursorAt(n, e, m)
            G == {k \in Nat : k < n => ((\A j \in 1..k : c[j] + 1 = e[j] + 1) <=> (m + 1) % Stride(e, k + 1) = 0)}
<1>0. n \in Nat /\ Stride(e, 1) = 1
    BY Strides
<1>1. 0 \in G
    <2>1. (m + 1) % 1 = 0
        BY DivMod
    <2>2. 0 + 1 = 1 /\ 1..0 = {}
        OBVIOUS
    <2>3. (m + 1) % Stride(e, 0 + 1) = 0
        BY ONLY <1>0, <2>1, <2>2
    <2>. QED  BY <2>2, <2>3
<1>2. ASSUME NEW k \in Nat, k \in G PROVE k + 1 \in G
    <2>. SUFFICES ASSUME k + 1 < n
                  PROVE  (\A j \in 1..(k + 1) : c[j] + 1 = e[j] + 1) <=> (m + 1) % Stride(e, k + 2) = 0
        OBVIOUS
    <2>1. (\A j \in 1..k : c[j] + 1 = e[j] + 1) <=> (m + 1) % Stride(e, k + 1) = 0
        BY <1>2
    <2>2. c[k + 1] = Digit(e, k + 1, m) /\ k + 1 \in 1..n /\ k + 1 + 1 = k + 2
        BY DEF CursorAt
    <2>. HIDE DEF c
    <2>3. (m + 1) % Stride(e, k + 2) = 0 <=> (m + 1) % Stride(e, k + 1) = 0 /\ c[k + 1] + 1 = e[k + 1] + 1
        <3>1. (m + 1) % Stride(e, k + 1 + 1) = 0
                  <=> (m + 1) % Stride(e, k + 1) = 0 /\ Digit(e, k + 1, m) + 1 = e[k + 1] + 1
            <4>1. Turning(e, k + 1, m)
                BY <1>0, <2>2, DigitsTurn
            <4>. QED  BY ONLY <4>1 DEF Turning
        <3>. QED  BY ONLY <2>2, <3>1
    <2>4. (\A j \in 1..(k + 1) : c[j] + 1 = e[j] + 1)
              <=> (\A j \in 1..k : c[j] + 1 = e[j] + 1) /\ c[k + 1] + 1 = e[k + 1] + 1
        <3>1. 1..(k + 1) = 1..k \union {k + 1}
            OBVIOUS
        <3>. QED  BY ONLY <3>1
    <2>. QED  BY ONLY <2>1, <2>3, <2>4
<1>3. Nat \subseteq G
    <2>. HIDE DEF G
    <2>. QED  BY <1>1, <1>2, Induction
<1>. QED  BY <1>3

\* The iterator after one step more.
LEMMA IncrementIs ==
    ASSUME NEW n \in Nat \ {0}, NEW e \in Vec(n), \A i \in 1..n : 0 <= e[i], NEW m \in Nat
    PROVE  increment([cursor |-> CursorAt(n, e, m), target |-> PlusScalar(e, 1)])
               = [cursor |-> CursorAt(n, e, m + 1), target |-> PlusScalar(e, 1)]
<1>. DEFINE c == CursorAt(n, e, m)
            t == PlusScalar(e, 1)
            it == [cursor |-> c, target |-> t]
            turned(i) == \A j \in 1..i : j < n /\ c[j] + 1 = t[j]
<1>0. n \in Nat /\ 1 \in Int
    OBVIOUS
<1>1. t \in Vec(n) /\ Len(t) = n /\ \A i \in 1..n : t[i] = e[i] + 1
    <2>1. t \in Vec(n) /\ \A i \in 1..n : t[i] = e[i] + 1
        BY <1>0, Scalings
    <2>. QED  BY <1>0, <2>1, Elements
<1>2. DOMAIN c = 1..n
    BY DEF CursorAt
<1>. HIDE DEF t
<1>3. increment(it) = [cursor |-> [i \in 1..n |-> IF turned(i) THEN 0 ELSE IF turned(i - 1) THEN c[i] + 1 ELSE c[i]],
                       target |-> t]
    <2>. HIDE DEF c
    <2>. QED  BY SMTT(40), <1>1, <1>2 DEF increment
<1>4. \A i \in Nat : i < n => (turned(i) <=> (m + 1) % Stride(e, i + 1) = 0)
    <2>. SUFFICES ASSUME NEW i \in Nat, i < n PROVE turned(i) <=> (m + 1) % Stride(e, i + 1) = 0
        OBVIOUS
    <2>1. (\A j \in 1..i : c[j] + 1 = e[j] + 1) <=> (m + 1) % Stride(e, i + 1) = 0
        BY AxesTurn
    <2>2. \A j \in 1..i : j < n /\ j \in 1..n
        OBVIOUS
    <2>. HIDE DEF c
    <2>. QED  BY <1>1, <2>1, <2>2
<1>5. ~turned(n)
    <2>1. n \in 1..n /\ ~(n < n)
        OBVIOUS
    <2>. QED  BY <2>1
<1>. HIDE DEF turned
<1>6. ASSUME NEW i \in 1..n
      PROVE  (IF turned(i) THEN 0 ELSE IF turned(i - 1) THEN c[i] + 1 ELSE c[i]) = CursorAt(n, e, m + 1)[i]
    <2>0. i - 1 \in Nat /\ i - 1 < n /\ i - 1 + 1 = i /\ i \in Nat
        OBVIOUS
    <2>1. turned(i - 1) <=> (m + 1) % Stride(e, i) = 0
        BY <1>4, <2>0
    <2>2. /\ (m + 1) % Stride(e, i + 1) = 0 <=> (m + 1) % Stride(e, i) = 0 /\ Digit(e, i, m) + 1 = e[i] + 1
          /\ (m + 1) % Stride(e, i + 1) = 0 => Digit(e, i, m + 1) = 0
          /\ (m + 1) % Stride(e, i) = 0 => (m + 1) \div Stride(e, i) = (m \div Stride(e, i)) + 1
          /\ (m + 1) % Stride(e, i) = 0 /\ Digit(e, i, m) # e[i] => Digit(e, i, m + 1) = Digit(e, i, m) + 1
          /\ (m + 1) % Stride(e, i) # 0 =>
                 (m + 1) \div Stride(e, i) = m \div Stride(e, i) /\ Digit(e, i, m + 1) = Digit(e, i, m)
        <3>0. /\ n \in Nat /\ e \in Vec(n) /\ m \in Nat /\ i \in 1..n
              /\ \A j \in 1..n : 0 <= e[j]
            BY <1>0
        <3>1. Turning(e, i, m)
            BY ONLY <3>0, DigitsTurn
        <3>. QED  BY ONLY <3>1 DEF Turning
    <2>3. CASE i = n
        <3>1. c[i] = m \div Stride(e, i) /\ CursorAt(n, e, m + 1)[i] = (m + 1) \div Stride(e, i)
            BY <2>3 DEF CursorAt
        <3>. HIDE DEF c
        <3>. QED  BY <1>5, <2>1, <2>2, <2>3, <3>1
    <2>4. CASE i # n
        <3>1. c[i] = Digit(e, i, m) /\ CursorAt(n, e, m + 1)[i] = Digit(e, i, m + 1)
            BY <2>4 DEF CursorAt
        <3>2. turned(i) <=> (m + 1) % Stride(e, i + 1) = 0
            BY <1>4, <2>0, <2>4
        <3>3. e[i] \in Int
            BY DEF Vec
        <3>4. Digit(e, i, m) = e[i] => Digit(e, i, m) + 1 = e[i] + 1
            OBVIOUS
        <3>. HIDE DEF c
        <3>. QED  BY <2>1, <2>2, <3>1, <3>2, <3>4
    <2>. QED  BY <2>3, <2>4
<1>7. [i \in 1..n |-> IF turned(i) THEN 0 ELSE IF turned(i - 1) THEN c[i] + 1 ELSE c[i]] = CursorAt(n, e, m + 1)
    <2>1. CursorAt(n, e, m + 1) = [i \in 1..n |-> CursorAt(n, e, m + 1)[i]]
        BY DEF CursorAt
    <2>. HIDE DEF c
    <2>. QED  BY <1>6, <2>1
<1>. QED  BY <1>3, <1>7 DEF t

\* Every stride divides the last.
LEMMA StridesDivide ==
    ASSUME NEW n \in Nat, NEW e \in Vec(n), \A i \in 1..n : 0 <= e[i], NEW i \in 1..(n + 1)
    PROVE  Stride(e, n + 1) % Stride(e, i) = 0
<1>. DEFINE full == Stride(e, n + 1)
            G == {k \in Nat : k <= n => full % Stride(e, n + 1 - k) = 0}
<1>1. full \in Nat \ {0}
    BY Strides, n + 1 \in 1..(n + 1)
<1>2. 0 \in G
    <2>1. full = full * 1 + 0 /\ 0 \in 0..(full - 1)
        BY <1>1
    <2>2. full % full = 0
        BY ONLY <1>1, <2>1, 1 \in Nat, DivisionIsOnly
    <2>3. n + 1 - 0 = n + 1
        OBVIOUS
    <2>. HIDE DEF full
    <2>4. full % Stride(e, n + 1 - 0) = 0
        BY ONLY <2>2, <2>3 DEF full
    <2>. QED  BY <2>4
<1>. HIDE DEF full
<1>3. ASSUME NEW k \in Nat, k \in G PROVE k + 1 \in G
    <2>. SUFFICES ASSUME k + 1 <= n PROVE full % Stride(e, n + 1 - (k + 1)) = 0
        OBVIOUS
    <2>. DEFINE j == n - k
    <2>1. j \in 1..n /\ n + 1 - (k + 1) = j /\ n + 1 - k = j + 1 /\ j \in 1..(n + 1)
        OBVIOUS
    <2>2. full % Stride(e, j + 1) = 0
        BY <1>3, <2>1
    <2>. HIDE DEF j
    <2>3. /\ Stride(e, j + 1) = Stride(e, j) * (e[j] + 1) /\ Stride(e, j) \in Nat \ {0}
          /\ e[j] + 1 \in Nat \ {0}
        BY <2>1, Strides
    <2>4. full % Stride(e, j) = 0
        BY <1>1, <2>2, <2>3, DivisionByProduct
    <2>. QED  BY <2>1, <2>4
<1>4. Nat \subseteq G
    <2>. HIDE DEF G
    <2>. QED  BY <1>2, <1>3, Induction
<1>5. n + 1 - i \in G /\ n + 1 - i <= n /\ n + 1 - (n + 1 - i) = i
    BY <1>4
<1>. QED  BY <1>5 DEF full

\* The iterator is at its end when it has been everywhere, and not before.
LEMMA EndIs ==
    ASSUME NEW n \in Nat \ {0}, NEW e \in Vec(n), \A i \in 1..n : 0 <= e[i],
           NEW m \in Nat, m <= Stride(e, n + 1)
    PROVE  /\ CursorAt(n, e, m) = end(PlusScalar(e, 1)).cursor <=> m = Stride(e, n + 1)
           /\ m # Stride(e, n + 1) => m \div Stride(e, n) < e[n] + 1
<1>. DEFINE t == PlusScalar(e, 1)
            stop == end(t).cursor
            d == Stride(e, n)
            s == e[n] + 1
<1>0. n \in Nat /\ 1 \in Int /\ n \in 1..n /\ n \in 1..(n + 1)
    OBVIOUS
<1>1. t \in Vec(n) /\ Len(t) = n /\ DOMAIN t = 1..n /\ \A i \in 1..n : t[i] = e[i] + 1
    <2>1. t \in Vec(n) /\ \A i \in 1..n : t[i] = e[i] + 1
        BY ZenonT(60), <1>0, Scalings
    <2>. QED  BY <1>0, <2>1, Elements
<1>. HIDE DEF t
<1>2. stop = [i \in 1..n |-> IF i = n THEN s ELSE 0]
    BY <1>0, <1>1 DEF end
<1>. HIDE DEF stop
<1>3. d \in Nat \ {0} /\ s \in Nat \ {0} /\ Stride(e, n + 1) = d * s
    BY <1>0, Strides
<1>4. m \div d \in Nat /\ m % d \in 0..(d - 1) /\ m = d * (m \div d) + (m % d)
    BY <1>3, DivMod
<1>5. ASSUME m = Stride(e, n + 1) PROVE CursorAt(n, e, m) = stop
    <2>1. m \div d = s
        <3>1. m = d * s + 0 /\ s \in Nat /\ 0 \in 0..(d - 1)
            BY <1>3, <1>5
        <3>2. (d * s + 0) \div d = s
            BY ONLY <1>3, <3>1, DivisionIsOnly
        <3>. QED  BY ONLY <3>1, <3>2
    <2>2. \A i \in 1..n : i # n => Digit(e, i, m) = 0
        <3>. SUFFICES ASSUME NEW i \in 1..n, i # n PROVE Digit(e, i, m) = 0
            OBVIOUS
        <3>1. i \in 1..(n + 1) /\ i + 1 \in 1..(n + 1)
            BY <1>0
        <3>2. m % Stride(e, i + 1) = 0
            BY <1>0, <1>5, <3>1, StridesDivide
        <3>3. /\ Stride(e, i + 1) = Stride(e, i) * (e[i] + 1) /\ Stride(e, i) \in Nat \ {0}
              /\ e[i] + 1 \in Nat \ {0}
            BY <1>0, <3>1, Strides
        <3>. QED  BY <3>2, <3>3, DivisionByProduct DEF Digit
    <2>3. \A i \in 1..n : (IF i = n THEN m \div d ELSE Digit(e, i, m)) = (IF i = n THEN s ELSE 0)
        BY <2>1, <2>2
    <2>4. CursorAt(n, e, m) = [i \in 1..n |-> IF i = n THEN m \div d ELSE Digit(e, i, m)]
        BY DEF CursorAt
    <2>. QED  BY ONLY <1>2, <2>3, <2>4
<1>6. ASSUME CursorAt(n, e, m) = stop PROVE m = Stride(e, n + 1)
    <2>1. m \div d = s
        <3>1. CursorAt(n, e, m)[n] = m \div d /\ stop[n] = s
            BY <1>0, <1>2 DEF CursorAt
        <3>. QED  BY <1>6, <3>1
    <2>2. m = d * s + (m % d) /\ m % d \in 0..(d - 1)
        BY ONLY <1>4, <2>1
    <2>3. d * s \in Nat
        BY <1>3
    <2>. DEFINE w == d * s
                v == m % d
    <2>. HIDE DEF w, v, d, s
    <2>4. m = w + v /\ v \in 0..(d - 1) /\ w \in Nat /\ m <= w /\ d \in Nat
        BY <1>3, <2>2, <2>3 DEF w, v
    <2>5. m = w
        BY ONLY <2>4
    <2>. QED  BY ONLY <1>3, <2>5 DEF w
<1>7. ASSUME m # Stride(e, n + 1) PROVE m \div d < s
    <2>. DEFINE q == m \div d
                v == m % d
                u == q - s
    <2>0. q \in Nat /\ v \in 0..(d - 1) /\ m = d * q + v
        BY ONLY <1>4
    <2>. HIDE DEF q, v, d, s
    <2>1. ASSUME s <= q PROVE FALSE
        <3>1. u \in Nat /\ q = s + u
            BY <1>3, <2>0, <2>1 DEF u
        <3>. HIDE DEF u
        <3>2. d * q = d * s + d * u /\ d * s \in Nat /\ d * u \in Nat
            BY ONLY <1>3, <3>1
        <3>3. m # d * s /\ m <= d * s
            BY <1>3, <1>7
        <3>. DEFINE ds == d * s
                    du == d * u
        <3>. HIDE DEF ds, du
        <3>4. m = ds + du + v /\ ds \in Nat /\ du \in Nat /\ m # ds /\ m <= ds /\ v \in 0..(d - 1) /\ d \in Nat
            BY ONLY <1>3, <2>0, <3>2, <3>3 DEF ds, du
        <3>. QED  BY ONLY <3>4
    <2>. QED  BY <1>3, <2>0, <2>1 DEF q
<1>. QED  BY <1>5, <1>6, <1>7 DEF stop, t

\* What the iterator gives there.
LEMMA YieldIs ==
    ASSUME NEW n \in Nat \ {0}, NEW r \in Regs(n), NEW m \in Nat,
           m <= Stride(r.e, n + 1), m # Stride(r.e, n + 1)
    PROVE  Plus(CursorAt(n, r.e, m), r.p) = PointAt(n, r, m) /\ PointAt(n, r, m) \in Vec(n)
<1>0. n \in Nat /\ n \in 1..n
    OBVIOUS
<1>. DEFINE e == r.e
            c == CursorAt(n, e, m)
<1>1. /\ r.p \in Vec(n) /\ e \in Vec(n)
      /\ \A i \in 1..n : r.p[i] \in Int /\ e[i] \in Int /\ 0 <= e[i]
    BY RegionIs
<1>. HIDE DEF e
<1>2. \A i \in 1..n : Digit(e, i, m) \in 0..e[i] /\ m \div Stride(e, i) \in Nat
    BY ONLY <1>0, <1>1, m \in Nat, DigitsTurn
<1>3. m \div Stride(e, n) = Digit(e, n, m)
    <2>1. m \div Stride(e, n) < e[n] + 1
        BY <1>1, EndIs DEF e
    <2>2. m \div Stride(e, n) \in Nat /\ e[n] + 1 \in Nat \ {0}
        BY <1>0, <1>1, <1>2
    <2>. DEFINE q == m \div Stride(e, n)
                s == e[n] + 1
    <2>. HIDE DEF q, s
    <2>3. q \in Nat /\ s \in Nat \ {0} /\ q < s
        BY ONLY <2>1, <2>2 DEF q, s
    <2>4. q \in 0..(s - 1) /\ s * 0 + q = q /\ 0 \in Nat
        BY ONLY <2>3
    <2>5. (s * 0 + q) % s = q
        BY ONLY <2>3, <2>4, DivisionIsOnly
    <2>6. q % s = q
        BY ONLY <2>4, <2>5
    <2>. QED  BY ONLY <2>6 DEF Digit, q, s
<1>4. c = [i \in 1..n |-> Digit(e, i, m)] /\ c \in Vec(n)
    <2>1. \A i \in 1..n : (IF i = n THEN m \div Stride(e, n) ELSE Digit(e, i, m)) = Digit(e, i, m)
        BY <1>3
    <2>2. c = [i \in 1..n |-> IF i = n THEN m \div Stride(e, n) ELSE Digit(e, i, m)]
        BY DEF CursorAt
    <2>3. c = [i \in 1..n |-> Digit(e, i, m)]
        BY ONLY <2>1, <2>2
    <2>4. \A i \in 1..n : Digit(e, i, m) \in Int
        BY <1>1, <1>2
    <2>. HIDE DEF c
    <2>. QED  BY <2>3, <2>4 DEF Vec
<1>5. PointAt(n, r, m) \in Vec(n) /\ \A i \in 1..n : PointAt(n, r, m)[i] = r.p[i] + Digit(e, i, m)
    <2>1. PointAt(n, r, m) = [i \in 1..n |-> r.p[i] + Digit(e, i, m)]
        BY DEF PointAt, e
    <2>2. \A i \in 1..n : r.p[i] + Digit(e, i, m) \in Int
        BY <1>1, <1>2
    <2>. QED  BY <2>1, <2>2 DEF Vec
<1>. HIDE DEF c
<1>6. Plus(c, r.p) \in Vec(n) /\ \A i \in 1..n : Plus(c, r.p)[i] = c[i] + r.p[i]
    BY ONLY ZenonT(60), <1>0, <1>1, <1>4, Additions
<1>7. \A i \in 1..n : Plus(c, r.p)[i] = PointAt(n, r, m)[i]
    <2>1. \A i \in 1..n : Digit(e, i, m) \in Int /\ r.p[i] \in Int /\ c[i] = Digit(e, i, m)
        BY <1>1, <1>2, <1>4
    <2>. QED  BY <1>5, <1>6, <2>1
<1>. QED  BY <1>0, <1>5, <1>6, <1>7, SameElements DEF c, e

-----------------------------------------------------------------------------
(* The invariant.                                                          *)

\* A walk has yielded the points before the one it is at.
Walked(n) ==
    inner # Resting =>
        /\ inner = [cursor |-> CursorAt(n, area.e, Len(visited)), target |-> PlusScalar(area.e, 1)]
        /\ visited \in Seq(Vec(n)) /\ Len(visited) <= Stride(area.e, n + 1)
        /\ \A i \in 1..Len(visited) : visited[i] = PointAt(n, area, i - 1)

LEMMA CursorStarts ==
    ASSUME NEW n \in Nat \ {0}, NEW e \in Vec(n), \A i \in 1..n : 0 <= e[i]
    PROVE  begin(PlusScalar(e, 1)) = [cursor |-> CursorAt(n, e, 0), target |-> PlusScalar(e, 1)]
<1>0. n \in Nat /\ 1 \in Int
    OBVIOUS
<1>1. Len(PlusScalar(e, 1)) = n
    <2>1. PlusScalar(e, 1) \in Vec(n)
        BY <1>0, Scalings
    <2>. QED  BY <1>0, <2>1, Elements
<1>2. ASSUME NEW i \in 1..n PROVE 0 \div Stride(e, i) = 0 /\ Digit(e, i, 0) = 0
    <2>. DEFINE d == Stride(e, i)
                s == e[i] + 1
    <2>1. d \in Nat \ {0} /\ s \in Nat \ {0}
        <3>1. i \in 1..(n + 1)
            BY <1>0
        <3>. QED  BY <1>0, <3>1, Strides
    <2>. HIDE DEF d, s
    <2>2. d * 0 + 0 = 0 /\ s * 0 + 0 = 0 /\ 0 \in 0..(d - 1) /\ 0 \in 0..(s - 1) /\ 0 \in Nat
        BY ONLY <2>1
    <2>3. (d * 0 + 0) \div d = 0 /\ (s * 0 + 0) % s = 0
        BY ONLY <2>1, <2>2, DivisionIsOnly
    <2>4. 0 \div d = 0 /\ 0 % s = 0
        BY ONLY <2>2, <2>3
    <2>. QED  BY ONLY <2>4 DEF Digit, d, s
<1>3. CursorAt(n, e, 0) = origin(n)
    <2>1. \A i \in 1..n : (IF i = n THEN 0 \div Stride(e, n) ELSE Digit(e, i, 0)) = 0
        BY <1>2
    <2>2. CursorAt(n, e, 0) = [i \in 1..n |-> IF i = n THEN 0 \div Stride(e, n) ELSE Digit(e, i, 0)]
        BY DEF CursorAt
    <2>. QED  BY ONLY <2>1, <2>2 DEF origin, Fill
<1>. QED  BY ONLY <1>1, <1>3 DEF begin

LEMMA EqualStops ==
    ASSUME NEW a, NEW b, a = b
    PROVE  ~Unequal(a, b)
BY DEF Unequal, any, compare, Functor

LEMMA WalkBegins ==
    ASSUME NEW n, Grown(n), BeginWalk
    PROVE  Walked(n)'
<1>1. n \in Nat \ {0} /\ n \in Nat /\ area \in Regs(n)
    BY DEF Grown, Tight
<1>2. area.e \in Vec(n) /\ \A i \in 1..n : 0 <= area.e[i]
    BY <1>1, RegionIs
<1>3. inner' = [cursor |-> CursorAt(n, area.e, 0), target |-> PlusScalar(area.e, 1)]
    BY ONLY <1>1, <1>2, CursorStarts, BeginWalk DEF BeginWalk
<1>4. visited' = <<>> /\ area' = area
    BY DEF BeginWalk
<1>5. Len(visited') = 0 /\ visited' \in Seq(Vec(n))
    BY <1>4
<1>6. Stride(area.e, n + 1) \in Nat \ {0}
    BY <1>1, <1>2, n + 1 \in 1..(n + 1), Strides
<1>. QED  BY <1>3, <1>4, <1>5, <1>6 DEF Walked

LEMMA WalkSteps ==
    ASSUME NEW n, Grown(n), Walked(n), StepWalk
    PROVE  Walked(n)'
<1>. DEFINE m == Len(visited)
            e == area.e
            t == PlusScalar(e, 1)
<1>1. n \in Nat \ {0} /\ n \in Nat /\ area \in Regs(n)
    BY DEF Grown, Tight
<1>2. e \in Vec(n) /\ \A i \in 1..n : 0 <= e[i]
    BY <1>1, RegionIs
<1>3. /\ inner = [cursor |-> CursorAt(n, e, m), target |-> t]
      /\ visited \in Seq(Vec(n)) /\ m <= Stride(e, n + 1)
      /\ \A i \in 1..m : visited[i] = PointAt(n, area, i - 1)
    BY DEF Walked, StepWalk
<1>4. m \in Nat
    BY <1>3
<1>5. inner.cursor = CursorAt(n, e, m) /\ inner.target = t
    BY <1>3
<1>. HIDE DEF m, e, t
<1>6. CursorAt(n, e, m) # end(t).cursor
    <2>1. Unequal(CursorAt(n, e, m), end(t).cursor)
        BY <1>5 DEF StepWalk
    <2>. QED  BY ONLY <2>1, EqualStops
<1>7. m # Stride(e, n + 1)
    BY ONLY <1>1, <1>2, <1>3, <1>4, <1>6, EndIs DEF t
<1>8. Plus(CursorAt(n, e, m), area.p) = PointAt(n, area, m) /\ PointAt(n, area, m) \in Vec(n)
    BY ONLY <1>1, <1>3, <1>4, <1>7, YieldIs DEF e
<1>9. visited' = Append(visited, PointAt(n, area, m)) /\ inner' = increment(inner) /\ area' = area
    BY <1>5, <1>8 DEF StepWalk
<1>10. inner' = [cursor |-> CursorAt(n, e, m + 1), target |-> t]
    BY ONLY <1>1, <1>2, <1>3, <1>4, <1>9, IncrementIs DEF t
<1>11. /\ visited' \in Seq(Vec(n)) /\ Len(visited') = m + 1
       /\ \A i \in 1..m : visited'[i] = visited[i]
       /\ visited'[m + 1] = PointAt(n, area, m)
    BY ONLY <1>3, <1>8, <1>9 DEF m
<1>12. \A i \in 1..(m + 1) : visited'[i] = PointAt(n, area, i - 1)
    <2>. SUFFICES ASSUME NEW i \in 1..(m + 1) PROVE visited'[i] = PointAt(n, area, i - 1)
        OBVIOUS
    <2>1. CASE i = m + 1
        <3>1. i - 1 = m
            BY <1>4, <2>1
        <3>. QED  BY ONLY <1>11, <2>1, <3>1
    <2>2. CASE i # m + 1
        <3>1. i \in 1..m
            BY <1>4, <2>2
        <3>. QED  BY ONLY <1>3, <1>11, <3>1
    <2>. QED  BY <2>1, <2>2
<1>13. m + 1 <= Stride(e, n + 1)
    <2>1. Stride(e, n + 1) \in Nat \ {0}
        BY <1>1, <1>2, n + 1 \in 1..(n + 1), Strides
    <2>. QED  BY ONLY <1>3, <1>4, <1>7, <2>1
<1>14. area'.e = e
    BY <1>9 DEF e
<1>. QED  BY <1>9, <1>10, <1>11, <1>12, <1>13, <1>14 DEF Walked, t

-----------------------------------------------------------------------------
RegionInv == \E n \in Nat \ {0} : Grown(n) /\ Walked(n)

LEMMA RegionInvInit ==
    ASSUME RegionInit
    PROVE  RegionInv
<1>1. PICK p \in Points : /\ box = [p0 |-> p, p1 |-> p] /\ area = Region(p, origin(Len(p)))
                          /\ reach = Span(p[1], p[1]) /\ seen = {p}
    BY DEF RegionInit
<1>. DEFINE n == Len(p)
<1>2. p \in Seq(Int) /\ p # <<>>
    BY RegionsAssumption
<1>3. n \in Nat \ {0} /\ p \in Vec(n)
    <2>1. n \in Nat /\ n # 0
        BY <1>2, EmptySeq, LenProperties
    <2>2. p \in Vec(n)
        BY <1>2, SequencesAre
    <2>. QED  BY <2>1, <2>2
<1>. HIDE DEF n
<1>4. Tight(n, area, seen) /\ box = BoxOf(area) /\ reach = ReachOf(area)
    BY <1>1, <1>3, TightStarts DEF n
<1>5. inner = Resting
    BY DEF RegionInit
<1>. QED  BY <1>3, <1>4, <1>5 DEF RegionInv, Grown, Walked

LEMMA RegionInvNext ==
    ASSUME RegionInv, [RegionNext]_regionVars
    PROVE  RegionInv'
<1>1. PICK n \in Nat \ {0} : Grown(n) /\ Walked(n)
    BY DEF RegionInv
<1>2. area \in Regs(n) /\ Tight(n, area, seen) /\ box = BoxOf(area) /\ reach = ReachOf(area) /\ n \in Nat
    BY <1>1 DEF Grown, Tight
<1>3. Len(area.p) = n
    BY <1>2, RegionIs, Elements
<1>4. ASSUME NEW x \in Seq(Int), Len(x) = Len(area.p) PROVE x \in Vec(n)
    BY <1>3, <1>4, SequencesAre
<1>5. ASSUME NEW p \in Alike(Points), Cover(p) PROVE Grown(n)' /\ Walked(n)'
    <2>1. p \in Vec(n)
        BY <1>4, RegionsAssumption DEF Alike
    <2>2. /\ cover(BoxOf(area), p) = BoxOf(make_union(area, p))
          /\ range_expand(ReachOf(area), p[1]) = ReachOf(make_union(area, p))
        BY <1>1, <1>2, <2>1, UnionIs
    <2>3. Tight(n, make_union(area, p), seen \union {p})
        BY <1>1, <1>2, <2>1, TightGrows
    <2>4. /\ area' = make_union(area, p) /\ seen' = seen \union {p} /\ box' = cover(box, p)
          /\ reach' = range_expand(reach, p[1]) /\ inner' = Resting
        BY <1>5 DEF Cover
    <2>5. Tight(n, area', seen') /\ box' = BoxOf(area') /\ reach' = ReachOf(area')
        BY ONLY <1>2, <2>2, <2>3, <2>4
    <2>. QED  BY <1>1, <2>4, <2>5 DEF Grown, Tight, Walked, BoxOf, ReachOf, Resting
<1>6. ASSUME NEW v \in Alike(Offsets), Move(v) PROVE Grown(n)' /\ Walked(n)'
    <2>1. v \in Vec(n)
        BY <1>4, RegionsAssumption DEF Alike
    <2>2. /\ aabb_move(BoxOf(area), v) = BoxOf(move(area, v))
          /\ range_minus(ReachOf(area), -v[1]) = ReachOf(move(area, v))
        BY <1>1, <1>2, <2>1, MovedIs
    <2>3. Tight(n, move(area, v), {Plus(q, v) : q \in seen})
        BY <1>1, <1>2, <2>1, TightMoves
    <2>4. /\ area' = move(area, v) /\ seen' = {Plus(q, v) : q \in seen} /\ box' = aabb_move(box, v)
          /\ reach' = range_minus(reach, -v[1]) /\ inner' = Resting
        BY <1>6 DEF Move
    <2>5. Tight(n, area', seen') /\ box' = BoxOf(area') /\ reach' = ReachOf(area')
        BY ONLY <1>2, <2>2, <2>3, <2>4
    <2>. QED  BY <1>1, <2>4, <2>5 DEF Grown, Tight, Walked, BoxOf, ReachOf, Resting
<1>7. ASSUME BeginWalk PROVE Grown(n)' /\ Walked(n)'
    <2>1. Walked(n)'
        BY <1>1, <1>7, WalkBegins
    <2>2. UNCHANGED <<box, area, reach, seen>>
        BY <1>7 DEF BeginWalk
    <2>. QED  BY <1>1, <2>1, <2>2 DEF Grown, Tight, BoxOf, ReachOf
<1>8. ASSUME StepWalk PROVE Grown(n)' /\ Walked(n)'
    <2>1. Walked(n)'
        BY <1>1, <1>8, WalkSteps
    <2>2. UNCHANGED <<box, area, reach, seen>>
        BY <1>8 DEF StepWalk
    <2>. QED  BY <1>1, <2>1, <2>2 DEF Grown, Tight, BoxOf, ReachOf
<1>9. ASSUME UNCHANGED regionVars PROVE Grown(n)' /\ Walked(n)'
    BY <1>1, <1>9 DEF regionVars, Grown, Tight, Walked, BoxOf, ReachOf, Resting
<1>10. Grown(n)' /\ Walked(n)'
    BY <1>5, <1>6, <1>7, <1>8, <1>9 DEF RegionNext
<1>. QED  BY <1>1, <1>10 DEF RegionInv

-----------------------------------------------------------------------------
(* What follows from it.                                                   *)

\* A region of as many axes among the others.
LEMMA NeighboursAre ==
    ASSUME NEW n, Grown(n), NEW s \in Neighbours
    PROVE  /\ n \in Nat \ {0} /\ n \in Nat /\ area \in Regs(n) /\ s \in Regs(n)
           /\ box = BoxOf(area) /\ reach = ReachOf(area) /\ Len(area.p) = n
<1>1. n \in Nat \ {0} /\ n \in Nat /\ area \in Regs(n) /\ box = BoxOf(area) /\ reach = ReachOf(area)
    BY DEF Grown, Tight
<1>2. Len(area.p) = n
    BY <1>1, RegionIs, Elements
<1>3. /\ s \in [p : Seq(Int), e : Seq(Int)] /\ Len(s.p) = n /\ Len(s.e) = n
      /\ \A i \in DOMAIN s.e : s.e[i] >= 0
    BY <1>2, RegionsAssumption DEF Neighbours
<1>4. s.p \in Vec(n) /\ s.e \in Vec(n)
    BY <1>3, SequencesAre
<1>5. \A i \in 1..n : 0 <= s.e[i]
    <2>1. DOMAIN s.e = 1..n
        BY <1>1, <1>4, Elements
    <2>2. \A i \in 1..n : s.e[i] \in Int
        BY <1>1, <1>4, Elements
    <2>. QED  BY <1>3, <2>1, <2>2
<1>6. s = [p |-> s.p, e |-> s.e]
    BY <1>3
<1>7. s \in Regs(n)
    BY <1>4, <1>5, <1>6 DEF Regs
<1>. QED  BY <1>1, <1>2, <1>7

LEMMA SetsOfPointsHold ==
    ASSUME NEW n, Grown(n)
    PROVE  SetsOfPoints
<1>. SUFFICES ASSUME NEW s \in Neighbours
              PROVE  /\ covers(area, s) = (Inside(s) \subseteq Inside(area))
                     /\ overlaps(area, s) = (Inside(s) \intersect Inside(area) # {})
                     /\ overlaps(area, s) => Inside(intersection(area, s)) = Inside(s) \intersect Inside(area)
                     /\ intersects(area, s) => overlaps(area, s)
                     /\ ~extent_empty(area.e) /\ ~extent_empty(s.e) =>
                            intersects(area, s) = (Cells(s) \intersect Cells(area) # {})
                     /\ \A q \in Inside(s) : /\ inclusive(area, q) = (q \in Inside(area))
                                             /\ exclusive(area, q) = (q \in Cells(area))
    BY DEF SetsOfPoints
<1>1. n \in Nat \ {0} /\ area \in Regs(n) /\ s \in Regs(n)
    BY NeighboursAre
<1>2. /\ covers(area, s) \in BOOLEAN /\ overlaps(area, s) \in BOOLEAN /\ intersects(area, s) \in BOOLEAN
      /\ \A q : inclusive(area, q) \in BOOLEAN /\ exclusive(area, q) \in BOOLEAN
    BY DEF covers, overlaps, intersects, inclusive, exclusive, all
<1>3. /\ covers(area, s) <=> Inside(s) \subseteq Inside(area)
      /\ overlaps(area, s) <=> Inside(s) \intersect Inside(area) # {}
      /\ overlaps(area, s) => Inside(intersection(area, s)) = Inside(s) \intersect Inside(area)
      /\ intersects(area, s) => overlaps(area, s)
      /\ ~extent_empty(area.e) /\ ~extent_empty(s.e) =>
             (intersects(area, s) <=> Cells(s) \intersect Cells(area) # {})
      /\ \A q \in Inside(s) : /\ inclusive(area, q) <=> q \in Inside(area)
                              /\ exclusive(area, q) <=> q \in Cells(area)
    BY ONLY <1>1, SetsAgree
<1>. QED  BY ONLY <1>2, <1>3

LEMMA NearestHolds ==
    ASSUME NEW n, Grown(n)
    PROVE  Nearest
<1>. SUFFICES ASSUME NEW s \in Neighbours
              PROVE  LET q == s.p
                         near == constrain(area, q)
                     IN /\ near \in Inside(area) /\ near = aabb_closest(box, q)
                        /\ \A other \in Inside(area) :
                               /\ manhattan(q, near) <= manhattan(q, other)
                               /\ chebyshev(q, near) <= chebyshev(q, other)
                               /\ distance2(q, near) <= distance2(q, other)
                        /\ near[1] = range_clamp(reach, q[1])
                        /\ range_contains(reach, q[1]) = (near[1] = q[1])
                        /\ (closest(area, q) = near) =
                               (\A i \in DOMAIN q : q[i] <= area.p[i] \/ q[i] >= away(area)[i])
                        /\ chebyshev(q, near) <= manhattan(q, near)
                        /\ chebyshev(q, near) * chebyshev(q, near) <= distance2(q, near)
                        /\ distance2(q, near) <= manhattan(q, near) * manhattan(q, near)
    BY DEF Nearest
<1>. DEFINE q == s.p
            near == constrain(area, q)
            span == Span(area.p[1], away(area)[1])
<1>1. n \in Nat \ {0} /\ area \in Regs(n) /\ s \in Regs(n) /\ box = BoxOf(area) /\ reach = ReachOf(area)
    BY NeighboursAre
<1>2. q \in Vec(n)
    BY <1>1, RegionIs
<1>. HIDE DEF q
<1>3. /\ near \in Inside(area) /\ near = aabb_closest([p0 |-> area.p, p1 |-> away(area)], q)
      /\ \A other \in Inside(area) :
             /\ manhattan(q, near) <= manhattan(q, other)
             /\ chebyshev(q, near) <= chebyshev(q, other)
             /\ distance2(q, near) <= distance2(q, other)
      /\ near[1] = range_clamp(span, q[1])
      /\ range_contains(span, q[1]) <=> near[1] = q[1]
      /\ closest(area, q) = near <=> \A i \in DOMAIN q : q[i] <= area.p[i] \/ q[i] >= away(area)[i]
    BY ONLY <1>1, <1>2, NearestIs
<1>4. near \in Vec(n)
    BY ONLY <1>1, <1>2, Constrained
<1>. HIDE DEF near
<1>5. /\ chebyshev(q, near) <= manhattan(q, near)
      /\ chebyshev(q, near) * chebyshev(q, near) <= distance2(q, near)
      /\ distance2(q, near) <= manhattan(q, near) * manhattan(q, near)
    BY ONLY <1>1, <1>2, <1>4, MeasuresInOrder
<1>6. range_contains(reach, q[1]) \in BOOLEAN
    BY DEF range_contains
<1>7. box = [p0 |-> area.p, p1 |-> away(area)] /\ reach = span
    BY <1>1 DEF BoxOf, ReachOf
<1>8. range_contains(reach, q[1]) = (near[1] = q[1]) /\ near[1] = range_clamp(reach, q[1])
    BY ONLY <1>3, <1>6, <1>7
<1>9. (closest(area, q) = near) = (\A i \in DOMAIN q : q[i] <= area.p[i] \/ q[i] >= away(area)[i])
    BY ONLY <1>3
<1>10. near = aabb_closest(box, q)
    BY ONLY <1>3, <1>7
<1>. QED  BY <1>3, <1>5, <1>8, <1>9, <1>10 DEF near, q

LEMMA MarginsHold ==
    ASSUME NEW n, Grown(n)
    PROVE  Margins
<1>. SUFFICES ASSUME NEW v \in Alike(Offsets)
              PROVE  LET wide == abs(v)
                     IN /\ has_room(expand(area, wide), wide) /\ inset(expand(area, wide), wide) = area
                        /\ has_room(area, wide) => covers(area, inset(area, wide))
                        /\ covers(expand(area, wide), area)
    BY DEF Margins
<1>1. n \in Nat \ {0} /\ n \in Nat /\ area \in Regs(n)
    BY DEF Grown, Tight
<1>2. Len(area.p) = n
    BY <1>1, RegionIs, Elements
<1>3. v \in Vec(n)
    BY <1>2, SequencesAre, RegionsAssumption DEF Alike
<1>. QED  BY ONLY <1>1, <1>3, MarginsKept

LEMMA VectorsHold ==
    ASSUME NEW n, Grown(n)
    PROVE  Vectors
<1>. SUFFICES ASSUME NEW s \in Neighbours
              PROVE  LET a == area.p
                         b == away(s)
                         size == Len(a)
                     IN /\ Unequal(a, b) = ~Equal(a, b)
                        /\ Equal(a, b) = almost_zero(PointDifference(a, b))
                        /\ any(Not(Less(a, b))) = ~all(Less(a, b))
                        /\ Plus(min2(a, b), max2(a, b)) = Plus(a, b)
                        /\ select(Less(a, b), a, b) = min2(a, b)
                        /\ Plus(ScalarTimes(3, DividesScalar(a, 3)), mod(a, 3)) = a
                        /\ norm2(Minus(a, b)) = distance2(a, b) /\ Negate(to(a, b)) = from(a, b)
                        /\ redim(redim_fill(a, size + 2, 7), size) = a
                        /\ redim(redim_coord(a, Fill(size + 2, 7)), size) = a
                        /\ Minus(homog(a, size + 1), homog(b, size + 1)) = Append(Minus(a, b), 0)
                        /\ \A k \in 1..(size - 1) : indices(rshift(a, k, b) \o a, [i \in 1..size |-> k + i - 1])
                               = [i \in 1..size |-> IF i <= size - k THEN a[i] ELSE a[i + k - size]]
                        /\ size = 3 =>
                             LET c == cross(a, b)
                             IN /\ dot(c, a) = 0 /\ dot(c, b) = 0
                                /\ norm2(c) = norm2(a) * norm2(b) - dot(a, b) * dot(a, b)
    BY DEF Vectors
<1>. DEFINE a == area.p
            b == away(s)
<1>1. n \in Nat \ {0} /\ n \in Nat /\ area \in Regs(n) /\ s \in Regs(n) /\ Len(a) = n
    BY NeighboursAre
<1>2. a \in Vec(n) /\ b \in Vec(n)
    BY <1>1, RegionIs
<1>. HIDE DEF a, b
<1>3. /\ Unequal(a, b) = ~Equal(a, b)
      /\ Equal(a, b) = almost_zero(PointDifference(a, b))
      /\ any(Not(Less(a, b))) = ~all(Less(a, b))
    <2>1. /\ Unequal(a, b) <=> ~Equal(a, b)
          /\ Equal(a, b) <=> almost_zero(PointDifference(a, b))
          /\ any(Not(Less(a, b))) <=> ~all(Less(a, b))
        BY ONLY <1>1, <1>2, Comparisons
    <2>2. /\ Unequal(a, b) \in BOOLEAN /\ Equal(a, b) \in BOOLEAN
          /\ almost_zero(PointDifference(a, b)) \in BOOLEAN /\ any(Not(Less(a, b))) \in BOOLEAN
          /\ all(Less(a, b)) \in BOOLEAN
        BY DEF Unequal, Equal, almost_zero, any, all
    <2>. QED  BY ONLY <2>1, <2>2
<1>4. /\ Plus(min2(a, b), max2(a, b)) = Plus(a, b)
      /\ select(Less(a, b), a, b) = min2(a, b)
      /\ norm2(Minus(a, b)) = distance2(a, b)
      /\ Negate(to(a, b)) = from(a, b)
    BY ONLY <1>1, <1>2, Halves
<1>5. Plus(ScalarTimes(3, DividesScalar(a, 3)), mod(a, 3)) = a
    BY ONLY <1>1, <1>2, DivisionFits
<1>6. /\ redim(redim_fill(a, n + 2, 7), n) = a
      /\ redim(redim_coord(a, Fill(n + 2, 7)), n) = a
      /\ Minus(homog(a, n + 1), homog(b, n + 1)) = Append(Minus(a, b), 0)
    BY ONLY <1>1, <1>2, Resized
<1>7. \A k \in 1..(n - 1) : indices(rshift(a, k, b) \o a, [i \in 1..n |-> k + i - 1])
          = [i \in 1..n |-> IF i <= n - k THEN a[i] ELSE a[i + k - n]]
    BY ONLY <1>1, <1>2, Shifted
<1>8. n = 3 => LET c == cross(a, b)
               IN /\ dot(c, a) = 0 /\ dot(c, b) = 0
                  /\ norm2(c) = norm2(a) * norm2(b) - dot(a, b) * dot(a, b)
    BY ONLY <1>2, CrossIs
<1>. QED  BY ONLY SMTT(40), <1>1, <1>3, <1>4, <1>5, <1>6, <1>7, <1>8 DEF a, b

LEMMA WalkHolds ==
    ASSUME NEW n, Grown(n), Walked(n)
    PROVE  WalkInOrder
<1>. SUFFICES ASSUME inner # Resting PROVE WalkInOrder
    BY DEF WalkInOrder
<1>. DEFINE e == area.e
            m == Len(visited)
            t == PlusScalar(e, 1)
            Nth(k) == [i \in DOMAIN area.p |-> area.p[i] + ((k \div Stride(e, i)) % (e[i] + 1))]
<1>1. n \in Nat \ {0} /\ n \in Nat /\ area \in Regs(n)
    BY DEF Grown, Tight
<1>2. e \in Vec(n) /\ \A i \in 1..n : 0 <= e[i]
    BY <1>1, RegionIs
<1>3. DOMAIN area.p = 1..n
    BY <1>1, RegionIs, Elements
<1>4. /\ inner = [cursor |-> CursorAt(n, e, m), target |-> t]
      /\ visited \in Seq(Vec(n)) /\ m <= Stride(e, n + 1)
      /\ \A i \in 1..m : visited[i] = PointAt(n, area, i - 1)
    BY DEF Walked
<1>5. m \in Nat /\ DOMAIN visited = 1..m
    BY <1>4
<1>6. \A k \in DOMAIN visited : visited[k] = Nth(k - 1)
    BY <1>3, <1>4, <1>5 DEF PointAt, Digit
<1>7. inner.cursor = CursorAt(n, e, m) /\ inner.target = t
    BY <1>4
<1>. HIDE DEF m, e, t, Nth
<1>8. CursorAt(n, e, m) = end(t).cursor <=> m = Stride(e, n + 1)
    BY ONLY <1>1, <1>2, <1>4, <1>5, EndIs DEF t
<1>9. Cardinality(Inside(area)) = Stride(e, n + 1)
    BY ONLY <1>1, PointsCounted DEF e
<1>10. (inner.cursor = end(inner.target).cursor) = (m = Cardinality(Inside(area)))
    BY ONLY <1>7, <1>8, <1>9
<1>. QED  BY <1>6, <1>10 DEF WalkInOrder, Nth, Stride, e, m

LEMMA RegionInvSound ==
    ASSUME RegionInv
    PROVE  seen # {} /\ GeometrySound
<1>1. PICK n \in Nat \ {0} : Grown(n) /\ Walked(n)
    BY DEF RegionInv
<1>2. BoundsExact
    BY <1>1, GrownIsExact
<1>3. SetsOfPoints /\ Nearest /\ Margins /\ Vectors
    BY <1>1, SetsOfPointsHold, NearestHolds, MarginsHold, VectorsHold
<1>4. WalkInOrder
    BY <1>1, WalkHolds
<1>5. seen # {}
    BY <1>1 DEF Grown, Tight
<1>. QED  BY <1>2, <1>3, <1>4, <1>5 DEF GeometrySound, RegionsSound

(***************************************************************************)
(* A box, a region and a range that were shown points and moved hold the   *)
(* least that holds them, in whatever order; tests, overlaps, margins and  *)
(* nearest points are those of sets of points; a walk yields every point   *)
(* once, in row-major order, and ends when there is none left              *)
(* (src/geom/aabb.cpp, src/region.cpp, src/extent.cpp).                    *)
(***************************************************************************)
THEOREM RegionsExact == RegionSpec => [](seen # {} /\ GeometrySound)
<1>1. RegionInit => RegionInv
    BY RegionInvInit
<1>2. RegionInv /\ [RegionNext]_regionVars => RegionInv'
    BY RegionInvNext
<1>3. RegionInv => seen # {} /\ GeometrySound
    BY RegionInvSound
<1>. QED  BY <1>1, <1>2, <1>3, PTL DEF RegionSpec

(***************************************************************************)
(* Codecs.  Sequences as functions, and what recursive functions are.      *)
(***************************************************************************)
\* A function of 1..m is a sequence, and the other way round.
LEMMA RowIs ==
    ASSUME NEW T, NEW m \in Nat, NEW s \in [1..m -> T]
    PROVE  s \in Seq(T) /\ Len(s) = m /\ DOMAIN s = 1..m
OBVIOUS

LEMMA SeqIs ==
    ASSUME NEW T, NEW s \in Seq(T)
    PROVE  Len(s) \in Nat /\ s \in [1..Len(s) -> T]
BY LenProperties

\* The elements of a part, and of two sequences joined.
LEMMA SliceIs ==
    ASSUME NEW T, NEW m \in Nat, NEW a \in Nat, NEW k \in Nat, a + k <= m, NEW s \in [1..m -> T]
    PROVE  /\ SubSeq(s, a + 1, a + k) \in [1..k -> T] /\ \A i \in 1..k : SubSeq(s, a + 1, a + k)[i] = s[a + i]
<1>1. \A i \in (a + 1)..(a + k) : s[i] \in T
    OBVIOUS
<1>. DEFINE p == SubSeq(s, a + 1, a + k)
<1>2. p \in Seq(T) /\ Len(p) = k /\ \A i \in 1..k : p[i] = s[a + i]
    <2>1. a + 1 \in Int /\ a + k \in Int
        OBVIOUS
    <2>2. /\ p \in Seq(T) /\ Len(p) = IF a + 1 <= a + k THEN a + k - (a + 1) + 1 ELSE 0
          /\ \A i \in 1..(a + k - (a + 1) + 1) : p[i] = s[a + 1 + i - 1]
        BY SMTT(40), <1>1, <2>1, SubSeqProperties
    <2>3. a + k - (a + 1) + 1 = k /\ \A i \in 1..k : a + 1 + i - 1 = a + i
        OBVIOUS
    <2>. QED  BY <2>2, <2>3
<1>. HIDE DEF p
<1>3. p \in [1..k -> T]
    BY <1>2, SeqIs
<1>. QED  BY <1>2, <1>3 DEF p

LEMMA Joined ==
    ASSUME NEW T, NEW k \in Nat, NEW m \in Nat, NEW s \in [1..k -> T], NEW t \in [1..m -> T]
    PROVE  /\ s \o t \in [1..(k + m) -> T]
           /\ \A i \in 1..k : (s \o t)[i] = s[i]
           /\ \A i \in 1..m : (s \o t)[k + i] = t[i]
<1>1. s \in Seq(T) /\ t \in Seq(T) /\ Len(s) = k /\ Len(t) = m
    BY RowIs
<1>2. /\ s \o t \in Seq(T) /\ Len(s \o t) = k + m
      /\ \A i \in 1..(k + m) : (s \o t)[i] = IF i <= k THEN s[i] ELSE t[i - k]
    BY <1>1, ConcatProperties
<1>3. \A i \in 1..m : k + i \in 1..(k + m) /\ ~(k + i <= k) /\ k + i - k = i
    OBVIOUS
<1>4. s \o t \in [1..(k + m) -> T]
    BY <1>2, SeqIs
<1>5. \A i \in 1..k : i \in 1..(k + m) /\ i <= k
    OBVIOUS
<1>. QED  BY <1>2, <1>3, <1>4, <1>5

\* A table of the results of the first steps.
Table(t, S, n, first, step) ==
    t \in [0..n -> S] /\ t[0] = first /\ \A i \in 1..n : t[i] = step[i][t[i - 1]]

LEMMA TableExists ==
    ASSUME NEW S, NEW n \in Nat, NEW first \in S, NEW step \in [1..n -> [S -> S]]
    PROVE  \E t : Table(t, S, n, first, step)
<1>. DEFINE G == {m \in Nat : m <= n => \E t : Table(t, S, m, first, step)}
<1>1. 0 \in G
    <2>1. Table([i \in 0..0 |-> first], S, 0, first, step)
        BY DEF Table
    <2>. QED  BY <2>1
<1>2. ASSUME NEW m \in Nat, m \in G PROVE m + 1 \in G
    <2>. SUFFICES ASSUME m + 1 <= n PROVE \E t : Table(t, S, m + 1, first, step)
        OBVIOUS
    <2>1. PICK s : Table(s, S, m, first, step)
        BY <1>2
    <2>. DEFINE new == step[m + 1][s[m]]
                t == [i \in 0..(m + 1) |-> IF i <= m THEN s[i] ELSE new]
    <2>2. s[m] \in S /\ m + 1 \in 1..n
        BY <2>1 DEF Table
    <2>3. new \in S
        BY <2>2
    <2>. HIDE DEF new
    <2>4. t \in [0..(m + 1) -> S] /\ t[0] = first
        BY <2>1, <2>3 DEF Table
    <2>5. ASSUME NEW i \in 1..(m + 1) PROVE t[i] = step[i][t[i - 1]]
        <3>1. CASE i <= m
            <4>1. t[i] = s[i] /\ t[i - 1] = s[i - 1] /\ i \in 1..m
                BY <3>1
            <4>. QED  BY <2>1, <4>1 DEF Table
        <3>2. CASE i = m + 1
            <4>1. t[i] = new /\ t[i - 1] = s[m]
                BY <3>2
            <4>. QED  BY <3>2, <4>1 DEF new
        <3>. QED  BY <3>1, <3>2
    <2>. HIDE DEF t
    <2>6. Table(t, S, m + 1, first, step)
        BY <2>4, <2>5 DEF Table
    <2>. QED  BY <2>6
<1>3. Nat \subseteq G
    <2>. HIDE DEF G
    <2>. QED  BY <1>1, <1>2, Induction
<1>. QED  BY <1>3

\* Digits are taken one at a time.
Taken(t, n, first, digits, radix) ==
    /\ t \in [0..n -> Nat] /\ t[0] = first
    /\ \A i \in 1..n : t[i] = t[i - 1] * radix + digits[i]
    /\ Positional(first, digits, radix) = t[n]

LEMMA PositionalIs ==
    ASSUME NEW n \in Nat, NEW first \in Nat, NEW digits \in [1..n -> Nat], NEW radix \in Nat
    PROVE  \E t : Taken(t, n, first, digits, radix)
<1>. DEFINE step == [i \in 1..n |-> [x \in Nat |-> x * radix + digits[i]]]
            Def(f) == [i \in 0..Len(digits) |-> IF i = 0 THEN first ELSE f[i - 1] * radix + digits[i]]
            S == CHOOSE f : f = Def(f)
<1>0. Len(digits) = n
    BY RowIs
<1>1. step \in [1..n -> [Nat -> Nat]]
    <2>1. \A x \in Nat : x * radix \in Nat
        OBVIOUS
    <2>. QED  BY <2>1
<1>2. PICK t : Table(t, Nat, n, first, step)
    <2>. HIDE DEF step
    <2>. QED  BY <1>1, TableExists
<1>3. /\ t \in [0..n -> Nat] /\ t[0] = first
      /\ \A i \in 1..n : t[i] = t[i - 1] * radix + digits[i]
    <2>1. /\ t \in [0..n -> Nat] /\ t[0] = first
          /\ \A i \in 1..n : t[i] = step[i][t[i - 1]]
        BY <1>2 DEF Table
    <2>2. \A i \in 1..n : t[i - 1] \in Nat
        BY <2>1
    <2>. QED  BY <2>1, <2>2
<1>4. t = Def(t)
    BY <1>0, <1>3
<1>5. S = Def(S)
    <2>. HIDE DEF Def
    <2>. QED  BY <1>4
<1>6. Positional(first, digits, radix) = S[n]
    BY <1>0 DEF Positional
<1>7. \A i \in 0..n : S[i] = IF i = 0 THEN first ELSE S[i - 1] * radix + digits[i]
    <2>. HIDE DEF S
    <2>. QED  BY <1>5, <1>0
<1>. HIDE DEF S, step, Def
<1>. DEFINE G == {i \in Nat : i <= n => S[i] = t[i]}
<1>8. 0 \in G
    BY <1>7, <1>3
<1>9. ASSUME NEW i \in Nat, i \in G PROVE i + 1 \in G
    <2>. SUFFICES ASSUME i + 1 <= n PROVE S[i + 1] = t[i + 1]
        OBVIOUS
    <2>1. i + 1 \in 0..n /\ i + 1 \in 1..n /\ i + 1 # 0 /\ (i + 1) - 1 = i /\ i <= n
        OBVIOUS
    <2>2. S[i + 1] = S[i] * radix + digits[i + 1] /\ t[i + 1] = t[i] * radix + digits[i + 1]
        BY ONLY <1>7, <1>3, <2>1
    <2>. QED  BY <1>9, <2>1, <2>2
<1>10. Nat \subseteq G
    <2>. HIDE DEF G
    <2>. QED  BY <1>8, <1>9, Induction
<1>11. S[n] = t[n]
    BY <1>10
<1>. QED  BY <1>3, <1>6, <1>11 DEF Taken

(***************************************************************************)
(* Bits and the numbers they stand for.                                    *)
(***************************************************************************)
Bits(n) == [1..n -> 0..1]

\* Bits of a number of a symbol or an octet: the number and its bits determine
\* each other.
LEMMA WorthIs ==
    /\ Worth[1] = 128 /\ Worth[2] = 64 /\ Worth[3] = 32 /\ Worth[4] = 16
    /\ Worth[5] = 8 /\ Worth[6] = 4 /\ Worth[7] = 2 /\ Worth[8] = 1
BY DEF Worth

LEMMA NumberOf4 ==
    ASSUME NEW b \in Bits(4)
    PROVE  /\ Number(b) = 8 * b[1] + 4 * b[2] + 2 * b[3] + b[4]
           /\ Number(b) \in 0..15
           /\ BitsOf(Number(b), 4) = b
<1>0. b \in [1..4 -> Nat]
    BY DEF Bits
<1>a. b[1] \in 0..1 /\ b[2] \in 0..1 /\ b[3] \in 0..1 /\ b[4] \in 0..1
    BY DEF Bits
<1>1. PICK t : Taken(t, 4, 0, b, 2)
    <2>1. 0 \in Nat /\ 2 \in Nat /\ 4 \in Nat
        OBVIOUS
    <2>. QED  BY ONLY <1>0, <2>1, PositionalIs
<1>2. t[0] = 0 /\ Positional(0, b, 2) = t[4]
      /\ t[1] = t[0] * 2 + b[1] /\ t[2] = t[1] * 2 + b[2] /\ t[3] = t[2] * 2 + b[3] /\ t[4] = t[3] * 2 + b[4]
    BY ONLY <1>1 DEF Taken
<1>. DEFINE v == 8 * b[1] + 4 * b[2] + 2 * b[3] + b[4]
<1>3. Number(b) = v
    BY ONLY <1>a, <1>2 DEF Number, v
<1>4. v \in 0..15
    BY ONLY <1>a DEF v
<1>5. (v \div 8) % 2 = b[1] /\ (v \div 4) % 2 = b[2] /\ (v \div 2) % 2 = b[3] /\ (v \div 1) % 2 = b[4]
    BY ONLY <1>a DEF v
<1>. HIDE DEF v
<1>6. BitsOf(v, 4)[1] = b[1] /\ BitsOf(v, 4)[2] = b[2] /\ BitsOf(v, 4)[3] = b[3] /\ BitsOf(v, 4)[4] = b[4]
    BY <1>5, WorthIs DEF BitsOf
<1>7. BitsOf(v, 4) = b
    <2>1. BitsOf(v, 4) = [i \in 1..4 |-> BitsOf(v, 4)[i]]
        BY DEF BitsOf
    <2>2. \A i \in 1..4 : BitsOf(v, 4)[i] = b[i]
        <3>1. \A i \in 1..4 : i = 1 \/ i = 2 \/ i = 3 \/ i = 4
            OBVIOUS
        <3>. QED  BY <1>6, <3>1
    <2>. QED  BY <2>1, <2>2, b \in [1..4 -> 0..1] DEF Bits
<1>. QED  BY <1>3, <1>4, <1>7 DEF v

LEMMA NumberOf5 ==
    ASSUME NEW b \in Bits(5)
    PROVE  /\ Number(b) = 16 * b[1] + 8 * b[2] + 4 * b[3] + 2 * b[4] + b[5]
           /\ Number(b) \in 0..31
           /\ BitsOf(Number(b), 5) = b
<1>0. b \in [1..5 -> Nat]
    BY DEF Bits
<1>a. b[1] \in 0..1 /\ b[2] \in 0..1 /\ b[3] \in 0..1 /\ b[4] \in 0..1 /\ b[5] \in 0..1
    BY DEF Bits
<1>1. PICK t : Taken(t, 5, 0, b, 2)
    <2>1. 0 \in Nat /\ 2 \in Nat /\ 5 \in Nat
        OBVIOUS
    <2>. QED  BY ONLY <1>0, <2>1, PositionalIs
<1>2. t[0] = 0 /\ Positional(0, b, 2) = t[5]
      /\ t[1] = t[0] * 2 + b[1] /\ t[2] = t[1] * 2 + b[2] /\ t[3] = t[2] * 2 + b[3] /\ t[4] = t[3] * 2 + b[4] /\ t[5] = t[4] * 2 + b[5]
    BY ONLY <1>1 DEF Taken
<1>. DEFINE v == 16 * b[1] + 8 * b[2] + 4 * b[3] + 2 * b[4] + b[5]
<1>3. Number(b) = v
    BY ONLY <1>a, <1>2 DEF Number, v
<1>4. v \in 0..31
    BY ONLY <1>a DEF v
<1>5. (v \div 16) % 2 = b[1] /\ (v \div 8) % 2 = b[2] /\ (v \div 4) % 2 = b[3] /\ (v \div 2) % 2 = b[4] /\ (v \div 1) % 2 = b[5]
    BY ONLY <1>a DEF v
<1>. HIDE DEF v
<1>6. BitsOf(v, 5)[1] = b[1] /\ BitsOf(v, 5)[2] = b[2] /\ BitsOf(v, 5)[3] = b[3] /\ BitsOf(v, 5)[4] = b[4] /\ BitsOf(v, 5)[5] = b[5]
    BY <1>5, WorthIs DEF BitsOf
<1>7. BitsOf(v, 5) = b
    <2>1. BitsOf(v, 5) = [i \in 1..5 |-> BitsOf(v, 5)[i]]
        BY DEF BitsOf
    <2>2. \A i \in 1..5 : BitsOf(v, 5)[i] = b[i]
        <3>1. \A i \in 1..5 : i = 1 \/ i = 2 \/ i = 3 \/ i = 4 \/ i = 5
            OBVIOUS
        <3>. QED  BY <1>6, <3>1
    <2>. QED  BY <2>1, <2>2, b \in [1..5 -> 0..1] DEF Bits
<1>. QED  BY <1>3, <1>4, <1>7 DEF v

LEMMA NumberOf6 ==
    ASSUME NEW b \in Bits(6)
    PROVE  /\ Number(b) = 32 * b[1] + 16 * b[2] + 8 * b[3] + 4 * b[4] + 2 * b[5] + b[6]
           /\ Number(b) \in 0..63
           /\ BitsOf(Number(b), 6) = b
<1>0. b \in [1..6 -> Nat]
    BY DEF Bits
<1>a. b[1] \in 0..1 /\ b[2] \in 0..1 /\ b[3] \in 0..1 /\ b[4] \in 0..1 /\ b[5] \in 0..1 /\ b[6] \in 0..1
    BY DEF Bits
<1>1. PICK t : Taken(t, 6, 0, b, 2)
    <2>1. 0 \in Nat /\ 2 \in Nat /\ 6 \in Nat
        OBVIOUS
    <2>. QED  BY ONLY <1>0, <2>1, PositionalIs
<1>2. t[0] = 0 /\ Positional(0, b, 2) = t[6]
      /\ t[1] = t[0] * 2 + b[1] /\ t[2] = t[1] * 2 + b[2] /\ t[3] = t[2] * 2 + b[3] /\ t[4] = t[3] * 2 + b[4] /\ t[5] = t[4] * 2 + b[5] /\ t[6] = t[5] * 2 + b[6]
    BY ONLY <1>1 DEF Taken
<1>. DEFINE v == 32 * b[1] + 16 * b[2] + 8 * b[3] + 4 * b[4] + 2 * b[5] + b[6]
<1>3. Number(b) = v
    BY ONLY <1>a, <1>2 DEF Number, v
<1>4. v \in 0..63
    BY ONLY <1>a DEF v
<1>5. (v \div 32) % 2 = b[1] /\ (v \div 16) % 2 = b[2] /\ (v \div 8) % 2 = b[3] /\ (v \div 4) % 2 = b[4] /\ (v \div 2) % 2 = b[5] /\ (v \div 1) % 2 = b[6]
    BY ONLY <1>a DEF v
<1>. HIDE DEF v
<1>6. BitsOf(v, 6)[1] = b[1] /\ BitsOf(v, 6)[2] = b[2] /\ BitsOf(v, 6)[3] = b[3] /\ BitsOf(v, 6)[4] = b[4] /\ BitsOf(v, 6)[5] = b[5] /\ BitsOf(v, 6)[6] = b[6]
    BY <1>5, WorthIs DEF BitsOf
<1>7. BitsOf(v, 6) = b
    <2>1. BitsOf(v, 6) = [i \in 1..6 |-> BitsOf(v, 6)[i]]
        BY DEF BitsOf
    <2>2. \A i \in 1..6 : BitsOf(v, 6)[i] = b[i]
        <3>1. \A i \in 1..6 : i = 1 \/ i = 2 \/ i = 3 \/ i = 4 \/ i = 5 \/ i = 6
            BY SMTT(40)
        <3>. QED  BY <1>6, <3>1
    <2>. QED  BY <2>1, <2>2, b \in [1..6 -> 0..1] DEF Bits
<1>. QED  BY <1>3, <1>4, <1>7 DEF v

LEMMA NumberOf8 ==
    ASSUME NEW b \in Bits(8)
    PROVE  /\ Number(b) = 128 * b[1] + 64 * b[2] + 32 * b[3] + 16 * b[4] + 8 * b[5] + 4 * b[6] + 2 * b[7] + b[8]
           /\ Number(b) \in 0..255
           /\ BitsOf(Number(b), 8) = b
<1>0. b \in [1..8 -> Nat]
    BY DEF Bits
<1>a. b[1] \in 0..1 /\ b[2] \in 0..1 /\ b[3] \in 0..1 /\ b[4] \in 0..1 /\ b[5] \in 0..1 /\ b[6] \in 0..1 /\ b[7] \in 0..1 /\ b[8] \in 0..1
    BY DEF Bits
<1>1. PICK t : Taken(t, 8, 0, b, 2)
    <2>1. 0 \in Nat /\ 2 \in Nat /\ 8 \in Nat
        OBVIOUS
    <2>. QED  BY ONLY <1>0, <2>1, PositionalIs
<1>2. t[0] = 0 /\ Positional(0, b, 2) = t[8]
      /\ t[1] = t[0] * 2 + b[1] /\ t[2] = t[1] * 2 + b[2] /\ t[3] = t[2] * 2 + b[3] /\ t[4] = t[3] * 2 + b[4] /\ t[5] = t[4] * 2 + b[5] /\ t[6] = t[5] * 2 + b[6] /\ t[7] = t[6] * 2 + b[7] /\ t[8] = t[7] * 2 + b[8]
    BY ONLY <1>1 DEF Taken
<1>. DEFINE v == 128 * b[1] + 64 * b[2] + 32 * b[3] + 16 * b[4] + 8 * b[5] + 4 * b[6] + 2 * b[7] + b[8]
<1>3. Number(b) = v
    BY ONLY <1>a, <1>2 DEF Number, v
<1>4. v \in 0..255
    BY ONLY <1>a DEF v
<1>5. (v \div 128) % 2 = b[1] /\ (v \div 64) % 2 = b[2] /\ (v \div 32) % 2 = b[3] /\ (v \div 16) % 2 = b[4] /\ (v \div 8) % 2 = b[5] /\ (v \div 4) % 2 = b[6] /\ (v \div 2) % 2 = b[7] /\ (v \div 1) % 2 = b[8]
    BY ONLY SMTT(40), <1>a DEF v
<1>. HIDE DEF v
<1>6. BitsOf(v, 8)[1] = b[1] /\ BitsOf(v, 8)[2] = b[2] /\ BitsOf(v, 8)[3] = b[3] /\ BitsOf(v, 8)[4] = b[4] /\ BitsOf(v, 8)[5] = b[5] /\ BitsOf(v, 8)[6] = b[6] /\ BitsOf(v, 8)[7] = b[7] /\ BitsOf(v, 8)[8] = b[8]
    BY <1>5, WorthIs DEF BitsOf
<1>7. BitsOf(v, 8) = b
    <2>1. BitsOf(v, 8) = [i \in 1..8 |-> BitsOf(v, 8)[i]]
        BY DEF BitsOf
    <2>2. \A i \in 1..8 : BitsOf(v, 8)[i] = b[i]
        <3>1. \A i \in 1..8 : i = 1 \/ i = 2 \/ i = 3 \/ i = 4 \/ i = 5 \/ i = 6 \/ i = 7 \/ i = 8
            OBVIOUS
        <3>. QED  BY <1>6, <3>1
    <2>. QED  BY <2>1, <2>2, b \in [1..8 -> 0..1] DEF Bits
<1>. QED  BY <1>3, <1>4, <1>7 DEF v

\* Every octet is the number of its bits.
LEMMA OctetBits ==
    ASSUME NEW v \in Octets
    PROVE  BitsOf(v, 8) \in Bits(8) /\ Number(BitsOf(v, 8)) = v
<1>. DEFINE b == BitsOf(v, 8)
<1>0. v \in 0..255
    BY DEF Octets
<1>1. /\ b[1] = (v \div 128) % 2 /\ b[2] = (v \div 64) % 2 /\ b[3] = (v \div 32) % 2 /\ b[4] = (v \div 16) % 2
      /\ b[5] = (v \div 8) % 2 /\ b[6] = (v \div 4) % 2 /\ b[7] = (v \div 2) % 2 /\ b[8] = v % 2
    BY <1>0, WorthIs DEF BitsOf
<1>2. b \in Bits(8)
    <2>1. \A i \in 1..8 : (v \div Worth[8 - 8 + i]) % 2 \in 0..1
        <3>1. \A i \in 1..8 : i = 1 \/ i = 2 \/ i = 3 \/ i = 4 \/ i = 5 \/ i = 6 \/ i = 7 \/ i = 8
            OBVIOUS
        <3>. QED  BY <3>1, <1>0, WorthIs
    <2>. QED  BY <2>1 DEF BitsOf, Bits
<1>. HIDE DEF b
<1>3. Number(b) = 128 * b[1] + 64 * b[2] + 32 * b[3] + 16 * b[4] + 8 * b[5] + 4 * b[6] + 2 * b[7] + b[8]
    BY <1>2, NumberOf8
<1>4. 128 * b[1] + 64 * b[2] + 32 * b[3] + 16 * b[4] + 8 * b[5] + 4 * b[6] + 2 * b[7] + b[8] = v
    BY ONLY SMTT(40), <1>0, <1>1
<1>. QED  BY <1>2, <1>3, <1>4 DEF b

\* The widths of the three alphabets.
LEMMA Widths ==
    ASSUME NEW Size \in Sizes
    PROVE  \/ /\ Size = 16 /\ symbol_bits(Size) = 4 /\ group_bits(Size) = 8
              /\ group_symbols(Size) = 2 /\ group_bytes(Size) = 1
           \/ /\ Size = 32 /\ symbol_bits(Size) = 5 /\ group_bits(Size) = 40
              /\ group_symbols(Size) = 8 /\ group_bytes(Size) = 5
           \/ /\ Size = 64 /\ symbol_bits(Size) = 6 /\ group_bits(Size) = 24
              /\ group_symbols(Size) = 4 /\ group_bytes(Size) = 3
<1>1. Size = 16 \/ Size = 32 \/ Size = 64
    BY DEF Sizes
<1>2. CASE Size = 16
    BY <1>2 DEF symbol_bits, group_bits, group_symbols, group_bytes
<1>3. CASE Size = 32
    BY <1>3 DEF symbol_bits, group_bits, group_symbols, group_bytes
<1>4. CASE Size = 64
    BY <1>4 DEF symbol_bits, group_bits, group_symbols, group_bytes
<1>. QED  BY <1>1, <1>2, <1>3, <1>4

\* No symbol is taken for another, or for the padding.
LEMMA Alphabets ==
    ASSUME NEW Size \in Sizes
    PROVE  /\ DOMAIN enc(Size) = 0..(Size - 1)
           /\ \A v \in 0..(Size - 1) : /\ enc(Size)[v] \in Octets /\ enc(Size)[v] # Pad
                                       /\ dec(Size)[enc(Size)[v]] = v
<1>1. Size = 16 \/ Size = 32 \/ Size = 64
    BY DEF Sizes
<1>2. CASE Size = 16
    <2>1. enc(Size) = enc16 /\ dec(Size) = dec16
        BY <1>2 DEF enc, dec
    <2>. QED  BY SMTT(40), <1>2, <2>1 DEF enc16, dec16, Octets, Pad
<1>3. CASE Size = 32
    <2>1. enc(Size) = enc32 /\ dec(Size) = dec32
        BY <1>3 DEF enc, dec
    <2>. QED  BY SMTT(40), <1>3, <2>1 DEF enc32, dec32, Octets, Pad
<1>4. CASE Size = 64
    <2>1. enc(Size) = enc64 /\ dec(Size) = dec64
        BY <1>4 DEF enc, dec
    <2>2. DOMAIN enc64 = 0..63
        BY DEF enc64
    <2>3. ASSUME NEW v \in 0..63
          PROVE  /\ enc64[v] \in 0..255 /\ enc64[v] # 61
                 /\ dec64[enc64[v]] = v
        <3>. DEFINE c == enc64[v]
        <3>1. c = IF v < 26 THEN 65 + v ELSE IF v < 52 THEN 97 + (v - 26)
                  ELSE IF v < 62 THEN 48 + (v - 52) ELSE IF v = 62 THEN 43 ELSE 47
            BY DEF enc64
        <3>. HIDE DEF c
        <3>2. c \in 0..255 /\ c # 61
            BY ONLY <3>1, v \in 0..63
        <3>3. dec64[c] = IF c = 43 THEN 62 ELSE IF c = 47 THEN 63
                         ELSE IF c \in 48 .. 57 THEN 52 + (c - 48)
                         ELSE IF c \in 65 .. 90 THEN c - 65
                         ELSE IF c \in 97 .. 122 THEN 26 + (c - 97) ELSE 0
            BY ONLY <3>2 DEF dec64, Octets
        <3>4. dec64[c] = v
            BY ONLY <3>1, <3>3, v \in 0..63
        <3>. QED  BY <3>2, <3>4 DEF c
    <2>4. Size - 1 = 63
        BY <1>4
    <2>. QED  BY ONLY ZenonT(60), <2>1, <2>2, <2>3, <2>4 DEF Octets, Pad
<1>. QED  BY <1>1, <1>2, <1>3, <1>4

\* dec undoes enc on the chunk of bits that a symbol stands for.
LEMMA SymbolIs ==
    ASSUME NEW Size \in Sizes, NEW b \in Bits(symbol_bits(Size))
    PROVE  Number(b) \in 0..(Size - 1) /\ BitsOf(Number(b), symbol_bits(Size)) = b
BY Widths, NumberOf4, NumberOf5, NumberOf6

\* Places in a row of numbers of n bits.
LEMMA PlaceIs ==
    ASSUME NEW n \in Nat \ {0}, NEW k \in Nat \ {0}, NEW j \in 1..n
    PROVE  /\ n * (k - 1) + j \in 1..(n * k)
           /\ ((n * (k - 1) + j - 1) \div n) + 1 = k
           /\ ((n * (k - 1) + j - 1) % n) + 1 = j
<1>1. k - 1 \in Nat /\ j - 1 \in 0..(n - 1)
    OBVIOUS
<1>. DEFINE q == k - 1
            r == j - 1
            p == n * q
<1>2. (p + r) \div n = q /\ (p + r) % n = r
    BY <1>1, DivisionIsOnly
<1>3. p \in Nat /\ n * k = p + n
    BY <1>1
<1>4. p + j - 1 = p + r
    BY <1>3
<1>. HIDE DEF p
<1>5. p + j \in 1..(n * k)
    BY <1>3
<1>. QED  BY <1>2, <1>4, <1>5 DEF p, q, r

Placed(x, n, k, j) ==
    x = n * (k - 1) + j /\ k = ((x - 1) \div n) + 1 /\ j = ((x - 1) % n) + 1

LEMMA PlaceOf ==
    ASSUME NEW n \in Nat \ {0}, NEW m \in Nat, NEW x \in 1..(n * m)
    PROVE  \E k \in 1..m, j \in 1..n : Placed(x, n, k, j)
<1>. DEFINE q == (x - 1) \div n
            r == (x - 1) % n
<1>0. x - 1 \in Nat /\ n * m \in Nat
    OBVIOUS
<1>1. q \in Nat /\ r \in 0..(n - 1) /\ x - 1 = n * q + r
    BY <1>0, DivMod
<1>. HIDE DEF q, r
<1>2. q + 1 <= m
    <2>. SUFFICES ASSUME m <= q PROVE FALSE
        BY <1>1
    <2>1. n * m <= n * q
        BY <1>1
    <2>. QED  BY <1>0, <1>1, <2>1
<1>3. q + 1 \in 1..m /\ r + 1 \in 1..n /\ (q + 1) - 1 = q
    BY <1>1, <1>2
<1>4. x = n * ((q + 1) - 1) + (r + 1)
    BY <1>0, <1>1, <1>3
<1>. QED  BY <1>3, <1>4 DEF q, r, Placed

\* Two rows of numbers are the same if they are number by number.
LEMMA SpreadIs ==
    ASSUME NEW n \in {4, 5, 6, 8}, NEW m \in Nat, NEW s \in [1..m -> Int],
           \A k \in 1..m : BitsOf(s[k], n) \in Bits(n)
    PROVE  /\ Spread(s, n) \in Bits(n * m)
           /\ \A k \in 1..m, j \in 1..n : Spread(s, n)[n * (k - 1) + j] = BitsOf(s[k], n)[j]
<1>0. n \in Nat \ {0} /\ Len(s) = m /\ n * m \in Nat
    BY SMTT(40), RowIs
<1>1. \A x \in 1..(n * m) : BitsOf(s[((x - 1) \div n) + 1], n)[((x - 1) % n) + 1] \in 0..1
    <2>. TAKE x \in 1..(n * m)
    <2>1. PICK k \in 1..m, j \in 1..n : Placed(x, n, k, j)
        BY ONLY <1>0, m \in Nat, x \in 1..(n * m), PlaceOf
    <2>. QED  BY <2>1 DEF Bits, Placed
<1>2. Spread(s, n) \in Bits(n * m)
    BY <1>0, <1>1 DEF Spread, Bits
<1>3. ASSUME NEW k \in 1..m, NEW j \in 1..n
      PROVE  Spread(s, n)[n * (k - 1) + j] = BitsOf(s[k], n)[j]
    <2>. DEFINE x == n * (k - 1) + j
    <2>1. x \in 1..(n * k) /\ ((x - 1) \div n) + 1 = k /\ ((x - 1) % n) + 1 = j
        BY SMTT(40), <1>0, PlaceIs
    <2>2. n * k \in Nat /\ n * k <= n * m
        BY <1>0
    <2>3. x \in 1..(n * m)
        BY <1>0, <2>1, <2>2
    <2>. HIDE DEF x
    <2>4. Spread(s, n)[x] = BitsOf(s[k], n)[j]
        BY <1>0, <2>1, <2>3 DEF Spread
    <2>. QED  BY <2>4 DEF x
<1>. QED  BY <1>2, <1>3

Chunk(b, n, i) == [j \in 1..n |-> b[n * (i - 1) + j]]

LEMMA BitPiece ==
    ASSUME NEW m \in Nat, NEW a \in Nat, NEW n \in Nat, NEW b \in Bits(m), a + n <= m
    PROVE  /\ SubSeq(b, a + 1, a + n) \in Bits(n)
           /\ \A i \in 1..n : SubSeq(b, a + 1, a + n)[i] = b[a + i]
<1>. SUFFICES ASSUME NEW T, T = 0..1
              PROVE  /\ SubSeq(b, a + 1, a + n) \in [1..n -> T]
                     /\ \A i \in 1..n : SubSeq(b, a + 1, a + n)[i] = b[a + i]
    BY DEF Bits
<1>1. b \in [1..m -> T]
    BY DEF Bits
<1>2. /\ SubSeq(b, a + 1, a + n) \in [1..n -> T]
      /\ \A i \in 1..n : SubSeq(b, a + 1, a + n)[i] = b[a + i]
    BY ONLY m \in Nat, a \in Nat, n \in Nat, a + n <= m, <1>1, SliceIs
<1>. QED BY <1>2

LEMMA ChunkIs ==
    ASSUME NEW n \in Nat \ {0}, NEW m \in Nat, NEW b \in Bits(n * m), NEW i \in 1..m
    PROVE  /\ Chunk(b, n, i) \in Bits(n)
           /\ SubSeq(b, (n * (i - 1)) + 1, n * i) = Chunk(b, n, i)
<1>. DEFINE a == n * (i - 1)
<1>1. a \in Nat /\ a + n = n * i /\ n * i \in Nat /\ n * i <= n * m
    BY DEF a
<1>. HIDE DEF a
<1>2. /\ SubSeq(b, a + 1, a + n) \in Bits(n)
      /\ \A j \in 1..n : SubSeq(b, a + 1, a + n)[j] = b[a + j]
    <2>1. n \in Nat /\ n * m \in Nat /\ a + n <= n * m /\ a \in Nat
        BY <1>1
    <2>2. b \in Bits(n * m)
        OBVIOUS
    <2>. QED  BY ONLY <2>1, <2>2, BitPiece
<1>. DEFINE c == SubSeq(b, a + 1, a + n)
<1>3. c = [j \in 1..n |-> b[a + j]]
    BY <1>2 DEF Bits
<1>. QED  BY <1>1, <1>2, <1>3 DEF a, Chunk

\* How many chunks there are, and what each becomes.
LEMMA ChopIs ==
    ASSUME NEW n \in Nat \ {0}, NEW m \in Nat, NEW b \in Bits(n * m)
    PROVE  /\ Len(b) = n * m /\ Len(b) \div n = m
           /\ Chop(b, n) = [i \in 1..m |-> Chunk(b, n, i)]
<1>1. n * m \in Nat /\ (n * m + 0) \div n = m
    BY DivisionIsOnly
<1>2. Len(b) = n * m
    BY <1>1, RowIs DEF Bits
<1>3. Len(b) \div n = m
    BY <1>1, <1>2
<1>4. \A i \in 1..m : SubSeq(b, (n * (i - 1)) + 1, n * i) = Chunk(b, n, i)
    BY ChunkIs
<1>. QED  BY <1>2, <1>3, <1>4 DEF Chop

LEMMA SymbolsAre ==
    ASSUME NEW Size \in Sizes, NEW m \in Nat, NEW b \in Bits(symbol_bits(Size) * m)
    PROVE  /\ Symbols(Size, b) \in [1..m -> Octets]
           /\ \A i \in 1..m : Symbols(Size, b)[i] = enc(Size)[Number(Chunk(b, symbol_bits(Size), i))]
<1>. DEFINE n == symbol_bits(Size)
<1>1. n \in Nat \ {0}
    BY Widths
<1>. HIDE DEF n
<1>2. b \in Bits(n * m)
    BY DEF n
<1>3. Chop(b, n) = [i \in 1..m |-> Chunk(b, n, i)] /\ \A i \in 1..m : Chunk(b, n, i) \in Bits(n)
    BY <1>1, <1>2, ChopIs, ChunkIs
<1>4. Symbols(Size, b) = [i \in 1..m |-> enc(Size)[Number(Chunk(b, n, i))]]
    BY <1>3 DEF Symbols, n
<1>5. \A i \in 1..m : enc(Size)[Number(Chunk(b, n, i))] \in Octets
    BY <1>3, SymbolIs, Alphabets DEF n
<1>. QED  BY <1>4, <1>5 DEF n

\* How many octets are left over by the groups, and what is filled in.
Shaped(Size, L, q, r, f, S) ==
    LET n == symbol_bits(Size)
        gb == group_bytes(Size)
        gs == group_symbols(Size)
    IN  /\ L = gb * q + r /\ (L \div gb) * gb = gb * q /\ r \in 0..(gb - 1)
        /\ f \in 0..(n - 1) /\ (n - ((8 * L) % n)) % n = f
        /\ 8 * L + f = n * (gs * q + S) /\ 8 * (gb * q) = n * (gs * q)
        /\ 8 * r + f = n * S /\ S \in 0..(gs - 1) /\ (r = 0 <=> S = 0) /\ (r = 0 => f = 0)
        /\ r # 0 => n - ((r * 8) % n) = f /\ ((gb - r) * 8) \div n = gs - S

LEMMA ShapeIs ==
    ASSUME NEW Size \in Sizes, NEW L \in Nat
    PROVE  \E q \in Nat, r \in Nat, f \in Nat, S \in Nat : Shaped(Size, L, q, r, f, S)
<1>. DEFINE q == L \div group_bytes(Size)
            r == L % group_bytes(Size)
<1>1. CASE Size = 16
    <2>1. /\ symbol_bits(Size) = 4 /\ group_symbols(Size) = 2 /\ group_bytes(Size) = 1
        BY <1>1, Widths
    <2>2. Shaped(Size, L, L, 0, 0, 0)
        BY <2>1 DEF Shaped
    <2>. QED  BY <2>2
<1>2. CASE Size = 32
    <2>1. /\ symbol_bits(Size) = 5 /\ group_symbols(Size) = 8 /\ group_bytes(Size) = 5
        BY <1>2, Widths
    <2>2. q \in Nat /\ r \in 0..4 /\ L = 5 * q + r /\ q = L \div 5
        BY <2>1
    <2>. HIDE DEF q, r
    <2>3. CASE r = 0
        <3>1. Shaped(Size, L, q, 0, 0, 0)
            BY <2>1, <2>2, <2>3 DEF Shaped
        <3>. QED  BY <2>2, <3>1
    <2>4. CASE r = 1
        <3>1. Shaped(Size, L, q, 1, 2, 2)
            BY <2>1, <2>2, <2>4 DEF Shaped
        <3>. QED  BY <2>2, <3>1
    <2>5. CASE r = 2
        <3>1. Shaped(Size, L, q, 2, 4, 4)
            BY <2>1, <2>2, <2>5 DEF Shaped
        <3>. QED  BY <2>2, <3>1
    <2>6. CASE r = 3
        <3>1. Shaped(Size, L, q, 3, 1, 5)
            BY <2>1, <2>2, <2>6 DEF Shaped
        <3>. QED  BY <2>2, <3>1
    <2>7. CASE r = 4
        <3>1. Shaped(Size, L, q, 4, 3, 7)
            BY <2>1, <2>2, <2>7 DEF Shaped
        <3>. QED  BY <2>2, <3>1
    <2>. QED  BY <2>2, <2>3, <2>4, <2>5, <2>6, <2>7
<1>3. CASE Size = 64
    <2>1. /\ symbol_bits(Size) = 6 /\ group_symbols(Size) = 4 /\ group_bytes(Size) = 3
        BY <1>3, Widths
    <2>2. q \in Nat /\ r \in 0..2 /\ L = 3 * q + r /\ q = L \div 3
        BY <2>1
    <2>. HIDE DEF q, r
    <2>3. CASE r = 0
        <3>1. Shaped(Size, L, q, 0, 0, 0)
            BY <2>1, <2>2, <2>3 DEF Shaped
        <3>. QED  BY <2>2, <3>1
    <2>4. CASE r = 1
        <3>1. Shaped(Size, L, q, 1, 4, 2)
            BY <2>1, <2>2, <2>4 DEF Shaped
        <3>. QED  BY <2>2, <3>1
    <2>5. CASE r = 2
        <3>1. Shaped(Size, L, q, 2, 2, 3)
            BY <2>1, <2>2, <2>5 DEF Shaped
        <3>. QED  BY <2>2, <3>1
    <2>. QED  BY <2>2, <2>3, <2>4, <2>5
<1>. QED  BY <1>1, <1>2, <1>3 DEF Sizes

\* The same bits at other places are the same chunks.
Within(c, b, n, a, m) == \A x \in 1..(n * m) : c[x] = b[n * a + x]
ChunksIn(c, b, n, a, m) == \A i \in 1..m : Chunk(c, n, i) = Chunk(b, n, a + i)

LEMMA ChunkAt ==
    ASSUME NEW n \in Nat \ {0}, NEW a \in Nat, NEW m \in Nat, NEW b, NEW c, Within(c, b, n, a, m)
    PROVE  ChunksIn(c, b, n, a, m)
<1>. SUFFICES ASSUME NEW i \in 1..m PROVE Chunk(c, n, i) = Chunk(b, n, a + i)
    BY DEF ChunksIn
<1>1. ASSUME NEW j \in 1..n PROVE c[n * (i - 1) + j] = b[n * (a + i - 1) + j]
    <2>. DEFINE x == n * (i - 1) + j
    <2>1. i \in Nat \ {0} /\ x \in 1..(n * i)
        BY PlaceIs
    <2>2. n * i \in Nat /\ n * m \in Nat /\ n * i <= n * m
        OBVIOUS
    <2>3. x \in 1..(n * m)
        BY <2>1, <2>2
    <2>4. n * a + x = n * (a + i - 1) + j
        OBVIOUS
    <2>. HIDE DEF x
    <2>5. c[x] = b[n * a + x]
        BY <2>3 DEF Within
    <2>. QED  BY <2>4, <2>5 DEF x
<1>. QED  BY ONLY <1>1 DEF Chunk

\* The bits of octets, eight of each.
LEMMA TallyIs ==
    ASSUME NEW L \in Nat, NEW s \in [1..L -> Octets]
    PROVE  /\ Tally(s) \in Bits(8 * L)
           /\ \A k \in 1..L, j \in 1..8 : Tally(s)[8 * (k - 1) + j] = BitsOf(s[k], 8)[j]
<1>1. \A k \in 1..L : BitsOf(s[k], 8) \in Bits(8)
    BY OctetBits
<1>2. s \in [1..L -> Int]
    <2>1. Octets \subseteq Int
        BY DEF Octets
    <2>. QED  BY <2>1
<1>3. 8 \in {4, 5, 6, 8}
    OBVIOUS
<1>. QED  BY ONLY L \in Nat, <1>1, <1>2, <1>3, SpreadIs DEF Tally

\* The bits of a part are a part of the bits.
LEMMA TallyOfPart ==
    ASSUME NEW L \in Nat, NEW s \in [1..L -> Octets], NEW a \in Nat, NEW m \in Nat, a + m <= L
    PROVE  /\ SubSeq(s, a + 1, a + m) \in [1..m -> Octets]
           /\ \A k \in 1..m : SubSeq(s, a + 1, a + m)[k] = s[a + k]
           /\ Tally(SubSeq(s, a + 1, a + m)) \in Bits(8 * m)
           /\ Within(Tally(SubSeq(s, a + 1, a + m)), Tally(s), 8, a, m)
<1>. DEFINE p == SubSeq(s, a + 1, a + m)
<1>1. p \in [1..m -> Octets] /\ \A k \in 1..m : p[k] = s[a + k]
    BY SliceIs
<1>. HIDE DEF p
<1>2. /\ Tally(p) \in Bits(8 * m)
      /\ \A k \in 1..m, j \in 1..8 : Tally(p)[8 * (k - 1) + j] = BitsOf(p[k], 8)[j]
    BY <1>1, TallyIs
<1>3. \A k \in 1..L, j \in 1..8 : Tally(s)[8 * (k - 1) + j] = BitsOf(s[k], 8)[j]
    BY TallyIs
<1>4. ASSUME NEW x \in 1..(8 * m) PROVE Tally(p)[x] = Tally(s)[8 * a + x]
    <2>0. 8 \in Nat \ {0}
        OBVIOUS
    <2>1. PICK k \in 1..m, j \in 1..8 : Placed(x, 8, k, j)
        BY ONLY <2>0, m \in Nat, x \in 1..(8 * m), PlaceOf
    <2>2. x = 8 * (k - 1) + j /\ 8 * a + x = 8 * (a + k - 1) + j /\ a + k \in 1..L
        BY <2>1 DEF Placed
    <2>3. Tally(p)[8 * (k - 1) + j] = BitsOf(s[a + k], 8)[j]
        BY ZenonT(60), <1>1, <1>2
    <2>4. Tally(s)[8 * (a + k - 1) + j] = BitsOf(s[a + k], 8)[j]
        <3>. DEFINE h == a + k
        <3>1. h \in 1..L
            BY <2>2
        <3>. HIDE DEF h
        <3>2. Tally(s)[8 * (h - 1) + j] = BitsOf(s[h], 8)[j]
            BY <1>3, <3>1
        <3>. QED  BY <3>2 DEF h
    <2>. QED  BY <2>2, <2>3, <2>4
<1>. QED  BY <1>1, <1>2, <1>4 DEF p, Within

LEMMA ZeroesAre == ASSUME NEW n \in Nat PROVE Zeroes(n) \in Bits(n)
BY DEF Zeroes, Bits

\* Octets filled up with zero bits.
Filled(s, f) == Tally(s) \o Zeroes(f)

LEMMA FilledIs ==
    ASSUME NEW L \in Nat, NEW s \in [1..L -> Octets], NEW f \in Nat
    PROVE  /\ Filled(s, f) \in Bits(8 * L + f)
           /\ \A x \in 1..(8 * L) : Filled(s, f)[x] = Tally(s)[x]
           /\ \A x \in 1..f : Filled(s, f)[8 * L + x] = 0
<1>1. Tally(s) \in Bits(8 * L) /\ Zeroes(f) \in Bits(f) /\ 8 * L \in Nat
    BY TallyIs, ZeroesAre
<1>2. \A x \in 1..f : Zeroes(f)[x] = 0
    BY DEF Zeroes
<1>. SUFFICES ASSUME NEW T, T = 0..1
              PROVE  /\ Filled(s, f) \in [1..(8 * L + f) -> T]
                     /\ \A x \in 1..(8 * L) : Filled(s, f)[x] = Tally(s)[x]
                     /\ \A x \in 1..f : Filled(s, f)[8 * L + x] = 0
    BY DEF Bits
<1>. DEFINE u == 8 * L
<1>3. u \in Nat /\ Tally(s) \in [1..u -> T] /\ Zeroes(f) \in [1..f -> T]
    BY <1>1 DEF Bits
<1>. HIDE DEF u
<1>. DEFINE t == Tally(s)
            z == Zeroes(f)
<1>4. t \in [1..u -> T] /\ z \in [1..f -> T]
    BY <1>3
<1>. HIDE DEF t, z
<1>a. u \in Nat
    BY <1>3
<1>5. t \o z \in [1..(u + f) -> T]
    BY ONLY f \in Nat, <1>a, <1>4, Joined
<1>6. \A x \in 1..u : (t \o z)[x] = t[x]
    BY ONLY f \in Nat, <1>a, <1>4, Joined
<1>7. \A x \in 1..f : (t \o z)[u + x] = z[x]
    BY ONLY f \in Nat, <1>a, <1>4, Joined
<1>. QED  BY <1>2, <1>5, <1>6, <1>7 DEF u, t, z, Filled

\* The last part of the octets, filled with zeroes, as a part of them all.
LEMMA FilledOfPart ==
    ASSUME NEW L \in Nat, NEW s \in [1..L -> Octets], NEW a \in Nat, NEW m \in Nat, a + m = L, NEW f \in Nat
    PROVE  /\ Filled(SubSeq(s, a + 1, L), f) \in Bits(8 * m + f)
           /\ \A x \in 1..(8 * m + f) : Filled(SubSeq(s, a + 1, L), f)[x] = Filled(s, f)[8 * a + x]
<1>. DEFINE p == SubSeq(s, a + 1, L)
<1>1. p \in [1..m -> Octets] /\ \A x \in 1..(8 * m) : Tally(p)[x] = Tally(s)[8 * a + x]
    <2>1. SubSeq(s, a + 1, L) = SubSeq(s, a + 1, a + m) /\ a + m <= L
        OBVIOUS
    <2>2. SubSeq(s, a + 1, a + m) \in [1..m -> Octets]
        BY <2>1, TallyOfPart
    <2>3. \A x \in 1..(8 * m) : Tally(SubSeq(s, a + 1, a + m))[x] = Tally(s)[8 * a + x]
        <3>1. Within(Tally(SubSeq(s, a + 1, a + m)), Tally(s), 8, a, m)
            BY ONLY L \in Nat, s \in [1..L -> Octets], a \in Nat, m \in Nat, <2>1, TallyOfPart
        <3>. QED  BY <3>1 DEF Within
    <2>. QED  BY <2>1, <2>2, <2>3
<1>. HIDE DEF p
<1>2. /\ Filled(p, f) \in Bits(8 * m + f)
      /\ \A x \in 1..(8 * m) : Filled(p, f)[x] = Tally(p)[x]
      /\ \A x \in 1..f : Filled(p, f)[8 * m + x] = 0
    BY <1>1, FilledIs
<1>3. /\ \A x \in 1..(8 * L) : Filled(s, f)[x] = Tally(s)[x]
      /\ \A x \in 1..f : Filled(s, f)[8 * L + x] = 0
    BY ZenonT(60), FilledIs
<1>4. ASSUME NEW x \in 1..(8 * m + f) PROVE Filled(p, f)[x] = Filled(s, f)[8 * a + x]
    <2>1. CASE x \in 1..(8 * m)
        <3>1. 8 * a + x \in 1..(8 * L)
            BY <2>1
        <3>. QED  BY <1>1, <1>2, <1>3, <2>1, <3>1
    <2>2. CASE x > 8 * m
        <3>. DEFINE y == x - 8 * m
        <3>1. y \in 1..f /\ x = 8 * m + y /\ 8 * a + x = 8 * L + y
            BY <2>2
        <3>. HIDE DEF y
        <3>. QED  BY <1>2, <1>3, <3>1
    <2>. QED  BY <2>1, <2>2
<1>. QED  BY <1>2, <1>4 DEF p

\* A text of as many symbols as the bits fill, and padding.
Coded(Size, text, b, T, M) ==
    /\ text \in [1..T -> Octets]
    /\ \A i \in 1..M : text[i] = enc(Size)[Number(Chunk(b, symbol_bits(Size), i))]
    /\ \A i \in (M + 1)..T : text[i] = Pad

\* The last group, with its padding, and the groups in front of it.
LEMMA PaddedIs ==
    ASSUME NEW Size \in Sizes, NEW m \in Nat, NEW fill \in Nat, NEW b \in Bits(symbol_bits(Size) * m)
    PROVE  Coded(Size, Symbols(Size, b) \o [i \in 1..fill |-> Pad], b, m + fill, m)
<1>. DEFINE y == Symbols(Size, b)
            p == [i \in 1..fill |-> Pad]
<1>1. y \in [1..m -> Octets] /\ \A i \in 1..m : y[i] = enc(Size)[Number(Chunk(b, symbol_bits(Size), i))]
    BY SymbolsAre
<1>2. p \in [1..fill -> Octets] /\ \A i \in 1..fill : p[i] = Pad
    BY DEF Pad, Octets
<1>. HIDE DEF y, p
<1>3. y \o p \in [1..(m + fill) -> Octets]
    BY ONLY m \in Nat, fill \in Nat, <1>1, <1>2, Joined
<1>4. \A i \in 1..m : (y \o p)[i] = y[i]
    BY ONLY m \in Nat, fill \in Nat, <1>1, <1>2, Joined
<1>5. \A i \in 1..fill : (y \o p)[m + i] = p[i]
    BY ONLY m \in Nat, fill \in Nat, <1>1, <1>2, Joined
<1>6. ASSUME NEW i \in (m + 1)..(m + fill) PROVE (y \o p)[i] = Pad
    <2>. DEFINE x == i - m
    <2>1. x \in 1..fill /\ i = m + x
        OBVIOUS
    <2>. HIDE DEF x
    <2>. QED  BY <2>1, <1>2, <1>5
<1>. QED  BY <1>1, <1>3, <1>4, <1>6 DEF Coded, y, p

LEMMA CodedJoin ==
    ASSUME NEW Size \in Sizes, NEW k \in Nat, NEW t, NEW m \in Nat, NEW u, NEW T \in Nat, m <= T,
           NEW b, NEW c, NEW d, Coded(Size, t, c, k, k), Coded(Size, u, d, T, m),
           \A i \in 1..k : Chunk(c, symbol_bits(Size), i) = Chunk(b, symbol_bits(Size), i),
           \A i \in 1..m : Chunk(d, symbol_bits(Size), i) = Chunk(b, symbol_bits(Size), k + i)
    PROVE  Coded(Size, t \o u, b, k + T, k + m)
<1>. DEFINE n == symbol_bits(Size)
<1>1. t \in [1..k -> Octets] /\ \A i \in 1..k : t[i] = enc(Size)[Number(Chunk(b, n, i))]
    BY DEF Coded
<1>2. /\ u \in [1..T -> Octets] /\ \A i \in 1..m : u[i] = enc(Size)[Number(Chunk(b, n, k + i))]
      /\ \A i \in (m + 1)..T : u[i] = Pad
    BY DEF Coded
<1>. HIDE DEF n
<1>a. t \in [1..k -> Octets] /\ u \in [1..T -> Octets] /\ k \in Nat /\ T \in Nat
    BY <1>1, <1>2
<1>3. t \o u \in [1..(k + T) -> Octets]
    BY ONLY <1>a, Joined
<1>4. \A i \in 1..k : (t \o u)[i] = t[i]
    BY ONLY <1>a, Joined
<1>5. \A i \in 1..T : (t \o u)[k + i] = u[i]
    BY ONLY <1>a, Joined
<1>. DEFINE v == t \o u
<1>. HIDE DEF v
<1>6. ASSUME NEW i \in 1..(k + m) PROVE v[i] = enc(Size)[Number(Chunk(b, n, i))]
    <2>1. CASE i \in 1..k
        BY <1>1, <1>4, <2>1 DEF v
    <2>2. CASE i > k
        <3>. DEFINE x == i - k
        <3>1. x \in 1..m /\ x \in 1..T /\ i = k + x
            BY <2>2
        <3>. HIDE DEF x
        <3>. QED  BY <1>2, <1>5, <3>1 DEF v
    <2>. QED  BY <2>1, <2>2
<1>7. ASSUME NEW i \in (k + m + 1)..(k + T) PROVE v[i] = Pad
    <2>. DEFINE x == i - k
    <2>1. x \in (m + 1)..T /\ x \in 1..T /\ i = k + x
        OBVIOUS
    <2>. HIDE DEF x
    <2>. QED  BY <1>2, <1>5, <2>1 DEF v
<1>. QED  BY <1>3, <1>6, <1>7 DEF Coded, v, n

\* Without padding, too.
LEMMA UnpaddedIs ==
    ASSUME NEW Size \in Sizes, NEW m \in Nat, NEW b \in Bits(symbol_bits(Size) * m)
    PROVE  Coded(Size, Symbols(Size, b), b, m, m)
<1>1. /\ Symbols(Size, b) \in [1..m -> Octets]
      /\ \A i \in 1..m : Symbols(Size, b)[i] = enc(Size)[Number(Chunk(b, symbol_bits(Size), i))]
    BY SymbolsAre
<1>. QED  BY <1>1 DEF Coded

\* What encode returns, for any octets.
LEMMA TextIs ==
    ASSUME NEW Size \in Sizes, NEW L \in Nat, NEW s \in [1..L -> Octets],
           NEW q \in Nat, NEW r \in Nat, NEW f \in Nat, NEW S \in Nat, Shaped(Size, L, q, r, f, S)
    PROVE  Coded(Size, encode(Size, s), Filled(s, f),
                 group_symbols(Size) * (IF r = 0 THEN q ELSE q + 1), group_symbols(Size) * q + S)
<1>. DEFINE n == symbol_bits(Size)
            gs == group_symbols(Size)
            gb == group_bytes(Size)
            b == Filled(s, f)
            k == gs * q
            w == gb * q
<1>1. n \in Nat \ {0} /\ gs \in Nat \ {0} /\ gb \in Nat \ {0}
    BY SMTT(40), Widths
<1>2. /\ L = w + r /\ (L \div gb) * gb = w /\ f \in 0..(n - 1)
      /\ 8 * L + f = n * (k + S) /\ 8 * w = n * k
      /\ 8 * r + f = n * S /\ S \in 0..(gs - 1) /\ (r = 0 <=> S = 0) /\ (r = 0 => f = 0)
      /\ r # 0 => n - ((r * 8) % n) = f /\ ((gb - r) * 8) \div n = gs - S
    BY DEF Shaped
<1>3. k \in Nat /\ w \in Nat /\ Len(s) = L /\ L - w = r
    <2>1. k \in Nat /\ w \in Nat
        BY <1>1
    <2>2. Len(s) = L
        BY RowIs
    <2>. HIDE DEF k, w
    <2>. QED  BY <1>2, <2>1, <2>2
<1>. DEFINE c == Tally(SubSeq(s, 1, w))
            d == Filled(SubSeq(s, w + 1, L), f)
            head == Symbols(Size, c)
            last == Symbols(Size, d) \o [i \in 1..(gs - S) |-> Pad]
<1>4. encode(Size, s) = head \o IF r = 0 THEN <<>> ELSE last
    <2>1. CASE r = 0
        BY <1>2, <1>3, <2>1 DEF encode
    <2>2. CASE r # 0
        BY <1>2, <1>3, <2>2 DEF encode, Filled
    <2>. QED  BY <2>1, <2>2
<1>. HIDE DEF n, gs, gb, k, w
<1>5. c \in Bits(n * k) /\ \A x \in 1..(n * k) : c[x] = b[n * 0 + x]
    <2>1. 0 \in Nat /\ 0 + w <= L /\ SubSeq(s, 1, w) = SubSeq(s, 0 + 1, 0 + w)
        BY <1>2, <1>3
    <2>2. c \in Bits(8 * w)
        BY <1>3, <2>1, TallyOfPart
    <2>3. \A x \in 1..(8 * w) : Tally(SubSeq(s, 0 + 1, 0 + w))[x] = Tally(s)[8 * 0 + x]
        <3>1. w \in Nat /\ 0 \in Nat /\ 0 + w <= L
            BY <1>3, <2>1
        <3>2. Within(Tally(SubSeq(s, 0 + 1, 0 + w)), Tally(s), 8, 0, w)
            BY ONLY L \in Nat, s \in [1..L -> Octets], <3>1, TallyOfPart
        <3>. QED  BY <3>2 DEF Within
    <2>4. \A x \in 1..(8 * L) : b[x] = Tally(s)[x]
        BY FilledIs
    <2>5. 8 * w <= 8 * L /\ n * k \in Nat
        BY <1>1, <1>2, <1>3
    <2>6. ASSUME NEW x \in 1..(n * k) PROVE c[x] = b[n * 0 + x]
        <3>1. x \in 1..(8 * w) /\ x \in 1..(8 * L) /\ 8 * 0 + x = x /\ n * 0 + x = x
            BY <1>1, <1>2, <1>3, <2>5
        <3>. QED  BY <2>1, <2>3, <2>4, <3>1
    <2>. QED  BY <1>2, <2>2, <2>6
<1>6. d \in Bits(n * S) /\ \A x \in 1..(n * S) : d[x] = b[n * k + x]
    <2>1. w + r = L
        BY <1>2
    <2>2. d \in Bits(8 * r + f)
        BY <1>3, <2>1, FilledOfPart
    <2>3. \A x \in 1..(8 * r + f) : d[x] = b[8 * w + x]
        BY <1>3, <2>1, FilledOfPart
    <2>. QED  BY <1>2, <2>2, <2>3
<1>. HIDE DEF c, d, b
<1>7. \A i \in 1..k : Chunk(c, n, i) = Chunk(b, n, i)
    <2>1. \A i \in 1..k : Chunk(c, n, i) = Chunk(b, n, 0 + i)
        <3>1. k \in Nat /\ 0 \in Nat
            BY <1>3
        <3>2. Within(c, b, n, 0, k)
            BY <1>5 DEF Within
        <3>3. ChunksIn(c, b, n, 0, k)
            BY ONLY <1>1, <3>1, <3>2, ChunkAt
        <3>. QED  BY <3>3 DEF ChunksIn
    <2>. QED  BY <2>1
<1>8. \A i \in 1..S : Chunk(d, n, i) = Chunk(b, n, k + i)
    <2>1. k \in Nat /\ S \in Nat
        BY <1>3
    <2>2. Within(d, b, n, k, S)
        BY <1>6 DEF Within
    <2>3. ChunksIn(d, b, n, k, S)
        BY ONLY <1>1, <2>1, <2>2, ChunkAt
    <2>. QED  BY <2>3 DEF ChunksIn
<1>9. Coded(Size, head, c, k, k)
    BY <1>3, <1>5, UnpaddedIs DEF n
<1>10. CASE r = 0
    <2>1. Coded(Size, <<>>, d, 0, 0)
        BY DEF Coded
    <2>2. 0 \in Nat /\ 0 <= 0
        OBVIOUS
    <2>3. \A i \in 1..0 : Chunk(d, n, i) = Chunk(b, n, k + i)
        OBVIOUS
    <2>4. Coded(Size, head \o <<>>, b, k + 0, k + 0)
        BY ONLY Size \in Sizes, <1>3, <1>7, <1>9, <2>1, <2>2, <2>3, CodedJoin DEF n
    <2>. QED  BY <1>2, <1>3, <1>4, <1>10, <2>4 DEF k, b, gs
<1>11. CASE r # 0
    <2>1. gs - S \in Nat /\ S + (gs - S) = gs /\ S <= gs
        BY <1>1, <1>2
    <2>2. Coded(Size, last, d, S + (gs - S), S)
        BY <1>6, <2>1, PaddedIs DEF n
    <2>3. Coded(Size, last, d, gs, S) /\ gs \in Nat
        BY <2>1, <2>2, <1>1
    <2>. HIDE DEF last, head
    <2>4. Coded(Size, head \o last, b, k + gs, k + S)
        BY ONLY Size \in Sizes, <1>3, <1>7, <1>8, <1>9, <2>1, <2>3, S \in Nat, CodedJoin DEF n
    <2>5. k + gs = gs * (q + 1)
        BY <1>1 DEF k
    <2>. QED  BY <1>4, <1>11, <2>4, <2>5 DEF k, b, gs
<1>. QED  BY <1>10, <1>11

\* The symbols of some bits, and the register that takes them.
Carries(Size, w, b, a, m) ==
    /\ w \in [1..m -> Octets]
    /\ \A k \in 1..m : w[k] = enc(Size)[Number(Chunk(b, symbol_bits(Size), a + k))]
Register(z, b, n, a, m) == \A x \in 1..(n * m) : z[(64 - n * m) + x] = b[n * a + x]

LEMMA ChunkOf ==
    ASSUME NEW Size \in Sizes, NEW M \in Nat, NEW b \in Bits(symbol_bits(Size) * M), NEW i \in 1..M
    PROVE  /\ Chunk(b, symbol_bits(Size), i) \in Bits(symbol_bits(Size))
           /\ enc(Size)[Number(Chunk(b, symbol_bits(Size), i))] # Pad
           /\ BitsOf(dec(Size)[enc(Size)[Number(Chunk(b, symbol_bits(Size), i))]], symbol_bits(Size))
                  = Chunk(b, symbol_bits(Size), i)
           /\ dec(Size)[enc(Size)[Number(Chunk(b, symbol_bits(Size), i))]] \in Int
<1>. DEFINE n == symbol_bits(Size)
            c == Chunk(b, n, i)
<1>1. n \in Nat \ {0}
    BY Widths
<1>2. c \in Bits(n)
    BY <1>1, ChunkIs
<1>3. Number(c) \in 0..(Size - 1) /\ BitsOf(Number(c), n) = c
    BY <1>2, SymbolIs
<1>4. enc(Size)[Number(c)] # Pad /\ dec(Size)[enc(Size)[Number(c)]] = Number(c)
    BY <1>3, Alphabets
<1>5. 0..(Size - 1) \subseteq Int
    BY DEF Sizes
<1>. QED  BY <1>2, <1>3, <1>4, <1>5

\* The last bits of num are those of the symbols, and zeroes stand in front.
LEMMA NumIs ==
    ASSUME NEW Size \in Sizes, NEW M \in Nat, NEW a \in Nat, NEW m \in Nat, a + m <= M,
           NEW b \in Bits(symbol_bits(Size) * M), symbol_bits(Size) * m <= 64,
           NEW w, Carries(Size, w, b, a, m)
    PROVE  /\ num(Size, w) \in Bits(64)
           /\ Register(num(Size, w), b, symbol_bits(Size), a, m)
<1>. DEFINE n == symbol_bits(Size)
            v == [i \in DOMAIN w |-> dec(Size)[w[i]]]
            bb == Spread(v, n)
<1>1. n \in Nat \ {0} /\ n \in {4, 5, 6, 8}
    BY Widths
<1>2. DOMAIN w = 1..m
    BY DEF Carries
<1>3. ASSUME NEW k \in 1..m PROVE v[k] \in Int /\ BitsOf(v[k], n) = Chunk(b, n, a + k) /\ Chunk(b, n, a + k) \in Bits(n)
    <2>. DEFINE h == a + k
    <2>1. h \in 1..M /\ w[k] = enc(Size)[Number(Chunk(b, n, h))]
        BY DEF Carries
    <2>. HIDE DEF h
    <2>2. v[k] = dec(Size)[enc(Size)[Number(Chunk(b, n, h))]]
        BY <1>2, <2>1
    <2>. QED  BY <2>1, <2>2, ChunkOf DEF h
<1>4. v \in [1..m -> Int]
    BY <1>2, <1>3
<1>. HIDE DEF v
<1>5. \A k \in 1..m : BitsOf(v[k], n) \in Bits(n)
    BY <1>3
<1>. HIDE DEF n
<1>6. bb \in Bits(n * m)
    BY ONLY <1>1, m \in Nat, <1>4, <1>5, SpreadIs
<1>7. \A k \in 1..m, j \in 1..n : bb[n * (k - 1) + j] = BitsOf(v[k], n)[j]
    BY ONLY ZenonT(60), <1>1, m \in Nat, <1>4, <1>5, SpreadIs
<1>. HIDE DEF bb
<1>8. ASSUME NEW x \in 1..(n * m) PROVE bb[x] = b[n * a + x]
    <2>1. PICK k \in 1..m, j \in 1..n : Placed(x, n, k, j)
        BY ONLY <1>1, m \in Nat, x \in 1..(n * m), PlaceOf
    <2>2. x = n * (k - 1) + j
        BY <2>1 DEF Placed
    <2>3. n * a + x = n * (a + k - 1) + j
        BY <1>1, <2>2
    <2>4. bb[x] = Chunk(b, n, a + k)[j]
        BY <1>3, <1>7, <2>2
    <2>5. Chunk(b, n, a + k)[j] = b[n * (a + k - 1) + j]
        BY DEF Chunk
    <2>. QED  BY <2>3, <2>4, <2>5
<1>. DEFINE l == n * m
            e == 64 - l
            z == Zeroes(e)
<1>9. l \in Nat /\ l <= 64 /\ e \in Nat /\ e + l = 64
    <2>1. l \in Nat
        BY <1>1
    <2>2. l <= 64
        BY DEF n
    <2>. HIDE DEF l
    <2>. QED  BY <2>1, <2>2
<1>. HIDE DEF l, e
<1>10. z \in Bits(e) /\ bb \in Bits(l)
    BY <1>6, <1>9, ZeroesAre DEF l
<1>11. Len(bb) = l
    BY <1>9, <1>10, RowIs DEF Bits
<1>12. num(Size, w) = z \o bb
    BY <1>9, <1>11 DEF num, bb, v, n, e
<1>. HIDE DEF z
<1>13. /\ z \o bb \in Bits(64) /\ \A x \in 1..l : (z \o bb)[e + x] = bb[x]
    <2>. SUFFICES ASSUME NEW T, T = 0..1
                  PROVE  z \o bb \in [1..64 -> T] /\ \A x \in 1..l : (z \o bb)[e + x] = bb[x]
        BY DEF Bits
    <2>1. z \in [1..e -> T] /\ bb \in [1..l -> T]
        BY <1>10 DEF Bits
    <2>2. z \o bb \in [1..(e + l) -> T]
        BY ONLY <1>9, <2>1, Joined
    <2>3. \A x \in 1..l : (z \o bb)[e + x] = bb[x]
        <3>1. e \in Nat /\ l \in Nat
            BY <1>9
        <3>. QED  BY ONLY <3>1, <2>1, Joined
    <2>. QED  BY <1>9, <2>2, <2>3
<1>. QED  BY <1>8, <1>12, <1>13 DEF Register, l, e, n

\* Bits that end with those of some octets.
Ending(w, t, e, l) == \A x \in 1..(8 * l) : w[e + x] = Tally(t)[x]

\* LowBytes of such bits are the octets.
LEMMA LowBytesIs ==
    ASSUME NEW W \in Nat, NEW w \in Bits(W), NEW l \in Nat, NEW e \in Nat, e + 8 * l = W,
           NEW t \in [1..l -> Octets], Ending(w, t, e, l)
    PROVE  LowBytes(w, l) = t
<1>. DEFINE low == SubSeq(w, W - 8 * l + 1, W)
<1>1. Len(w) = W
    BY RowIs DEF Bits
<1>2. low = SubSeq(w, e + 1, e + 8 * l)
    <2>1. W - 8 * l + 1 = e + 1 /\ W = e + 8 * l
        OBVIOUS
    <2>. QED  BY <2>1
<1>. DEFINE u == 8 * l
<1>3. u \in Nat /\ e + u <= W
    OBVIOUS
<1>. HIDE DEF u
<1>4. SubSeq(w, e + 1, e + u) \in Bits(u)
    BY ONLY W \in Nat, w \in Bits(W), e \in Nat, <1>3, BitPiece
<1>5. \A x \in 1..u : SubSeq(w, e + 1, e + u)[x] = w[e + x]
    BY ONLY W \in Nat, w \in Bits(W), e \in Nat, <1>3, BitPiece
<1>6. low \in Bits(8 * l) /\ \A x \in 1..(8 * l) : low[x] = Tally(t)[x]
    BY <1>2, <1>4, <1>5 DEF u, Ending
<1>7. LowBytes(w, l) = [i \in 1..l |-> Number(Chop(low, 8)[i])]
    BY <1>1 DEF LowBytes
<1>. HIDE DEF low
<1>8. Chop(low, 8) = [i \in 1..l |-> Chunk(low, 8, i)]
    <2>1. 8 \in Nat \ {0}
        OBVIOUS
    <2>. QED  BY <1>6, <2>1, ChopIs
<1>9. \A k \in 1..l, j \in 1..8 : Tally(t)[8 * (k - 1) + j] = BitsOf(t[k], 8)[j]
    BY TallyIs
<1>10. ASSUME NEW i \in 1..l PROVE Number(Chop(low, 8)[i]) = t[i]
    <2>1. \A j \in 1..8 : 8 * (i - 1) + j \in 1..(8 * l)
        OBVIOUS
    <2>2. \A j \in 1..8 : low[8 * (i - 1) + j] = BitsOf(t[i], 8)[j]
        BY <1>6, <1>9, <2>1
    <2>3. Chunk(low, 8, i) = [j \in 1..8 |-> BitsOf(t[i], 8)[j]]
        BY <2>2 DEF Chunk
    <2>4. t[i] \in Octets
        OBVIOUS
    <2>5. BitsOf(t[i], 8) \in Bits(8) /\ Number(BitsOf(t[i], 8)) = t[i]
        BY <2>4, OctetBits
    <2>6. [j \in 1..8 |-> BitsOf(t[i], 8)[j]] = BitsOf(t[i], 8)
        BY <2>5 DEF Bits
    <2>. QED  BY <1>8, <2>3, <2>5, <2>6
<1>. QED  BY <1>7, <1>10

\* The symbols of the first group.
LEMMA HeadIs ==
    ASSUME NEW B, NEW n \in Nat, NEW k \in Nat, k <= n, NEW z \in [1..n -> B]
    PROVE  SubSeq(z, 1, k) \in [1..k -> B] /\ \A i \in 1..k : SubSeq(z, 1, k)[i] = z[i]
<1>1. 0 \in Nat /\ 0 + k <= n
    OBVIOUS
<1>2. SubSeq(z, 0 + 1, 0 + k) \in [1..k -> B]
    BY ONLY n \in Nat, k \in Nat, z \in [1..n -> B], <1>1, SliceIs
<1>3. \A i \in 1..k : SubSeq(z, 0 + 1, 0 + k)[i] = z[0 + i]
    BY ONLY n \in Nat, k \in Nat, z \in [1..n -> B], <1>1, SliceIs
<1>4. SubSeq(z, 1, k) = SubSeq(z, 0 + 1, 0 + k)
    OBVIOUS
<1>. QED  BY <1>2, <1>3, <1>4

\* What decode takes of the rest of a text: the symbols up to the padding.
Rest(text, h) == SubSeq(text, h + 1, Len(text))
End(rest) == CHOOSE e \in 1 .. Len(rest) + 1 :
                 (e = Len(rest) + 1 \/ rest[e] = Pad) /\ \A i \in 1 .. e - 1 : rest[i] # Pad

LEMMA RestIs ==
    ASSUME NEW Size \in Sizes, NEW T \in Nat, NEW M \in Nat, M <= T, NEW h \in Nat, h <= M,
           NEW b \in Bits(symbol_bits(Size) * M), NEW text, Coded(Size, text, b, T, M)
    PROVE  /\ End(Rest(text, h)) - 1 = M - h
           /\ Carries(Size, SubSeq(Rest(text, h), 1, M - h), b, h, M - h)
<1>. DEFINE n == symbol_bits(Size)
            rest == Rest(text, h)
            k == T - h
            m == M - h
<1>1. text \in [1..T -> Octets] /\ Len(text) = T
    BY RowIs DEF Coded
<1>2. k \in Nat /\ m \in Nat /\ m <= k /\ h + k = T /\ h + m = M /\ h + k <= T
    OBVIOUS
<1>. HIDE DEF k, m
<1>3. rest = SubSeq(text, h + 1, h + k)
    BY <1>1, <1>2 DEF Rest
<1>4. rest \in [1..k -> Octets]
    BY ONLY T \in Nat, h \in Nat, <1>1, <1>2, <1>3, SliceIs
<1>5. \A i \in 1..k : rest[i] = text[h + i]
    BY ONLY T \in Nat, h \in Nat, <1>1, <1>2, <1>3, SliceIs
<1>6. Len(rest) = k
    BY <1>2, <1>4, RowIs
<1>. HIDE DEF rest
<1>7. ASSUME NEW i \in 1..m
      PROVE  rest[i] = enc(Size)[Number(Chunk(b, n, h + i))] /\ rest[i] # Pad
    <2>. DEFINE x == h + i
    <2>1. x \in 1..M /\ i \in 1..k
        BY <1>2
    <2>. HIDE DEF x
    <2>2. text[x] = enc(Size)[Number(Chunk(b, n, x))] /\ text[x] # Pad
        BY <2>1, ChunkOf DEF Coded
    <2>. QED  BY <1>5, <2>1, <2>2 DEF x
<1>8. ASSUME m < k PROVE rest[m + 1] = Pad
    <2>. DEFINE x == h + (m + 1)
    <2>1. x \in (M + 1)..T /\ m + 1 \in 1..k
        BY <1>2, <1>8
    <2>. HIDE DEF x
    <2>2. text[x] = Pad
        BY <2>1 DEF Coded
    <2>. QED  BY <1>5, <2>1, <2>2 DEF x
<1>9. End(rest) = m + 1
    <2>. DEFINE IsEnd(e) == (e = Len(rest) + 1 \/ rest[e] = Pad) /\ \A i \in 1 .. e - 1 : rest[i] # Pad
    <2>1. m + 1 \in 1..Len(rest) + 1 /\ IsEnd(m + 1)
        <3>1. CASE m = k
            BY <1>2, <1>6, <1>7, <3>1
        <3>2. CASE m < k
            BY <1>2, <1>6, <1>7, <1>8, <3>2
        <3>. QED  BY <1>2, <3>1, <3>2
    <2>2. ASSUME NEW e \in 1..Len(rest) + 1, IsEnd(e) PROVE e = m + 1
        <3>1. CASE e < m + 1
            <4>1. e \in 1..m
                BY <1>2, <1>6, <3>1
            <4>2. rest[e] # Pad /\ e # Len(rest) + 1
                BY SMTT(40), <1>2, <1>6, <1>7, <4>1
            <4>. QED  BY <2>2, <4>2
        <3>2. CASE e > m + 1
            <4>1. m + 1 \in 1..(e - 1) /\ m < k
                BY <1>2, <1>6, <3>2
            <4>. QED  BY <1>8, <2>2, <4>1
        <3>. QED  BY <1>2, <1>6, <3>1, <3>2
    <2>3. End(rest) \in 1..Len(rest) + 1 /\ IsEnd(End(rest))
        BY <2>1 DEF End
    <2>. HIDE DEF IsEnd
    <2>. QED  BY <2>2, <2>3
<1>10. /\ SubSeq(rest, 1, m) \in [1..m -> Octets]
       /\ \A i \in 1..m : SubSeq(rest, 1, m)[i] = rest[i]
    <2>1. m \in Nat /\ k \in Nat /\ m <= k
        BY <1>2
    <2>. QED  BY ONLY <1>4, <2>1, HeadIs
<1>11. Carries(Size, SubSeq(rest, 1, m), b, h, m)
    BY <1>7, <1>10 DEF Carries, n
<1>. QED  BY <1>2, <1>9, <1>11 DEF rest, m

\* The low bytes of a register that is shifted by the bits left over.
ShiftedBy(y, z, f, l) == \A x \in 1..(8 * l) : y[(64 - 8 * l) + x] = z[(64 - (8 * l + f)) + x]

LEMMA ShiftedByIs ==
    ASSUME NEW z \in Bits(64), NEW f \in Nat, NEW l \in Nat, 8 * l + f <= 64
    PROVE  /\ Zeroes(f) \o SubSeq(z, 1, 64 - f) \in Bits(64)
           /\ ShiftedBy(Zeroes(f) \o SubSeq(z, 1, 64 - f), z, f, l)
<1>. SUFFICES ASSUME NEW B, B = 0..1
              PROVE  /\ Zeroes(f) \o SubSeq(z, 1, 64 - f) \in [1..64 -> B]
                     /\ \A x \in 1..(8 * l) : (Zeroes(f) \o SubSeq(z, 1, 64 - f))[(64 - 8 * l) + x]
                                                  = z[(64 - (8 * l + f)) + x]
    BY DEF Bits, ShiftedBy
<1>. DEFINE k == 64 - f
            t == SubSeq(z, 1, k)
            y == Zeroes(f)
<1>1. k \in Nat /\ 0 \in Nat /\ 64 \in Nat /\ 0 + k <= 64 /\ f + k = 64 /\ f \in Nat
    OBVIOUS
<1>2. y \in [1..f -> B] /\ z \in [1..64 -> B]
    BY ZeroesAre DEF Bits
<1>3. k <= 64
    OBVIOUS
<1>. HIDE DEF k
<1>5. t \in [1..k -> B] /\ \A i \in 1..k : t[i] = z[i]
    <2>1. k \in Nat /\ 64 \in Nat
        BY <1>1
    <2>2. SubSeq(z, 1, k) \in [1..k -> B]
        BY ONLY <1>2, <1>3, <2>1, HeadIs
    <2>3. \A i \in 1..k : SubSeq(z, 1, k)[i] = z[i]
        BY ONLY <1>2, <1>3, <2>1, HeadIs
    <2>. QED  BY <2>2, <2>3 DEF t
<1>. HIDE DEF t, y
<1>6. y \o t \in [1..(f + k) -> B]
    BY ONLY <1>1, <1>2, <1>5, Joined
<1>7. \A i \in 1..k : (y \o t)[f + i] = t[i]
    <2>1. y \in [1..f -> B] /\ t \in [1..k -> B]
        BY <1>2, <1>5
    <2>. QED  BY ONLY <1>1, <2>1, Joined
<1>8. ASSUME NEW x \in 1..(8 * l)
      PROVE  (y \o t)[(64 - 8 * l) + x] = z[(64 - (8 * l + f)) + x]
    <2>. DEFINE i == 64 - (8 * l + f) + x
    <2>1. i \in 1..k /\ 64 - 8 * l + x = f + i
        BY <1>1
    <2>. HIDE DEF i
    <2>2. (y \o t)[f + i] = z[i]
        BY <1>5, <1>7, <2>1
    <2>. QED  BY <2>1, <2>2 DEF i
<1>. QED  BY <1>1, <1>6, <1>8 DEF t, y, k

\* decode, when a text is not empty and has whole groups.
Cut(Size, text, last, rest, symbols, f, l) ==
    LET n == symbol_bits(Size)
        gs == group_symbols(Size)
    IN  /\ text # <<>> /\ Len(text) % gs = 0
        /\ last = IF Len(text) \div gs - (IF text[Len(text)] = Pad THEN 1 ELSE 0) # 0 THEN 1 ELSE 0
        /\ rest = Rest(text, last * gs) /\ symbols = SubSeq(rest, 1, End(rest) - 1)
        /\ f = (Len(symbols) * n) % 8 /\ l = (Len(symbols) * n) \div 8 /\ ~(l > 8)

Decoded(Size, text, last, symbols, f, l) ==
    decode(Size, text) =
        (IF last = 1 THEN LowBytes(num(Size, SubSeq(text, 1, group_symbols(Size))), group_bytes(Size)) ELSE <<>>)
        \o LowBytes(Zeroes(f) \o SubSeq(num(Size, symbols), 1, 64 - f), l)

LEMMA DecodeForm ==
    ASSUME NEW Size \in Sizes, NEW text, NEW last, NEW rest, NEW symbols, NEW f, NEW l,
           Cut(Size, text, last, rest, symbols, f, l)
    PROVE  Decoded(Size, text, last, symbols, f, l)
BY DEF Cut, Decoded, decode, Rest, End

\* How many symbols are padding.
LEMMA PaddingIs ==
    ASSUME NEW Size \in Sizes, NEW T \in Nat, NEW M \in Nat, M <= T,
           NEW b \in Bits(symbol_bits(Size) * M), NEW text, Coded(Size, text, b, T, M)
    PROVE  Cardinality({i \in DOMAIN text : text[i] = Pad}) = T - M
<1>1. DOMAIN text = 1..T
    BY DEF Coded
<1>2. \A i \in 1..M : text[i] # Pad
    BY ChunkOf DEF Coded
<1>3. \A i \in (M + 1)..T : text[i] = Pad
    BY DEF Coded
<1>4. {i \in DOMAIN text : text[i] = Pad} = (M + 1)..T
    BY <1>1, <1>2, <1>3
<1>5. Cardinality((M + 1)..T) = IF M + 1 > T THEN 0 ELSE T - (M + 1) + 1
    BY FS_Interval
<1>. DEFINE c == Cardinality((M + 1)..T)
<1>6. c = T - M
    <2>. HIDE DEF c
    <2>1. c = IF M + 1 > T THEN 0 ELSE T - (M + 1) + 1
        BY <1>5 DEF c
    <2>. QED  BY <2>1
<1>. QED  BY <1>4, <1>6

LEMMA EndsWith ==
    ASSUME NEW Size \in Sizes, NEW T \in Nat \ {0}, NEW M \in Nat, M <= T,
           NEW b \in Bits(symbol_bits(Size) * M), NEW text, Coded(Size, text, b, T, M)
    PROVE  /\ text \in [1..T -> Octets] /\ Len(text) = T /\ text # <<>>
           /\ text[T] = Pad <=> M < T
<1>1. text \in [1..T -> Octets]
    BY DEF Coded
<1>2. Len(text) = T
    BY <1>1, RowIs
<1>3. text # <<>>
    BY <1>2
<1>4. CASE M < T
    BY <1>4 DEF Coded
<1>5. CASE M = T
    <2>1. M \in 1..M
        BY <1>5
    <2>. QED  BY <1>5, <2>1, ChunkOf DEF Coded
<1>. QED  BY <1>1, <1>2, <1>3, <1>4, <1>5

\* The octets that the register holds are the ones the symbols stand for.
Aligned(n, L, f, M, a, m, h, l, g) ==
    /\ f \in Nat /\ M \in Nat /\ a \in Nat /\ m \in Nat /\ h \in Nat /\ l \in Nat /\ g \in Nat
    /\ 8 * L + f = n * M /\ a + m <= M /\ h + l <= L
    /\ n * a = 8 * h /\ n * m = 8 * l + g /\ n * m <= 64

LEMMA TakenBytes ==
    ASSUME NEW Size \in Sizes, NEW L \in Nat, NEW s \in [1..L -> Octets], NEW f, NEW M, NEW a, NEW m,
           NEW h, NEW l, NEW g, Aligned(symbol_bits(Size), L, f, M, a, m, h, l, g),
           NEW w, Carries(Size, w, Filled(s, f), a, m)
    PROVE  /\ LowBytes(Zeroes(g) \o SubSeq(num(Size, w), 1, 64 - g), l) = SubSeq(s, h + 1, h + l)
           /\ num(Size, w) \in Bits(64)
<1>. SUFFICES ASSUME f \in Nat, M \in Nat, a \in Nat, m \in Nat, h \in Nat, l \in Nat, g \in Nat,
                     8 * L + f = symbol_bits(Size) * M, a + m <= M, h + l <= L,
                     symbol_bits(Size) * a = 8 * h,
                     symbol_bits(Size) * m = 8 * l + g, symbol_bits(Size) * m <= 64
              PROVE  /\ LowBytes(Zeroes(g) \o SubSeq(num(Size, w), 1, 64 - g), l) = SubSeq(s, h + 1, h + l)
                     /\ num(Size, w) \in Bits(64)
    BY DEF Aligned
<1>. DEFINE n == symbol_bits(Size)
            b == Filled(s, f)
            z == num(Size, w)
            y == Zeroes(g) \o SubSeq(z, 1, 64 - g)
            t == SubSeq(s, h + 1, h + l)
<1>0. n \in Nat \ {0}
    BY ONLY Size \in Sizes, Widths DEF n
<1>1. b \in Bits(n * M) /\ \A x \in 1..(8 * L) : b[x] = Tally(s)[x]
    BY ZenonT(60), FilledIs
<1>. HIDE DEF b
<1>2. z \in Bits(64) /\ Register(z, b, n, a, m)
    <2>1. b \in Bits(n * M) /\ n * m <= 64 /\ Carries(Size, w, b, a, m)
        BY <1>1 DEF b
    <2>. QED  BY ONLY Size \in Sizes, M \in Nat, a \in Nat, m \in Nat, a + m <= M, <2>1, NumIs DEF n, z
<1>. HIDE DEF z
<1>3. y \in Bits(64) /\ \A x \in 1..(8 * l) : y[(64 - 8 * l) + x] = z[(64 - (8 * l + g)) + x]
    <2>1. 8 * l + g <= 64
        OBVIOUS
    <2>2. z \in Bits(64)
        BY <1>2
    <2>3. y \in Bits(64)
        BY ONLY g \in Nat, l \in Nat, <2>1, <2>2, ShiftedByIs DEF y
    <2>4. ShiftedBy(y, z, g, l)
        BY ONLY g \in Nat, l \in Nat, <2>1, <2>2, ShiftedByIs DEF y
    <2>. QED  BY <2>3, <2>4 DEF ShiftedBy
<1>. HIDE DEF y
<1>4. t \in [1..l -> Octets] /\ Within(Tally(t), Tally(s), 8, h, l)
    BY TallyOfPart
<1>. HIDE DEF t
<1>5. ASSUME NEW x \in 1..(8 * l) PROVE y[(64 - 8 * l) + x] = Tally(t)[x]
    <2>1. x \in 1..(n * m) /\ n * m = 8 * l + g
        OBVIOUS
    <2>2. z[(64 - n * m) + x] = b[n * a + x]
        BY <1>2, <2>1 DEF Register
    <2>3. n * a + x = 8 * h + x /\ 8 * h + x \in 1..(8 * L)
        OBVIOUS
    <2>4. b[8 * h + x] = Tally(s)[8 * h + x]
        BY <1>1, <2>3
    <2>5. Tally(t)[x] = Tally(s)[8 * h + x]
        BY <1>4 DEF Within
    <2>6. z[(64 - (8 * l + g)) + x] = Tally(t)[x]
        BY <2>1, <2>2, <2>3, <2>4, <2>5
    <2>. QED  BY <1>3, <2>6
<1>. DEFINE e == 64 - 8 * l
<1>6. e \in Nat /\ e + 8 * l = 64 /\ 64 \in Nat
    OBVIOUS
<1>7. \A x \in 1..(8 * l) : y[e + x] = Tally(t)[x]
    BY <1>5
<1>. HIDE DEF e
<1>8. LowBytes(y, l) = t
    <2>1. y \in Bits(64) /\ t \in [1..l -> Octets]
        BY <1>3, <1>4
    <2>2. Ending(y, t, e, l)
        BY <1>7 DEF Ending
    <2>. QED  BY ONLY l \in Nat, <1>6, <2>1, <2>2, LowBytesIs
<1>. QED  BY <1>2, <1>8 DEF y, z, t

\* The numbers of a text that is decoded: its symbols in the first group, and
\* the octets and bits of the others.
Measured(Size, L, r, f, T, M, last, h, m, H, l) ==
    LET n == symbol_bits(Size)
        gs == group_symbols(Size)
        gb == group_bytes(Size)
    IN  /\ M \in Nat /\ T \in Nat \ {0} /\ M <= T /\ T % gs = 0 /\ (M < T <=> r # 0)
        /\ 8 * L + f = n * M
        /\ last \in 0..1 /\ h = last * gs /\ H = last * gb /\ h \in Nat /\ H \in Nat /\ h <= M /\ H <= L
        /\ m = M - h /\ l = L - H /\ m \in Nat /\ l \in Nat
        /\ n * h = 8 * H /\ n * m = 8 * l + f /\ f \in 0..5
        /\ (n * m) % 8 = f /\ (n * m) \div 8 = l
        /\ last = IF T \div gs - (IF M < T THEN 1 ELSE 0) # 0 THEN 1 ELSE 0
        /\ last = IF T \div gs = 1 /\ T - M > 0 THEN 0 ELSE 1

LEMMA MeasuredIs ==
    ASSUME NEW Size \in Sizes, NEW L \in Nat \ {0}, NEW q \in Nat, NEW r \in Nat, NEW f \in Nat, NEW S \in Nat,
           Shaped(Size, L, q, r, f, S),
           NEW T, T = group_symbols(Size) * (IF r = 0 THEN q ELSE q + 1),
           NEW M, M = group_symbols(Size) * q + S,
           NEW last, last = IF q = 0 THEN 0 ELSE 1
    PROVE  Measured(Size, L, r, f, T, M, last, last * group_symbols(Size), M - last * group_symbols(Size),
                    last * group_bytes(Size), L - last * group_bytes(Size))
<1>1. ASSUME NEW n \in {4, 5, 6}, NEW gs \in {2, 4, 8}, NEW gb \in {1, 3, 5}, n * gs = 8 * gb,
             n = symbol_bits(Size), gs = group_symbols(Size), gb = group_bytes(Size)
      PROVE  Measured(Size, L, r, f, T, M, last, last * gs, M - last * gs, last * gb, L - last * gb)
    <2>. DEFINE p == IF r = 0 THEN q ELSE q + 1
                k == gs * q
                w == gb * q
                m == M - last * gs
                l == L - last * gb
    <2>1. /\ L = w + r /\ f \in 0..(n - 1) /\ 8 * L + f = n * (k + S)
          /\ 8 * w = n * k
          /\ S \in 0..(gs - 1) /\ (r = 0 <=> S = 0) /\ (r = 0 => f = 0) /\ r \in 0..(gb - 1)
        BY <1>1 DEF Shaped
    <2>2. gs \in Nat \ {0} /\ gb \in Nat \ {0} /\ n \in Nat \ {0} /\ p \in Nat
        OBVIOUS
    <2>3. k \in Nat /\ w \in Nat /\ M = k + S /\ T = gs * p
        BY <1>1, <2>2
    <2>4. T = IF r = 0 THEN k ELSE k + gs
        <3>1. gs * (q + 1) = gs * q + gs
            BY <2>2
        <3>. QED  BY <2>3, <3>1
    <2>5. T % gs = 0 /\ T \div gs = p
        <3>1. 0 \in 0..(gs - 1)
            BY <2>2
        <3>2. (gs * p + 0) \div gs = p /\ (gs * p + 0) % gs = 0
            BY ONLY <2>2, <3>1, DivisionIsOnly
        <3>3. gs * p + 0 = T
            BY <2>2, <2>3
        <3>. QED  BY <3>2, <3>3
    <2>6. q = 0 => k = 0 /\ w = 0
        BY <2>2
    <2>7. q # 0 => k >= gs /\ w >= gb
        <3>. SUFFICES ASSUME q # 0 PROVE k >= gs /\ w >= gb
            OBVIOUS
        <3>1. gs * 1 <= gs * q /\ gb * 1 <= gb * q
            BY <2>2
        <3>. QED  BY <2>2, <3>1
    <2>. HIDE DEF k, w
    <2>8. M \in Nat /\ T \in Nat \ {0} /\ M <= T /\ (M < T <=> r # 0)
        BY <2>1, <2>2, <2>3, <2>4, <2>6, <2>7
    <2>9. /\ last \in 0..1 /\ last * gs \in Nat /\ last * gb \in Nat
          /\ last * gs <= M /\ last * gb <= L
        <3>1. CASE q = 0
            BY <2>1, <2>2, <2>8, <3>1
        <3>2. CASE q # 0
            <4>1. last * gs = gs /\ last * gb = gb
                BY <2>2, <3>2
            <4>. QED  BY <2>1, <2>2, <2>3, <2>7, <3>2, <4>1
        <3>. QED  BY <3>1, <3>2
    <2>10. n * (last * gs) = 8 * (last * gb)
        BY <1>1
    <2>11. f \in 0..5
        BY <2>1
    <2>12. n * M = 8 * L + f
        BY <2>1, <2>3
    <2>13. n * m = 8 * l + f /\ m \in Nat /\ l \in Nat
        <3>. DEFINE x == last * gs
                    y == last * gb
        <3>1. n * x = 8 * y /\ x \in Nat /\ y \in Nat /\ x <= M /\ y <= L
            BY <2>9, <2>10
        <3>. HIDE DEF x, y
        <3>2. n * (M - x) = n * M - n * x
            BY <2>2, <2>8, <3>1
        <3>3. n * (M - x) = 8 * (L - y) + f
            BY <2>12, <3>1, <3>2
        <3>. QED  BY <2>8, <3>1, <3>3 DEF x, y
    <2>14. (n * m) % 8 = f /\ (n * m) \div 8 = l
        <3>. HIDE DEF m, l
        <3>1. (8 * l + f) % 8 = f /\ (8 * l + f) \div 8 = l
            BY <2>11, <2>13
        <3>. QED  BY <2>13, <3>1
    <2>15. last = IF T \div gs - (IF M < T THEN 1 ELSE 0) # 0 THEN 1 ELSE 0
        <3>. DEFINE z == T \div gs
        <3>1. z = p
            BY <2>5
        <3>. HIDE DEF z
        <3>2. z - (IF M < T THEN 1 ELSE 0) = q
            <4>1. CASE r = 0
                BY <2>8, <3>1, <4>1
            <4>2. CASE r # 0
                BY <2>8, <3>1, <4>2
            <4>. QED  BY <4>1, <4>2
        <3>. QED  BY <3>2 DEF z
    <2>16. last = IF T \div gs = 1 /\ T - M > 0 THEN 0 ELSE 1
        <3>1. T - M > 0 <=> r # 0
            BY <2>8
        <3>2. q = 0 => r # 0
            BY <2>1, <2>6
        <3>. QED  BY <2>5, <3>1, <3>2
    <2>. HIDE DEF m, l
    <2>. QED  BY <1>1, <2>5, <2>8, <2>9, <2>10, <2>11, <2>12, <2>13, <2>14, <2>15, <2>16 DEF Measured, m, l
<1>2. CASE Size = 16
    <2>1. symbol_bits(Size) = 4 /\ group_symbols(Size) = 2 /\ group_bytes(Size) = 1
        BY <1>2, Widths
    <2>. QED  BY <1>1, <2>1
<1>3. CASE Size = 32
    <2>1. symbol_bits(Size) = 5 /\ group_symbols(Size) = 8 /\ group_bytes(Size) = 5
        BY <1>3, Widths
    <2>. QED  BY <1>1, <2>1
<1>4. CASE Size = 64
    <2>1. symbol_bits(Size) = 6 /\ group_symbols(Size) = 4 /\ group_bytes(Size) = 3
        BY <1>4, Widths
    <2>. QED  BY <1>1, <2>1
<1>. QED  BY <1>2, <1>3, <1>4 DEF Sizes

\* The octets of the first group and the others are all octets.
LEMMA SplitIs ==
    ASSUME NEW B, NEW n \in Nat, NEW k \in Nat, k <= n, NEW s \in [1..n -> B]
    PROVE  SubSeq(s, 1, k) \o SubSeq(s, k + 1, n) = s
<1>. DEFINE t == SubSeq(s, 1, k)
            j == n - k
            u == SubSeq(s, k + 1, n)
<1>1. j \in Nat /\ k + j = n /\ k + j <= n
    OBVIOUS
<1>. HIDE DEF j
<1>2. t \in [1..k -> B] /\ \A i \in 1..k : t[i] = s[i]
    BY HeadIs
<1>3. u \in [1..j -> B] /\ \A i \in 1..j : u[i] = s[k + i]
    <2>1. SubSeq(s, k + 1, k + j) \in [1..j -> B]
        BY <1>1, SliceIs
    <2>2. \A i \in 1..j : SubSeq(s, k + 1, k + j)[i] = s[k + i]
        BY <1>1, SliceIs
    <2>. QED  BY <1>1, <2>1, <2>2
<1>. HIDE DEF t, u
<1>4. t \o u \in [1..(k + j) -> B]
    BY ONLY k \in Nat, <1>1, <1>2, <1>3, Joined
<1>5. \A i \in 1..k : (t \o u)[i] = t[i]
    BY ONLY k \in Nat, <1>1, <1>2, <1>3, Joined
<1>6. \A i \in 1..j : (t \o u)[k + i] = u[i]
    <2>1. j \in Nat /\ t \in [1..k -> B] /\ u \in [1..j -> B]
        BY <1>1, <1>2, <1>3
    <2>. QED  BY ONLY k \in Nat, <2>1, Joined
<1>. DEFINE v == t \o u
<1>. HIDE DEF v
<1>7. ASSUME NEW i \in 1..n PROVE v[i] = s[i]
    <2>1. CASE i <= k
        BY <1>2, <1>5, <2>1 DEF v
    <2>2. CASE i > k
        <3>. DEFINE x == i - k
        <3>1. x \in 1..j /\ i = k + x
            BY <1>1, <2>2
        <3>. HIDE DEF x
        <3>. QED  BY <1>3, <1>6, <3>1 DEF v
    <2>. QED  BY <2>1, <2>2
<1>8. v \in [1..n -> B]
    BY <1>1, <1>4 DEF v
<1>9. v = s
    BY <1>7, <1>8
<1>. QED  BY <1>9 DEF v, t, u

\* What was encoded is decoded if the register holds it.
LEMMA DecodeIs ==
    ASSUME NEW Size \in Sizes, NEW L \in Nat, NEW s \in [1..L -> Octets], NEW r, NEW f \in Nat,
           NEW T, NEW M, NEW last, NEW h, NEW m, NEW H, NEW l, NEW text,
           Measured(Size, L, r, f, T, M, last, h, m, H, l),
           Coded(Size, text, Filled(s, f), T, M), Fits(Size, text)
    PROVE  decode(Size, text) = s
<1>. SUFFICES ASSUME NEW n, NEW gs, NEW gb,
                     n = symbol_bits(Size), gs = group_symbols(Size), gb = group_bytes(Size)
              PROVE  decode(Size, text) = s
    OBVIOUS
<1>. DEFINE b == Filled(s, f)
<1>1. n \in Nat \ {0} /\ gs \in Nat \ {0} /\ gb \in Nat \ {0} /\ n * gs = 8 * gb /\ n * gs <= 40
    BY Widths
<1>2. M \in Nat /\ T \in Nat \ {0} /\ M <= T /\ T \in Nat
    BY DEF Measured
<1>3. h \in Nat /\ H \in Nat /\ m \in Nat /\ l \in Nat
    BY DEF Measured
<1>4. h + m = M /\ H + l = L /\ h <= M /\ m = M - h
    <2>1. m = M - h /\ l = L - H /\ h <= M
        BY DEF Measured
    <2>. QED  BY <1>2, <1>3, <2>1
<1>5. last \in 0..1 /\ h = last * gs /\ H = last * gb
    BY DEF Measured
<1>6. 8 * L + f = n * M /\ n * h = 8 * H /\ n * m = 8 * l + f
    BY DEF Measured
<1>7. (n * m) % 8 = f /\ (n * m) \div 8 = l /\ T % gs = 0
    BY DEF Measured
<1>8. last = IF T \div gs - (IF M < T THEN 1 ELSE 0) # 0 THEN 1 ELSE 0
    BY DEF Measured
<1>9. last = IF T \div gs = 1 /\ T - M > 0 THEN 0 ELSE 1
    BY DEF Measured
<1>10. b \in Bits(n * M)
    <2>1. b \in Bits(8 * L + f)
        BY FilledIs
    <2>. QED  BY <1>6, <2>1
<1>. HIDE DEF b
<1>11. Coded(Size, text, b, T, M)
    BY DEF b
<1>12. text \in [1..T -> Octets] /\ Len(text) = T /\ text # <<>> /\ (text[T] = Pad <=> M < T)
    BY <1>2, <1>10, <1>11, EndsWith
<1>13. Cardinality({i \in DOMAIN text : text[i] = Pad}) = T - M
    BY <1>2, <1>10, <1>11, PaddingIs
<1>14. n * m <= 64
    <2>. DEFINE c == Cardinality({i \in DOMAIN text : text[i] = Pad})
                tail == IF T \div gs = 1 /\ c > 0 THEN 0 ELSE 1
    <2>1. (T - c - tail * gs) * n <= 64
        BY <1>12 DEF Fits
    <2>2. c = T - M
        BY <1>13
    <2>. HIDE DEF c
    <2>3. tail = last
        BY <1>9, <2>2
    <2>. HIDE DEF tail
    <2>4. T - c - tail * gs = m
        BY <1>2, <1>4, <1>5, <2>2, <2>3
    <2>5. m * n <= 64
        BY <2>1, <2>4
    <2>. QED  BY <1>1, <1>3, <2>5
<1>. DEFINE rest == Rest(text, h)
            symbols == SubSeq(rest, 1, End(rest) - 1)
<1>15. End(rest) - 1 = m
    <2>1. End(rest) - 1 = M - h
        BY <1>2, <1>3, <1>4, <1>10, <1>11, RestIs
    <2>. QED  BY <1>4, <2>1
<1>16. Carries(Size, symbols, b, h, m)
    <2>1. Carries(Size, SubSeq(rest, 1, M - h), b, h, M - h)
        BY <1>2, <1>3, <1>4, <1>10, <1>11, RestIs
    <2>. QED  BY <1>4, <1>15, <2>1
<1>17. Len(symbols) = m
    <2>. HIDE DEF symbols
    <2>1. symbols \in [1..m -> Octets]
        BY <1>16 DEF Carries
    <2>. QED  BY <1>3, <2>1, RowIs
<1>. DEFINE tail == LowBytes(Zeroes(f) \o SubSeq(num(Size, symbols), 1, 64 - f), l)
            first == IF last = 1 THEN LowBytes(num(Size, SubSeq(text, 1, gs)), gb) ELSE <<>>
<1>18. decode(Size, text) = first \o tail
    <2>1. Len(text) % gs = 0
        BY <1>7, <1>12
    <2>2. last = IF Len(text) \div gs - (IF text[Len(text)] = Pad THEN 1 ELSE 0) # 0 THEN 1 ELSE 0
        <3>1. (IF text[Len(text)] = Pad THEN 1 ELSE 0) = (IF M < T THEN 1 ELSE 0)
            BY <1>12
        <3>2. Len(text) = T
            BY <1>12
        <3>. QED  BY ONLY <1>8, <3>1, <3>2
    <2>3. rest = Rest(text, last * gs)
        BY <1>5
    <2>4. Len(symbols) * n = n * m
        <3>. DEFINE z == Len(symbols)
        <3>1. z = m
            BY <1>17
        <3>. HIDE DEF z
        <3>2. z * n = n * m
            BY ONLY <1>1, <1>3, <3>1
        <3>. QED  BY <3>2 DEF z
    <2>5. f = (Len(symbols) * n) % 8 /\ l = (Len(symbols) * n) \div 8
        BY <1>7, <2>4
    <2>6. ~(l > 8)
        BY <1>3, <1>6, <1>14
    <2>. HIDE DEF rest
    <2>7. symbols = SubSeq(rest, 1, End(rest) - 1)
        OBVIOUS
    <2>8. text # <<>>
        BY SMTT(40), <1>12
    <2>. HIDE DEF symbols
    <2>9. Cut(Size, text, last, rest, symbols, f, l)
        BY <2>1, <2>2, <2>3, <2>5, <2>6, <2>7, <2>8 DEF Cut
    <2>10. Decoded(Size, text, last, symbols, f, l)
        BY ONLY Size \in Sizes, <2>9, DecodeForm
    <2>. QED  BY <2>10 DEF Decoded
<1>19. tail = SubSeq(s, H + 1, H + l)
    <2>1. h + m <= M /\ H + l <= L
        BY <1>2, <1>3, <1>4
    <2>2. Aligned(symbol_bits(Size), L, f, M, h, m, H, l, f)
        BY <1>2, <1>3, <1>6, <1>14, <2>1 DEF Aligned
    <2>3. Carries(Size, symbols, Filled(s, f), h, m)
        BY <1>16 DEF b
    <2>. HIDE DEF symbols
    <2>. QED  BY <2>2, <2>3, TakenBytes
<1>. HIDE DEF tail, first
<1>20. CASE last = 0
    <2>1. first = <<>> /\ H = 0 /\ l = L
        BY <1>1, <1>3, <1>4, <1>5, <1>20 DEF first
    <2>. QED  BY <1>18, <1>19, <2>1
<1>21. CASE last = 1
    <2>1. h = gs /\ H = gb
        BY <1>1, <1>5, <1>21
    <2>2. Carries(Size, SubSeq(text, 1, gs), b, 0, gs)
        <3>1. gs <= T /\ gs <= M
            BY <1>1, <1>2, <1>3, <1>4, <2>1
        <3>2. /\ SubSeq(text, 1, gs) \in [1..gs -> Octets]
              /\ \A i \in 1..gs : SubSeq(text, 1, gs)[i] = text[i]
            BY SMTT(40), <1>1, <1>2, <1>12, <3>1, HeadIs
        <3>3. \A i \in 1..gs : i \in 1..M /\ 0 + i = i
            BY <1>1, <1>2, <3>1
        <3>. QED  BY <1>11, <3>2, <3>3 DEF Carries, Coded
    <2>. DEFINE w == SubSeq(text, 1, gs)
                z == num(Size, w)
    <2>3. Aligned(symbol_bits(Size), L, f, M, 0, gs, 0, gb, 0)
        <3>1. 0 + gs <= M /\ 0 + gb <= L /\ n * 0 = 8 * 0 /\ n * gs = 8 * gb + 0 /\ n * gs <= 64
            <4>1. 0 + gs <= M /\ 0 + gb <= L
                <5>1. gs \in Nat /\ gb \in Nat /\ l \in Nat
                    BY <1>1, <1>3
                <5>2. gs <= M /\ gb + l = L
                    BY <1>4, <2>1
                <5>. QED  BY <5>1, <5>2
            <4>2. n * 0 = 8 * 0
                BY <1>1
            <4>3. n * gs = 8 * gb + 0 /\ n * gs <= 64
                <5>. DEFINE x == n * gs
                <5>1. x = 8 * gb /\ x <= 40
                    BY <1>1
                <5>2. gb \in Nat
                    BY <1>1
                <5>. HIDE DEF x
                <5>3. x = 8 * gb + 0 /\ x <= 64
                    BY <5>1, <5>2
                <5>. QED  BY <5>3 DEF x
            <4>. QED  BY <4>1, <4>2, <4>3
        <3>. QED  BY <1>1, <1>2, <1>6, <3>1 DEF Aligned
    <2>4. Carries(Size, w, Filled(s, f), 0, gs)
        BY <2>2 DEF b
    <2>. HIDE DEF w
    <2>5. LowBytes(Zeroes(0) \o SubSeq(z, 1, 64 - 0), gb) = SubSeq(s, 0 + 1, 0 + gb) /\ z \in Bits(64)
        BY <2>3, <2>4, TakenBytes
    <2>. HIDE DEF z
    <2>6. Zeroes(0) \o SubSeq(z, 1, 64 - 0) = z
        <3>1. z \in Seq(0..1) /\ Len(z) = 64
            BY ZenonT(60), <2>5, RowIs DEF Bits
        <3>2. Zeroes(0) = <<>>
            BY DEF Zeroes
        <3>3. SubSeq(z, 1, 64 - 0) = z
            BY <3>1
        <3>4. <<>> \o z = z
            BY <3>1
        <3>. QED  BY <3>2, <3>3, <3>4
    <2>7. first = SubSeq(s, 1, gb)
        <3>1. SubSeq(s, 0 + 1, 0 + gb) = SubSeq(s, 1, gb)
            BY SMTT(40), <1>1
        <3>2. LowBytes(z, gb) = SubSeq(s, 1, gb)
            BY <2>5, <2>6, <3>1
        <3>. QED  BY <1>21, <3>2 DEF first, z, w
    <2>8. tail = SubSeq(s, gb + 1, L)
        BY <1>4, <1>19, <2>1
    <2>9. gb \in Nat /\ gb <= L
        BY <1>1, <1>3, <1>4, <2>1
    <2>. QED  BY ONLY <1>18, <2>7, <2>8, <2>9, L \in Nat, s \in [1..L -> Octets], SplitIs
<1>. QED  BY <1>5, <1>20, <1>21

\* BasesSound of one size.
BaseSound(Size) ==
    LET text == encode(Size, octets)
        n == symbol_bits(Size)
        b == Tally(octets) \o Zeroes((n - ((8 * Len(octets)) % n)) % n)
        symbols == Len(b) \div n
    IN  /\ Len(text) % group_symbols(Size) = 0 /\ Len(text) - symbols < group_symbols(Size)
        /\ \A i \in DOMAIN text :
              text[i] = IF i <= symbols THEN enc(Size)[Number(SubSeq(b, (n * (i - 1)) + 1, n * i))] ELSE Pad
        /\ Fits(Size, text) => decode(Size, text) = octets
        /\ octets = <<>> => \A i \in DOMAIN enc(Size) :
              dec(Size)[enc(Size)[i]] = i /\ enc(Size)[i] # Pad

\* Every octet sequence, in every one of the three alphabets.
LEMMA BaseIs ==
    ASSUME octets \in Seq(Octets), NEW Size \in Sizes
    PROVE  BaseSound(Size)
<1>. SUFFICES ASSUME NEW n, NEW gs, n = symbol_bits(Size), gs = group_symbols(Size)
              PROVE  BaseSound(Size)
    OBVIOUS
<1>. DEFINE L == Len(octets)
            text == encode(Size, octets)
<1>1. n \in Nat \ {0} /\ gs \in Nat \ {0}
    BY Widths
<1>2. L \in Nat /\ octets \in [1..L -> Octets]
    BY SeqIs
<1>3. PICK q \in Nat, r \in Nat, f \in Nat, S \in Nat : Shaped(Size, L, q, r, f, S)
    BY <1>2, ShapeIs
<1>. DEFINE p == IF r = 0 THEN q ELSE q + 1
            T == gs * p
            M == gs * q + S
            b == Filled(octets, f)
<1>. HIDE DEF L
<1>4. Coded(Size, text, b, T, M)
    BY <1>2, <1>3, TextIs
<1>5. /\ f \in 0..(n - 1) /\ (n - ((8 * L) % n)) % n = f
      /\ 8 * L + f = n * M /\ S \in 0..(gs - 1) /\ (r = 0 <=> S = 0)
    BY <1>3 DEF Shaped
<1>6. M \in Nat /\ T \in Nat /\ M <= T /\ T - M < gs
    <2>. DEFINE k == gs * q
    <2>1. k \in Nat /\ gs * (q + 1) = k + gs
        BY <1>1
    <2>2. T = IF r = 0 THEN k ELSE k + gs
        BY <2>1
    <2>. HIDE DEF k, T
    <2>3. M = k + S
        BY DEF k
    <2>4. S \in 0..(gs - 1) /\ (r = 0 <=> S = 0) /\ gs \in Nat \ {0} /\ k \in Nat
        BY <1>1, <1>5, <2>1
    <2>. HIDE DEF M
    <2>5. CASE r = 0
        BY ONLY <2>2, <2>3, <2>4, <2>5
    <2>6. CASE r # 0
        BY ONLY <2>2, <2>3, <2>4, <2>6
    <2>. QED  BY <2>5, <2>6
<1>7. T % gs = 0
    <2>1. 0 \in 0..(gs - 1) /\ p \in Nat
        BY <1>1
    <2>. HIDE DEF p
    <2>2. (gs * p + 0) % gs = 0
        BY ONLY <1>1, <2>1, DivisionIsOnly
    <2>3. gs * p + 0 = gs * p
        BY <1>1, <2>1
    <2>. QED  BY <2>2, <2>3
<1>. HIDE DEF T, M, text
<1>8. text \in [1..T -> Octets] /\ Len(text) = T
    <2>1. text \in [1..T -> Octets]
        BY <1>4 DEF Coded
    <2>. QED  BY <1>6, <2>1, RowIs
<1>9. b \in Bits(n * M)
    <2>1. b \in Bits(8 * L + f)
        BY <1>2, FilledIs
    <2>. QED  BY <1>5, <2>1
<1>10. b = Tally(octets) \o Zeroes((n - ((8 * L) % n)) % n)
    BY <1>5 DEF Filled
<1>. HIDE DEF b
<1>11. Len(b) \div n = M
    BY <1>1, <1>6, <1>9, ChopIs
<1>12. ASSUME NEW i \in DOMAIN text
       PROVE  text[i] = IF i <= M THEN enc(Size)[Number(SubSeq(b, (n * (i - 1)) + 1, n * i))] ELSE Pad
    <2>1. i \in 1..T
        BY <1>8
    <2>2. CASE i <= M
        <3>1. i \in 1..M
            BY <1>6, <2>1, <2>2
        <3>2. SubSeq(b, (n * (i - 1)) + 1, n * i) = Chunk(b, n, i)
            BY ONLY ZenonT(60), <1>1, <1>6, <1>9, <3>1, ChunkIs
        <3>. QED  BY <1>4, <2>2, <3>1, <3>2 DEF Coded
    <2>3. CASE i > M
        <3>1. i \in (M + 1)..T /\ ~(i <= M)
            BY <1>6, <2>1, <2>3
        <3>. QED  BY <1>4, <3>1 DEF Coded
    <2>. QED  BY <1>6, <2>1, <2>2, <2>3
<1>13. ASSUME Fits(Size, text) PROVE decode(Size, text) = octets
    <2>1. CASE L = 0
        <3>1. octets = <<>>
            BY <1>2, <2>1 DEF L
        <3>2. M = 0
            BY ONLY <1>1, <1>5, <1>6, <2>1, f \in Nat
        <3>3. T = 0
            <4>1. gs * q + S = 0
                BY <3>2 DEF M
            <4>2. gs * q \in Nat /\ (q # 0 => gs * q >= 1)
                <5>1. q # 0 => gs * q >= gs * 1
                    BY <1>1
                <5>. QED  BY <1>1, <5>1
            <4>. DEFINE k == gs * q
            <4>. HIDE DEF k
            <4>3. k + S = 0 /\ k \in Nat /\ (q # 0 => k >= 1)
                BY <4>1, <4>2 DEF k
            <4>4. q = 0 /\ S = 0
                BY <4>3
            <4>5. r = 0
                BY <1>5, <4>4
            <4>. QED  BY <1>1, <4>4, <4>5 DEF T
        <3>4. text = <<>>
            BY <1>8, <3>3
        <3>. QED  BY <3>1, <3>4 DEF decode
    <2>2. CASE L # 0
        <3>1. L \in Nat \ {0}
            BY <1>2, <2>2
        <3>. DEFINE last == IF q = 0 THEN 0 ELSE 1
        <3>2. Measured(Size, L, r, f, T, M, last, last * gs, M - last * gs,
                       last * group_bytes(Size), L - last * group_bytes(Size))
            BY <1>3, <3>1, MeasuredIs DEF T, M
        <3>3. Coded(Size, text, Filled(octets, f), T, M)
            BY <1>4 DEF b
        <3>. HIDE DEF last
        <3>. QED  BY <1>2, <1>13, <3>2, <3>3, DecodeIs
    <2>. QED  BY <2>1, <2>2
<1>14. \A i \in DOMAIN enc(Size) : dec(Size)[enc(Size)[i]] = i /\ enc(Size)[i] # Pad
    BY Alphabets
<1>15. b = Tally(octets) \o Zeroes((n - ((8 * Len(octets)) % n)) % n)
    BY <1>10 DEF L
<1>16. Len(text) % gs = 0 /\ Len(text) - Len(b) \div n < gs
    BY <1>6, <1>7, <1>8, <1>11
<1>. QED  BY <1>11, <1>12, <1>13, <1>14, <1>15, <1>16 DEF BaseSound, text

LEMMA BasesAre == ASSUME octets \in Seq(Octets) PROVE BasesSound
<1>1. \A Size \in Sizes : BaseSound(Size)
    BY BaseIs
<1>. QED  BY <1>1 DEF BaseSound, BasesSound

(***************************************************************************)
(* utf8: a codepoint and the bytes that hold it.                           *)
(***************************************************************************)
\* What at most 21 bits can hold.
Scalars == {v \in Nat : v < 2097152}
AccumOf(c, len, rest) == Positional(prefix_value(c, len), [i \in DOMAIN rest |-> rest[i] % 64], 64)

\* What the first byte says, by its range.
LEMMA LeadIs ==
    ASSUME NEW c \in Octets
    PROVE  /\ c < 128 => sequence_length(c) = 0
           /\ (c >= 128 /\ c < 192) => sequence_length(c) = -1
           /\ (c >= 192 /\ c < 224) => sequence_length(c) = 1 /\ prefix_value(c, 1) = c - 192
           /\ (c >= 224 /\ c < 240) => sequence_length(c) = 2 /\ prefix_value(c, 2) = c - 224
           /\ (c >= 240 /\ c < 248) => sequence_length(c) = 3 /\ prefix_value(c, 3) = c - 240
           /\ (c >= 248) => sequence_length(c) = -1
           /\ continuation(c) <=> (c >= 128 /\ c < 192)
<1>0. c \in Nat /\ c < 256
    BY DEF Octets
<1>1. ASSUME c < 128 PROVE sequence_length(c) = 0
    <2>1. c < 128 /\ c \div 32 # 6 /\ c \div 16 # 14 /\ c \div 8 # 30
        BY <1>0, <1>1
    <2>. QED  BY <2>1 DEF sequence_length
<1>2. ASSUME c >= 128 /\ c < 192 PROVE sequence_length(c) = -1
    <2>1. ~(c < 128) /\ c \div 32 # 6 /\ c \div 16 # 14 /\ c \div 8 # 30
        BY <1>0, <1>2
    <2>. QED  BY <2>1 DEF sequence_length, Throws
<1>3. ASSUME c >= 192 /\ c < 224 PROVE sequence_length(c) = 1 /\ prefix_value(c, 1) = c - 192
    <2>1. ~(c < 128) /\ c \div 32 = 6 /\ c \div 16 # 14 /\ c \div 8 # 30 /\ c % 32 = c - 192
        BY <1>0, <1>3
    <2>. QED  BY <2>1 DEF sequence_length, prefix_value
<1>4. ASSUME c >= 224 /\ c < 240 PROVE sequence_length(c) = 2 /\ prefix_value(c, 2) = c - 224
    <2>1. ~(c < 128) /\ c \div 32 # 6 /\ c \div 16 = 14 /\ c \div 8 # 30 /\ c % 16 = c - 224
        BY <1>0, <1>4
    <2>. QED  BY <2>1 DEF sequence_length, prefix_value
<1>5. ASSUME c >= 240 /\ c < 248 PROVE sequence_length(c) = 3 /\ prefix_value(c, 3) = c - 240
    <2>1. ~(c < 128) /\ c \div 32 # 6 /\ c \div 16 # 14 /\ c \div 8 = 30 /\ c % 8 = c - 240
        BY <1>0, <1>5
    <2>. QED  BY <2>1 DEF sequence_length, prefix_value
<1>6. ASSUME c >= 248 PROVE sequence_length(c) = -1
    <2>1. ~(c < 128) /\ c \div 32 # 6 /\ c \div 16 # 14 /\ c \div 8 # 30
        BY <1>0, <1>6
    <2>. QED  BY <2>1 DEF sequence_length, Throws
<1>7. continuation(c) <=> (c >= 128 /\ c < 192)
    <2>1. c \div 64 = 2 <=> (c >= 128 /\ c < 192)
        BY ONLY <1>0, SMT
    <2>. QED  BY <2>1 DEF continuation
<1>. QED  BY <1>1, <1>2, <1>3, <1>4, <1>5, <1>6, <1>7

\* A byte that continues a sequence.
Later == 128..191

LEMMA ByteIs ==
    ASSUME NEW x \in Nat, x < 256
    PROVE  x \in Octets /\ (x >= 192 => x \notin Later) /\ (x < 128 => x \notin Later)
           /\ (x >= 128 /\ x < 192 => x \in Later)
BY DEF Octets, Later

LEMMA LaterIs ==
    /\ \A x \in Later : x \in Nat /\ x >= 128 /\ x < 192 /\ x % 64 = x - 128 /\ x - 128 \in Nat
    /\ \A x \in Nat : x >= 128 /\ x < 192 => x \in Later
<1>1. \A x \in Later : x \in Nat /\ x >= 128 /\ x < 192
    BY DEF Later
<1>2. ASSUME NEW x \in Nat, x >= 128, x < 192 PROVE x % 64 = x - 128 /\ x \in Later
    BY <1>2 DEF Later
<1>. QED  BY <1>1, <1>2

\* The digits of a sequence, each below 64.
LEMMA AccumSums ==
    ASSUME NEW c, NEW len \in 1..3, NEW rest \in [1..len -> Later], prefix_value(c, len) \in Nat
    PROVE  AccumOf(c, len, rest) =
               IF len = 1 THEN prefix_value(c, len) * 64 + (rest[1] - 128)
               ELSE IF len = 2 THEN (prefix_value(c, len) * 64 + (rest[1] - 128)) * 64 + (rest[2] - 128)
               ELSE ((prefix_value(c, len) * 64 + (rest[1] - 128)) * 64 + (rest[2] - 128)) * 64 + (rest[3] - 128)
<1>. DEFINE d == [i \in DOMAIN rest |-> rest[i] % 64]
            p == prefix_value(c, len)
<1>2. d \in [1..len -> Nat] /\ \A i \in 1..len : d[i] = rest[i] - 128
    <2>1. \A i \in 1..len : rest[i] \in Later /\ d[i] = rest[i] % 64
        OBVIOUS
    <2>2. DOMAIN d = 1..len /\ d = [i \in DOMAIN d |-> d[i]]
        OBVIOUS
    <2>. HIDE DEF d
    <2>3. ASSUME NEW i \in 1..len PROVE d[i] = rest[i] - 128 /\ d[i] \in Nat
        <3>. DEFINE x == rest[i]
        <3>1. x \in Later /\ d[i] = x % 64
            BY <2>1
        <3>. HIDE DEF x
        <3>2. x % 64 = x - 128 /\ x - 128 \in Nat
            BY <3>1, LaterIs
        <3>. QED  BY <3>1, <3>2 DEF x
    <2>. QED  BY <2>2, <2>3
<1>3. len \in Nat /\ 64 \in Nat /\ p \in Nat
    OBVIOUS
<1>. HIDE DEF d, p
<1>4. PICK t : Taken(t, len, p, d, 64)
    BY ONLY <1>2, <1>3, PositionalIs
<1>5. t[0] = p /\ AccumOf(c, len, rest) = t[len] /\ \A i \in 1..len : t[i] = t[i - 1] * 64 + d[i]
    BY <1>4 DEF Taken, AccumOf, d, p
<1>6. CASE len = 1
    <2>1. t[1] = t[0] * 64 + d[1]
        BY <1>5, <1>6
    <2>. QED  BY <1>2, <1>5, <1>6, <2>1 DEF p
<1>7. CASE len = 2
    <2>1. t[1] = t[0] * 64 + d[1] /\ t[2] = t[1] * 64 + d[2]
        BY <1>5, <1>7
    <2>. QED  BY <1>2, <1>5, <1>7, <2>1 DEF p
<1>8. CASE len = 3
    <2>1. t[1] = t[0] * 64 + d[1] /\ t[2] = t[1] * 64 + d[2] /\ t[3] = t[2] * 64 + d[3]
        BY <1>5, <1>8
    <2>. QED  BY <1>2, <1>5, <1>8, <2>1 DEF p
<1>. QED  BY <1>6, <1>7, <1>8

\* Every codepoint by the number of its bytes.
LEMMA Canonical1 == ASSUME NEW v \in Nat, v < 128 PROVE Canonical(v) = <<v>>
<1>1. v < 128 /\ ~(v >= 128) /\ ~(v >= 2048) /\ ~(v >= 65536)
    OBVIOUS
<1>. QED  BY ONLY <1>1 DEF Canonical

LEMMA Canonical2 ==
    ASSUME NEW v \in Nat, v >= 128, v < 2048
    PROVE  Canonical(v) = <<192 + (v \div 64), 128 + (v % 64)>>
<1>1. v >= 128 /\ v < 2048 /\ ~(v < 128) /\ ~(v >= 2048) /\ ~(v >= 65536)
    OBVIOUS
<1>. QED  BY ONLY <1>1 DEF Canonical

LEMMA Canonical3 ==
    ASSUME NEW v \in Nat, v >= 2048, v < 65536
    PROVE  Canonical(v) = <<224 + (v \div 4096), 128 + ((v \div 64) % 64), 128 + (v % 64)>>
<1>1. v >= 2048 /\ v < 65536 /\ ~(v < 128) /\ ~(v < 2048) /\ ~(v >= 65536)
    OBVIOUS
<1>. QED  BY ONLY <1>1 DEF Canonical

LEMMA Canonical4 ==
    ASSUME NEW v \in Nat, v >= 65536
    PROVE  Canonical(v) = <<240 + (v \div 262144), 128 + ((v \div 4096) % 64),
                            128 + ((v \div 64) % 64), 128 + (v % 64)>>
<1>1. v >= 65536 /\ ~(v < 128) /\ ~(v < 2048) /\ ~(v < 65536)
    OBVIOUS
<1>. QED  BY ONLY <1>1 DEF Canonical

\* The digits of a number to the base 64.
LEMMA QuotientIsOnly ==
    ASSUME NEW d \in Nat \ {0}, NEW q \in Nat, NEW r \in Nat, r < d
    PROVE  (d * q + r) \div d = q
<1>1. r \in 0..(d - 1)
    OBVIOUS
<1>. QED  BY <1>1, DivisionIsOnly

LEMMA Sixes ==
    ASSUME NEW v \in Nat
    PROVE  /\ v \div 64 \in Nat /\ v % 64 \in Nat /\ v % 64 < 64 /\ v = 64 * (v \div 64) + (v % 64)
           /\ v \div 4096 = (v \div 64) \div 64
           /\ v \div 262144 = (v \div 4096) \div 64
<1>1. ASSUME NEW u \in Nat PROVE u \div 64 \in Nat /\ u % 64 \in Nat /\ u % 64 < 64 /\ u = 64 * (u \div 64) + (u % 64)
    BY SMT
<1>. DEFINE a == v \div 64
            c == v % 64
            b == a % 64
            d == a \div 64
            e == d % 64
            f == d \div 64
<1>2. a \in Nat /\ c \in Nat /\ c < 64 /\ v = 64 * a + c
    BY <1>1, SMT
<1>3. d \in Nat /\ b \in Nat /\ b < 64 /\ a = 64 * d + b
    BY <1>1, <1>2, SMT
<1>4. f \in Nat /\ e \in Nat /\ e < 64 /\ d = 64 * f + e
    BY <1>1, <1>3, SMT
<1>. HIDE DEF a, b, c, d, e, f
<1>5. v \div 4096 = d
    <2>1. 64 * b + c \in Nat /\ 64 * b + c < 4096 /\ 4096 * d + (64 * b + c) = v /\ 4096 \in Nat \ {0}
        BY <1>2, <1>3, SMT
    <2>. QED  BY <1>3, <2>1, QuotientIsOnly, SMT
<1>6. v \div 262144 = f
    <2>1. 4096 * e + 64 * b + c \in Nat /\ 4096 * e + 64 * b + c < 262144 /\ 262144 * f + (4096 * e + 64 * b + c) = v /\ 262144 \in Nat \ {0}
        BY <1>2, <1>3, <1>4, SMT
    <2>. QED  BY <1>4, <2>1, QuotientIsOnly, SMT
<1>. QED  BY <1>2, <1>3, <1>4, <1>5, <1>6, SMT DEF a, c, d, f

LEMMA Undigits ==
    ASSUME NEW a \in Nat, NEW x \in Nat, x < 64
    PROVE  (a * 64 + x) \div 64 = a /\ (a * 64 + x) % 64 = x
<1>1. 64 \in Nat \ {0} /\ x \in 0..(64 - 1)
    BY SMT
<1>2. (64 * a + x) \div 64 = a /\ (64 * a + x) % 64 = x
    BY ONLY <1>1, a \in Nat, DivisionIsOnly
<1>3. a * 64 + x = 64 * a + x
    OBVIOUS
<1>. QED  BY <1>2, <1>3

LEMMA Digits ==
    ASSUME NEW v \in Nat, v < 2097152
    PROVE  /\ v \div 64 \in Nat /\ v \div 4096 \in Nat /\ v \div 262144 \in Nat /\ v \div 262144 < 8
           /\ (v \div 64) % 64 \in Nat /\ (v \div 64) % 64 < 64 /\ (v \div 4096) % 64 \in Nat /\ (v \div 4096) % 64 < 64 /\ v % 64 \in Nat /\ v % 64 < 64
           /\ v = 64 * (v \div 64) + (v % 64)
           /\ v = 4096 * (v \div 4096) + 64 * ((v \div 64) % 64) + (v % 64)
           /\ v = 262144 * (v \div 262144) + 4096 * ((v \div 4096) % 64) + 64 * ((v \div 64) % 64) + (v % 64)
<1>. DEFINE a == v \div 64
            d == v \div 4096
            f == v \div 262144
            c == v % 64
            b == a % 64
            e == d % 64
<1>0. v \in Nat
    OBVIOUS
<1>1. a \in Nat /\ c \in Nat /\ c < 64 /\ v = 64 * a + c
    BY <1>0, Sixes, SMT
<1>2. d \in Nat /\ b \in Nat /\ b < 64 /\ a = 64 * d + b
    <2>1. d = a \div 64
        BY <1>0, Sixes, SMT
    <2>2. a \div 64 \in Nat /\ a % 64 \in Nat /\ a % 64 < 64 /\ a = 64 * (a \div 64) + (a % 64)
        BY <1>1, Sixes, SMT
    <2>. QED  BY <2>1, <2>2, SMT
<1>3. f \in Nat /\ e \in Nat /\ e < 64 /\ d = 64 * f + e
    <2>1. f = d \div 64
        BY <1>0, Sixes, SMT
    <2>2. d \div 64 \in Nat /\ d % 64 \in Nat /\ d % 64 < 64 /\ d = 64 * (d \div 64) + (d % 64)
        BY <1>2, Sixes, SMT
    <2>. QED  BY <2>1, <2>2, SMT
<1>. HIDE DEF a, b, c, d, e, f
<1>4. /\ a \in Nat /\ d \in Nat /\ f \in Nat /\ f < 8
      /\ v = 4096 * d + 64 * b + c /\ v = 262144 * f + 4096 * e + 64 * b + c
    BY <1>1, <1>2, <1>3, SMT
<1>. QED  BY <1>1, <1>2, <1>3, <1>4, SMT DEF a, b, c, d, e, f

\* w is v in len + 1 bytes, as the decoder takes them apart.
Holds(v, w, len) ==
    /\ w \in [1..(len + 1) -> Octets] /\ Len(w) = len + 1
    /\ sequence_length(w[1]) = len /\ w[1] \notin Later
    /\ \A i \in 1..len : w[i + 1] \in Later
    /\ len = 0 => w[1] = v /\ v < 128
    /\ len # 0 => AccumOf(w[1], len, [i \in 1..len |-> w[i + 1]]) = v /\ uses_level(v, len)

\* Canonical is such a form, for every codepoint.
LEMMA CanonicalIs ==
    ASSUME NEW v \in Scalars
    PROVE  \E len \in 0..3 : Holds(v, Canonical(v), len)
<1>0. v \in Nat /\ v < 2097152
    BY DEF Scalars
<1>1. CASE v < 128
    <2>. SUFFICES Holds(v, <<v>>, 0)
        BY <1>0, <1>1, Canonical1
    <2>1. v \in Octets /\ v < 128
        BY <1>0, <1>1, ByteIs
    <2>2. sequence_length(v) = 0
        BY <2>1, LeadIs
    <2>3. v \notin Later
        BY <1>0, <1>1, ByteIs
    <2>. QED  BY <1>1, <2>1, <2>2, <2>3 DEF Holds
<1>2. CASE v >= 128 /\ v < 2048
    <2>. DEFINE a == v \div 64
                b == v % 64
                w == <<192 + a, 128 + b>>
                rest == [i \in 1..1 |-> w[i + 1]]
    <2>a. v \in Nat /\ v < 2097152
        BY <1>0
    <2>b. a \in Nat /\ b \in Nat /\ b < 64 /\ v = 64 * a + b
        BY <2>a, Digits, SMT
    <2>1. Canonical(v) = w
        BY ONLY <1>0, <1>2, Canonical2 DEF w, a, b
    <2>. HIDE DEF a, b
    <2>0. a \in Nat /\ a >= 2 /\ a < 32 /\ b \in Nat /\ b < 64 /\ v = 64 * a + b
        BY ONLY <1>0, <1>2, <2>b, SMT
    <2>3. 192 + a \in Nat /\ 192 + a >= 192 /\ 192 + a < 224 /\ 192 + a < 256
        BY ONLY <2>0, SMT
    <2>c. 192 + a \in Octets /\ 192 + a \notin Later
        BY <2>3, ByteIs
    <2>d. 128 + b \in Octets /\ 128 + b \in Later
        <3>1. 128 + b \in Nat /\ 128 + b >= 128 /\ 128 + b < 192 /\ 128 + b < 256
            BY ONLY <2>0, SMT
        <3>. QED  BY <3>1, ByteIs
    <2>2. w \in [1..(1 + 1) -> Octets] /\ Len(w) = 1 + 1 /\ w[1] = 192 + a /\ w[2] = 128 + b
        BY ONLY <2>c, <2>d DEF w
    <2>4. sequence_length(192 + a) = 1 /\ prefix_value(192 + a, 1) = a
        <3>. DEFINE x == 192 + a
        <3>1. x \in Octets /\ x >= 192 /\ x < 224 /\ x - 192 = a
            BY <2>0, <2>3, <2>c
        <3>. HIDE DEF x
        <3>. QED  BY ONLY <3>1, LeadIs DEF x
    <2>. HIDE DEF w
    <2>5. rest \in [1..1 -> Later] /\ rest[1] = 128 + b
        BY ONLY <2>2, <2>d DEF rest
    <2>. HIDE DEF rest
    <2>6. AccumOf(192 + a, 1, rest) = a * 64 + (rest[1] - 128)
        BY <2>0, <2>4, <2>5, AccumSums
    <2>7. AccumOf(192 + a, 1, rest) = v
        BY <2>0, <2>5, <2>6
    <2>8. uses_level(v, 1)
        <3>1. (v \div 128) % 16 # 0
            BY ONLY <1>0, <1>2
        <3>. QED  BY <3>1 DEF uses_level
    <2>9. \A i \in 1..1 : w[i + 1] \in Later
        BY ONLY <2>2, <2>d
    <2>10. w[1] \notin Later
        BY <2>2, <2>c
    <2>. QED  BY <2>1, <2>2, <2>4, <2>7, <2>8, <2>9, <2>10 DEF Holds, rest
<1>3. CASE v >= 2048 /\ v < 65536
    <2>. DEFINE a == v \div 4096
                b == (v \div 64) % 64
                c == v % 64
                w == <<224 + a, 128 + b, 128 + c>>
                rest == [i \in 1..2 |-> w[i + 1]]
    <2>a. v \in Nat /\ v < 2097152
        BY <1>0
    <2>b. a \in Nat /\ b \in Nat /\ b < 64 /\ c \in Nat /\ c < 64 /\ v = 4096 * a + 64 * b + c
        BY <2>a, Digits, SMT
    <2>1. Canonical(v) = w
        BY ONLY <1>0, <1>3, Canonical3 DEF w, a, b, c
    <2>. HIDE DEF a, b, c
    <2>0. a \in Nat /\ a < 16 /\ b \in Nat /\ b < 64 /\ c \in Nat /\ c < 64 /\ v = 4096 * a + 64 * b + c
        BY ONLY <1>0, <1>3, <2>b, SMT
    <2>3. 224 + a \in Nat /\ 224 + a >= 224 /\ 224 + a < 240 /\ 224 + a < 256
        BY ONLY <2>0, SMT
    <2>c. 224 + a \in Octets /\ 224 + a \notin Later
        BY <2>3, ByteIs
    <2>d. 128 + b \in Octets /\ 128 + b \in Later /\ 128 + c \in Octets /\ 128 + c \in Later
        <3>1. 128 + b \in Nat /\ 128 + b >= 128 /\ 128 + b < 192 /\ 128 + b < 256 /\ 128 + c \in Nat /\ 128 + c >= 128 /\ 128 + c < 192 /\ 128 + c < 256
            BY ONLY <2>0, SMT
        <3>. QED  BY <3>1, ByteIs
    <2>2. w \in [1..(2 + 1) -> Octets] /\ Len(w) = 2 + 1 /\ w[1] = 224 + a /\ w[2] = 128 + b /\ w[3] = 128 + c
        BY ONLY <2>c, <2>d DEF w
    <2>4. sequence_length(224 + a) = 2 /\ prefix_value(224 + a, 2) = a
        <3>. DEFINE x == 224 + a
        <3>1. x \in Octets /\ x >= 224 /\ x < 240 /\ x - 224 = a
            BY <2>0, <2>3, <2>c
        <3>. HIDE DEF x
        <3>. QED  BY ONLY <3>1, LeadIs DEF x
    <2>. HIDE DEF w
    <2>5. rest \in [1..2 -> Later] /\ rest[1] = 128 + b /\ rest[2] = 128 + c
        BY ONLY <2>2, <2>d DEF rest
    <2>. HIDE DEF rest
    <2>6. AccumOf(224 + a, 2, rest) = (a * 64 + (rest[1] - 128)) * 64 + (rest[2] - 128)
        BY <2>0, <2>4, <2>5, AccumSums
    <2>7. AccumOf(224 + a, 2, rest) = v
        BY <2>0, <2>5, <2>6
    <2>8. uses_level(v, 2)
        <3>1. (v \div 2048) % 32 # 0
            BY ONLY <1>0, <1>3
        <3>. QED  BY <3>1 DEF uses_level
    <2>9. \A i \in 1..2 : w[i + 1] \in Later
        BY ONLY <2>2, <2>d
    <2>10. w[1] \notin Later
        BY <2>2, <2>c
    <2>. QED  BY <2>1, <2>2, <2>4, <2>7, <2>8, <2>9, <2>10 DEF Holds, rest
<1>4. CASE v >= 65536
    <2>. DEFINE a == v \div 262144
                b == (v \div 4096) % 64
                c == (v \div 64) % 64
                d == v % 64
                w == <<240 + a, 128 + b, 128 + c, 128 + d>>
                rest == [i \in 1..3 |-> w[i + 1]]
    <2>a. v \in Nat /\ v < 2097152
        BY <1>0
    <2>b. a \in Nat /\ a < 8 /\ b \in Nat /\ b < 64 /\ c \in Nat /\ c < 64 /\ d \in Nat /\ d < 64 /\ v = 262144 * a + 4096 * b + 64 * c + d
        BY <2>a, Digits, SMT
    <2>1. Canonical(v) = w
        BY ONLY <1>0, <1>4, Canonical4 DEF w, a, b, c, d
    <2>. HIDE DEF a, b, c, d
    <2>0. a \in Nat /\ a < 8 /\ b \in Nat /\ b < 64 /\ c \in Nat /\ c < 64 /\ d \in Nat /\ d < 64 /\ v = 262144 * a + 4096 * b + 64 * c + d
        BY <2>b
    <2>3. 240 + a \in Nat /\ 240 + a >= 240 /\ 240 + a < 248 /\ 240 + a < 256
        BY ONLY <2>0, SMT
    <2>c. 240 + a \in Octets /\ 240 + a \notin Later
        BY <2>3, ByteIs
    <2>d. 128 + b \in Octets /\ 128 + b \in Later /\ 128 + c \in Octets /\ 128 + c \in Later /\ 128 + d \in Octets /\ 128 + d \in Later
        <3>1. 128 + b \in Nat /\ 128 + b >= 128 /\ 128 + b < 192 /\ 128 + b < 256 /\ 128 + c \in Nat /\ 128 + c >= 128 /\ 128 + c < 192 /\ 128 + c < 256 /\ 128 + d \in Nat /\ 128 + d >= 128 /\ 128 + d < 192 /\ 128 + d < 256
            BY ONLY <2>0, SMT
        <3>. QED  BY <3>1, ByteIs
    <2>2. /\ w \in [1..(3 + 1) -> Octets] /\ Len(w) = 3 + 1
          /\ w[1] = 240 + a /\ w[2] = 128 + b /\ w[3] = 128 + c /\ w[4] = 128 + d
        BY ONLY <2>c, <2>d DEF w
    <2>4. sequence_length(240 + a) = 3 /\ prefix_value(240 + a, 3) = a
        <3>. DEFINE x == 240 + a
        <3>1. x \in Octets /\ x >= 240 /\ x < 248 /\ x - 240 = a
            BY <2>0, <2>3, <2>c
        <3>. HIDE DEF x
        <3>. QED  BY ONLY <3>1, LeadIs DEF x
    <2>. HIDE DEF w
    <2>5. rest \in [1..3 -> Later] /\ rest[1] = 128 + b /\ rest[2] = 128 + c /\ rest[3] = 128 + d
        BY ONLY <2>2, <2>d DEF rest
    <2>. HIDE DEF rest
    <2>6. AccumOf(240 + a, 3, rest) = ((a * 64 + (rest[1] - 128)) * 64 + (rest[2] - 128)) * 64 + (rest[3] - 128)
        BY <2>0, <2>4, <2>5, AccumSums
    <2>7. AccumOf(240 + a, 3, rest) = v
        BY <2>0, <2>5, <2>6
    <2>8. uses_level(v, 3)
        <3>1. (v \div 65536) % 32 # 0
            BY ONLY <1>0, <1>4
        <3>. QED  BY <3>1 DEF uses_level
    <2>9. \A i \in 1..3 : w[i + 1] \in Later
        BY ONLY <2>2, <2>d
    <2>10. w[1] \notin Later
        BY <2>2, <2>c
    <2>. QED  BY <2>1, <2>2, <2>4, <2>7, <2>8, <2>9, <2>10 DEF Holds, rest
<1>5. v < 128 \/ (v >= 128 /\ v < 2048) \/ (v >= 2048 /\ v < 65536) \/ v >= 65536
    BY <1>0
<1>. QED  BY ONLY <1>1, <1>2, <1>3, <1>4, <1>5

LEMMA LaterSubtracts == ASSUME NEW b \in Later PROVE b - 128 \in Nat /\ b - 128 < 64
BY DEF Later

\* A codepoint whose bytes are a lead and what follows it.
Leads(v, len, c, rest) ==
    Len(Canonical(v)) = len + 1 /\ Canonical(v)[1] = c /\ \A i \in 1..len : Canonical(v)[i + 1] = rest[i]

\* What the decoder makes of well formed bytes of several is in 21 bits, and
\* they are its canonical form if it uses them all.
LEMMA AccumIs ==
    ASSUME NEW c \in Octets, NEW len \in 1..3, sequence_length(c) = len, NEW rest \in [1..len -> Later]
    PROVE  /\ AccumOf(c, len, rest) \in Scalars
           /\ uses_level(AccumOf(c, len, rest), len) => Leads(AccumOf(c, len, rest), len, c, rest)
<1>. DEFINE v == AccumOf(c, len, rest)
<1>a. c \in Nat /\ \A i \in 1..len : rest[i] \in Later
    BY DEF Octets
<1>0. c < 128 \/ (c >= 128 /\ c < 192) \/ (c >= 192 /\ c < 224) \/ (c >= 224 /\ c < 240) \/ (c >= 240 /\ c < 248) \/ c >= 248
    BY <1>a
<1>1. \/ len = 1 /\ c >= 192 /\ c < 224 /\ prefix_value(c, 1) = c - 192
      \/ len = 2 /\ c >= 224 /\ c < 240 /\ prefix_value(c, 2) = c - 224
      \/ len = 3 /\ c >= 240 /\ c < 248 /\ prefix_value(c, 3) = c - 240
    <2>1. ~(c < 128) /\ ~(c >= 128 /\ c < 192) /\ ~(c >= 248)
        BY LeadIs
    <2>2. c >= 192 /\ c < 224 => len = 1 /\ prefix_value(c, 1) = c - 192
        BY LeadIs
    <2>3. c >= 224 /\ c < 240 => len = 2 /\ prefix_value(c, 2) = c - 224
        BY LeadIs
    <2>4. c >= 240 /\ c < 248 => len = 3 /\ prefix_value(c, 3) = c - 240
        BY LeadIs
    <2>. QED  BY ONLY <1>0, <2>1, <2>2, <2>3, <2>4
<1>2. CASE len = 1
    <2>. DEFINE a == c - 192
                x == rest[1] - 128
    <2>1. c >= 192 /\ c < 224 /\ prefix_value(c, len) = a /\ a \in Nat /\ a < 32 /\ x \in Nat /\ x < 64
        <3>1. rest[1] \in Later
            BY <1>a, <1>2
        <3>2. x \in Nat /\ x < 64
            BY ONLY <3>1, LaterIs DEF x
        <3>. QED  BY <1>1, <1>a, <1>2, <3>2
    <2>2. v = a * 64 + x
        BY <1>2, <2>1, AccumSums
    <2>. HIDE DEF v
    <2>. HIDE DEF a, x
    <2>3. v \in Nat /\ v < 2048 /\ v \div 64 = a /\ v % 64 = x
        <3>1. a \in Nat
            BY <2>1
        <3>2. (a * 64 + x) \div 64 = a /\ (a * 64 + x) % 64 = x
            BY <2>1, <3>1, Undigits
        <3>3. v \in Nat /\ v < 2048
            BY ONLY <2>1, <2>2
        <3>. QED  BY <2>2, <3>2, <3>3
    <2>4. v \in Scalars
        BY <2>3 DEF Scalars
    <2>5. ASSUME uses_level(v, len)
          PROVE  Leads(v, len, c, rest)
        <3>1. v >= 128 /\ v < 2048
            <4>1. (v \div 128) % 16 # 0
                BY ONLY <1>2, <2>5 DEF uses_level
            <4>2. v < 128 => v \div 128 = 0
                BY ONLY <2>3, SMT
            <4>. QED  BY ONLY <2>3, <4>1, <4>2, SMT
        <3>a. v \in Nat
            BY <2>3
        <3>b. Canonical(v) = <<192 + (v \div 64), 128 + (v % 64)>>
            BY ONLY <3>a, <3>1, Canonical2
        <3>2. Canonical(v) = <<192 + a, 128 + x>>
            BY <3>b, <2>3
        <3>3. 192 + a = c /\ 128 + x = rest[1]
            <4>1. rest[1] \in Nat
                BY <1>a, <1>2, LaterIs
            <4>. QED  BY <1>a, <4>1 DEF a, x
        <3>4. Canonical(v) = <<c, rest[1]>>
            BY <3>2, <3>3
        <3>5. \A i \in 1..len : i = 1
            BY <1>2
        <3>. QED  BY ONLY <1>2, <3>4, <3>5 DEF Leads
    <2>. QED  BY <2>4, <2>5 DEF v
<1>3. CASE len = 2
    <2>. DEFINE a == c - 224
                x == rest[1] - 128
                y == rest[2] - 128
    <2>1. c >= 224 /\ c < 240 /\ prefix_value(c, len) = a /\ a \in Nat /\ a < 16 /\ x \in Nat /\ x < 64 /\ y \in Nat /\ y < 64
        <3>1. rest[1] \in Later /\ rest[2] \in Later
            BY <1>a, <1>3
        <3>a. x \in Nat /\ x < 64
            BY ONLY <3>1, LaterSubtracts DEF x
        <3>b. y \in Nat /\ y < 64
            BY ONLY <3>1, LaterSubtracts DEF y
        <3>2. x \in Nat /\ x < 64 /\ y \in Nat /\ y < 64
            BY <3>a, <3>b
        <3>. QED  BY <1>1, <1>a, <1>3, <3>2
    <2>2. v = (a * 64 + x) * 64 + y
        BY <1>3, <2>1, AccumSums
    <2>. HIDE DEF v
    <2>. HIDE DEF a, x, y
    <2>3. v \in Nat /\ v < 65536 /\ v \div 4096 = a /\ (v \div 64) % 64 = x /\ v % 64 = y
        <3>. DEFINE u == a * 64 + x
        <3>1. a \in Nat /\ u \in Nat
            BY <2>1
        <3>2. u \div 64 = a /\ u % 64 = x
            BY ONLY <2>1, <3>1, Undigits DEF u
        <3>3. v \in Nat /\ v < 65536
            BY ONLY <2>1, <2>2
        <3>. HIDE DEF u
        <3>4. v \div 64 = u /\ v % 64 = y
            <4>1. v = u * 64 + y
                BY <2>2 DEF u
            <4>2. (u * 64 + y) \div 64 = u /\ (u * 64 + y) % 64 = y
                BY ONLY <2>1, <3>1, Undigits
            <4>. QED  BY <4>1, <4>2
        <3>5. v \div 4096 = (v \div 64) \div 64
            BY <3>3, Sixes, SMT
        <3>. QED  BY <3>2, <3>3, <3>4, <3>5
    <2>4. v \in Scalars
        BY <2>3 DEF Scalars
    <2>5. ASSUME uses_level(v, len)
          PROVE  Leads(v, len, c, rest)
        <3>1. v >= 2048 /\ v < 65536
            <4>1. (v \div 2048) % 32 # 0
                BY ONLY <1>3, <2>5 DEF uses_level
            <4>2. v < 2048 => v \div 2048 = 0
                BY ONLY <2>3, SMT
            <4>. QED  BY ONLY <2>3, <4>1, <4>2, SMT
        <3>a. v \in Nat
            BY <2>3
        <3>b. Canonical(v) = <<224 + (v \div 4096), 128 + ((v \div 64) % 64), 128 + (v % 64)>>
            BY ONLY <3>a, <3>1, Canonical3
        <3>2. Canonical(v) = <<224 + a, 128 + x, 128 + y>>
            BY <3>b, <2>3
        <3>3. 224 + a = c /\ 128 + x = rest[1] /\ 128 + y = rest[2]
            <4>1. rest[1] \in Nat /\ rest[2] \in Nat
                BY <1>a, <1>3, LaterIs
            <4>. QED  BY <1>a, <4>1 DEF a, x, y
        <3>4. Canonical(v) = <<c, rest[1], rest[2]>>
            BY <3>2, <3>3
        <3>5. \A i \in 1..len : i = 1 \/ i = 2
            BY <1>3
        <3>. QED  BY ONLY <1>3, <3>4, <3>5 DEF Leads
    <2>. QED  BY <2>4, <2>5 DEF v
<1>4. CASE len = 3
    <2>. DEFINE a == c - 240
                x == rest[1] - 128
                y == rest[2] - 128
                z == rest[3] - 128
    <2>1. c >= 240 /\ c < 248 /\ prefix_value(c, len) = a /\ a \in Nat /\ a < 8 /\ x \in Nat /\ x < 64 /\ y \in Nat /\ y < 64 /\ z \in Nat /\ z < 64
        <3>1. rest[1] \in Later /\ rest[2] \in Later /\ rest[3] \in Later
            BY <1>a, <1>4
        <3>a. x \in Nat /\ x < 64
            BY ONLY <3>1, LaterSubtracts DEF x
        <3>b. y \in Nat /\ y < 64
            BY ONLY <3>1, LaterSubtracts DEF y
        <3>c. z \in Nat /\ z < 64
            BY ONLY <3>1, LaterSubtracts DEF z
        <3>2. x \in Nat /\ x < 64 /\ y \in Nat /\ y < 64 /\ z \in Nat /\ z < 64
            BY <3>a, <3>b, <3>c
        <3>. QED  BY <1>1, <1>a, <1>4, <3>2
    <2>2. v = ((a * 64 + x) * 64 + y) * 64 + z
        BY <1>4, <2>1, AccumSums
    <2>. HIDE DEF v
    <2>. HIDE DEF a, x, y, z
    <2>3. v \in Nat /\ v < 2097152 /\ v \div 262144 = a /\ (v \div 4096) % 64 = x /\ (v \div 64) % 64 = y /\ v % 64 = z
        <3>. DEFINE u == a * 64 + x
                    t == u * 64 + y
        <3>1. a \in Nat /\ u \in Nat
            BY <2>1
        <3>2. u \div 64 = a /\ u % 64 = x
            BY ONLY <2>1, <3>1, Undigits DEF u
        <3>3. v \in Nat /\ v < 2097152
            BY ONLY <2>1, <2>2
        <3>4. v = t * 64 + z
            BY <2>2
        <3>. HIDE DEF u
        <3>5. t \div 64 = u /\ t % 64 = y /\ t \in Nat
            <4>1. t \in Nat
                BY <2>1, <3>1
            <4>. QED  BY ONLY <2>1, <3>1, <4>1, Undigits DEF t
        <3>. HIDE DEF t
        <3>6. v \div 64 = t /\ v % 64 = z
            <4>1. (t * 64 + z) \div 64 = t /\ (t * 64 + z) % 64 = z
                BY ONLY <2>1, <3>5, Undigits
            <4>. QED  BY <3>4, <4>1
        <3>7. v \div 4096 = (v \div 64) \div 64
            BY <3>3, Sixes, SMT
        <3>8. v \div 262144 = (v \div 4096) \div 64
            BY <3>3, Sixes, SMT
        <3>. QED  BY <3>2, <3>3, <3>5, <3>6, <3>7, <3>8
    <2>4. v \in Scalars
        BY <2>3 DEF Scalars
    <2>5. ASSUME uses_level(v, len)
          PROVE  Leads(v, len, c, rest)
        <3>1. v >= 65536
            <4>1. (v \div 65536) % 32 # 0
                BY ONLY <1>4, <2>5 DEF uses_level
            <4>2. v < 65536 => v \div 65536 = 0
                BY ONLY <2>3, SMT
            <4>. QED  BY ONLY <2>3, <4>1, <4>2, SMT
        <3>a. v \in Nat
            BY <2>3
        <3>b. Canonical(v) = <<240 + (v \div 262144), 128 + ((v \div 4096) % 64), 128 + ((v \div 64) % 64), 128 + (v % 64)>>
            BY ONLY <3>a, <3>1, Canonical4
        <3>2. Canonical(v) = <<240 + a, 128 + x, 128 + y, 128 + z>>
            BY <3>b, <2>3
        <3>3. 240 + a = c /\ 128 + x = rest[1] /\ 128 + y = rest[2] /\ 128 + z = rest[3]
            <4>1. rest[1] \in Nat /\ rest[2] \in Nat /\ rest[3] \in Nat
                BY <1>a, <1>4, LaterIs
            <4>. QED  BY <1>a, <4>1 DEF a, x, y, z
        <3>4. Canonical(v) = <<c, rest[1], rest[2], rest[3]>>
            BY <3>2, <3>3
        <3>5. \A i \in 1..len : i = 1 \/ i = 2 \/ i = 3
            BY <1>4
        <3>. QED  BY ONLY <1>4, <3>4, <3>5 DEF Leads
    <2>. QED  BY <2>4, <2>5 DEF v
<1>. QED  BY <1>2, <1>3, <1>4

Legals == {v \in Scalars : Legal(v)}

\* The bytes of a codepoint stand behind k octets of a text.
Stands(s, k, v) ==
    /\ k + Len(Canonical(v)) <= Len(s)
    /\ \A i \in 1..Len(Canonical(v)) : s[k + i] = Canonical(v)[i]

\* What one turn makes of the octets behind k.
Turned(s, k, out, next) ==
    \/ \E v \in Legals :
          /\ Stands(s, k, v)
          /\ next = [how |-> "done", cursor |-> k + Len(Canonical(v)) + 1, out |-> Append(out, v)]
    \/ /\ \A v \in Legals : ~Stands(s, k, v)
       /\ \E h \in {"malformed", "overlong", "illegal"} : next = [how |-> h, cursor |-> k + 1, out |-> out]

\* The octets behind the first of a sequence.
Following(s, k, len, rest) ==
    /\ rest \in [1..len -> Octets] /\ Len(rest) = len
    /\ \A i \in 1..len : rest[i] = s[k + 1 + i]

LEMMA FollowingIs ==
    ASSUME NEW s \in Seq(Octets), NEW k \in Nat, NEW len \in Nat, k + 1 + len <= Len(s)
    PROVE  Following(s, k, len, SubSeq(s, k + 2, k + 1 + len))
<1>. DEFINE m == k + 2
            n == k + 1 + len
            rest == SubSeq(s, m, n)
<1>1. m \in Nat \ {0} /\ n \in Nat /\ n <= Len(s) /\ m <= n + 1 /\ n - m + 1 = len /\ Len(s) \in Nat
    OBVIOUS
<1>2. \A i \in 1..Len(s) : s[i] \in Octets
    OBVIOUS
<1>3. Len(rest) = len /\ rest = [i \in 1..len |-> s[m + i - 1]]
    BY <1>1
<1>4. ASSUME NEW i \in 1..len PROVE s[m + i - 1] = s[k + 1 + i] /\ s[k + 1 + i] \in Octets
    <2>1. m + i - 1 = k + 1 + i /\ k + 1 + i \in 1..Len(s)
        BY <1>1
    <2>. QED  BY <1>2, <2>1
<1>. HIDE DEF rest, m
<1>. QED  BY <1>3, <1>4 DEF Following, rest, m

\* How many bytes a codepoint has that stands somewhere, by the first of them.
LEMMA StandingIs ==
    ASSUME NEW s \in Seq(Octets), NEW k \in Nat, NEW v \in Scalars, Stands(s, k, v)
    PROVE  /\ k < Len(s) /\ s[k + 1] \in Octets
           /\ sequence_length(s[k + 1]) \in 0..3
           /\ Len(Canonical(v)) = sequence_length(s[k + 1]) + 1
           /\ Holds(v, Canonical(v), sequence_length(s[k + 1]))
<1>1. PICK l \in 0..3 : Holds(v, Canonical(v), l)
    BY CanonicalIs
<1>2. Len(Canonical(v)) = l + 1 /\ sequence_length(Canonical(v)[1]) = l
    BY <1>1 DEF Holds
<1>3. k + l + 1 <= Len(s) /\ Len(s) \in Nat
    BY <1>2 DEF Stands
<1>4. s[k + 1] = Canonical(v)[1]
    <2>1. 1 \in 1..Len(Canonical(v))
        BY <1>2
    <2>. QED  BY <2>1 DEF Stands
<1>5. k < Len(s) /\ k + 1 \in 1..Len(s)
    BY <1>3
<1>6. s[k + 1] \in Octets
    BY <1>5
<1>. QED  BY <1>1, <1>2, <1>4, <1>5, <1>6

\* A codepoint of several bytes that stands somewhere is what the decoder makes
\* of them.
LEMMA StandingAccum ==
    ASSUME NEW s \in Seq(Octets), NEW k \in Nat, NEW v \in Scalars, Stands(s, k, v),
           NEW len \in 1..3, sequence_length(s[k + 1]) = len, NEW rest, Following(s, k, len, rest)
    PROVE  /\ \A i \in 1..len : rest[i] \in Later
           /\ AccumOf(s[k + 1], len, rest) = v /\ uses_level(v, len)
<1>. DEFINE w == Canonical(v)
            r == [i \in 1..len |-> w[i + 1]]
<1>1. Holds(v, w, len) /\ Len(w) = len + 1
    BY StandingIs
<1>. HIDE DEF w
<1>2. \A i \in 1..len : w[i + 1] \in Later
    BY <1>1 DEF Holds
<1>3. AccumOf(w[1], len, r) = v /\ uses_level(v, len)
    <2>1. len # 0
        OBVIOUS
    <2>. QED  BY <1>1, <2>1 DEF Holds
<1>4. ASSUME NEW i \in 1..len PROVE rest[i] = w[i + 1]
    <2>1. rest[i] = s[k + 1 + i]
        BY DEF Following
    <2>2. i + 1 \in 1..Len(w) /\ k + (i + 1) = k + 1 + i
        BY <1>1
    <2>3. s[k + (i + 1)] = w[i + 1]
        BY <2>2 DEF Stands, w
    <2>. QED  BY <2>1, <2>2, <2>3
<1>5. rest = r
    <2>1. rest \in [1..len -> Octets]
        BY DEF Following
    <2>. QED  BY <1>4, <2>1
<1>6. s[k + 1] = w[1]
    <2>1. 1 \in 1..Len(w)
        BY <1>1
    <2>. QED  BY <2>1 DEF Stands, w
<1>. QED  BY <1>2, <1>3, <1>4, <1>5, <1>6

LEMMA LengthOf ==
    ASSUME NEW c \in Octets
    PROVE  /\ sequence_length(c) \in {-1, 0, 1, 2, 3}
           /\ sequence_length(c) = 0 => c < 128
<1>1. c \in Nat
    BY DEF Octets
<1>2. c < 128 \/ (c >= 128 /\ c < 192) \/ (c >= 192 /\ c < 224) \/ (c >= 224 /\ c < 240) \/ (c >= 240 /\ c < 248) \/ c >= 248
    BY <1>1
<1>. QED  BY <1>2, LeadIs

LEMMA LowIsLegal == ASSUME NEW v \in Nat, v < 128 PROVE v \in Legals
<1>1. v < 2097152 /\ ~(v >= 55296)
    OBVIOUS
<1>2. \A x \in Illegal : x >= 55296
    <2>1. \A x \in 55296..57343 : x >= 55296
        OBVIOUS
    <2>. QED  BY <2>1 DEF Illegal
<1>. QED  BY <1>1, <1>2 DEF Legals, Legal, Scalars

\* A turn reads the legal codepoint that stands behind the cursor, and stops if
\* there is none.
LEMMA TurnIs ==
    ASSUME NEW s \in Seq(Octets), NEW k \in Nat, k < Len(s), NEW out
    PROVE  Turned(s, k, out, turn(s, [how |-> "done", cursor |-> k + 1, out |-> out]))
<1>. DEFINE at == [how |-> "done", cursor |-> k + 1, out |-> out]
            c == s[k + 1]
            len == sequence_length(c)
            n == IF k + 1 + len > Len(s) THEN Len(s) ELSE k + 1 + len
            rest == SubSeq(s, k + 1 + 1, n)
            accum == Positional(prefix_value(c, len), [i \in DOMAIN rest |-> rest[i] % 64], 64)
            Stop(how) == [how |-> how, cursor |-> k + 1, out |-> out]
            Takes(v) == [how |-> "done", cursor |-> k + 1 + len + 1, out |-> Append(out, v)]
            next == turn(s, at)
<1>. SUFFICES Turned(s, k, out, next)
    OBVIOUS
<1>1. next = IF len = Throws THEN Stop("malformed")
           ELSE IF len = 0 THEN Takes(c)
           ELSE IF Len(rest) < len \/ \E i \in DOMAIN rest : ~continuation(rest[i]) THEN Stop("malformed")
           ELSE IF ~uses_level(accum, len) THEN Stop("overlong")
           ELSE IF accum \in Illegal THEN Stop("illegal")
           ELSE Takes(accum)
    <2>1. at.how = "done" /\ at.cursor = k + 1 /\ at.out = out
        OBVIOUS
    <2>2. ~(at.how # "done" \/ at.cursor > Len(s))
        BY <2>1
    <2>3. \A h : [at EXCEPT !.how = h] = Stop(h)
        OBVIOUS
    <2>4. \A v : [how |-> at.how, cursor |-> k + 1 + len + 1, out |-> Append(out, v)] = Takes(v)
        BY <2>1
    <2>. HIDE DEF at, Stop, Takes
    <2>. QED  BY ZenonT(60), <2>1, <2>2, <2>3, <2>4 DEF turn
<1>2. c \in Octets /\ len \in {-1, 0, 1, 2, 3} /\ c \in Nat
    <2>1. k + 1 \in 1..Len(s)
        OBVIOUS
    <2>2. c \in Octets
        BY <2>1
    <2>. HIDE DEF c
    <2>3. c \in Nat
        BY <2>2 DEF Octets
    <2>. QED  BY <2>2, <2>3, LengthOf
<1>3. ASSUME NEW v \in Legals, Stands(s, k, v) PROVE len \in 0..3 /\ v \in Scalars /\ v \notin Illegal
    <2>1. v \in Scalars /\ v \notin Illegal
        BY DEF Legals, Legal
    <2>. QED  BY <1>3, <2>1, StandingIs
<1>. HIDE DEF next, len, at, accum, rest, n
<1>4. ASSUME \A v \in Legals : ~Stands(s, k, v),
             next = Stop("malformed") \/ next = Stop("overlong") \/ next = Stop("illegal")
      PROVE  Turned(s, k, out, next)
    BY <1>4 DEF Turned
<1>b. ASSUME NEW v \in Legals, Stands(s, k, v), len + 1 = Len(Canonical(v)), next = Takes(v) PROVE Turned(s, k, out, next)
    <2>1. k + 1 + len + 1 = k + Len(Canonical(v)) + 1
        BY <1>2, <1>b
    <2>2. next = [how |-> "done", cursor |-> k + Len(Canonical(v)) + 1, out |-> Append(out, v)]
        BY <1>b, <2>1
    <2>. QED  BY <1>b, <2>2 DEF Turned
<1>5. CASE len = -1
    <2>1. next = Stop("malformed")
        BY <1>1, <1>5 DEF Throws
    <2>2. \A v \in Legals : ~Stands(s, k, v)
        BY <1>3, <1>5
    <2>. QED  BY <1>4, <2>1, <2>2
<1>6. CASE len = 0
    <2>1. c < 128 /\ c \in Legals
        BY <1>2, <1>6, LengthOf, LowIsLegal DEF len
    <2>2. Canonical(c) = <<c>>
        BY <1>2, <2>1, Canonical1
    <2>3. Stands(s, k, c)
        BY <2>2 DEF Stands
    <2>4. next = Takes(c)
        BY <1>1, <1>6 DEF Throws
    <2>5. len + 1 = Len(Canonical(c))
        BY <1>6, <2>2
    <2>. QED  BY <1>b, <2>1, <2>3, <2>4, <2>5
<1>7. CASE len \in 1..3 /\ k + 1 + len > Len(s)
    <2>1. n = Len(s) /\ Len(s) \in Nat
        BY <1>7 DEF n
    <2>2. Len(rest) < len
        <3>1. Len(rest) = Len(s) - (k + 1)
            BY ONLY <2>1, s \in Seq(Octets), k \in Nat, k < Len(s) DEF rest
        <3>. QED  BY <1>7, <3>1
    <2>3. next = Stop("malformed")
        BY <1>1, <1>7, <2>2 DEF Throws
    <2>4. ASSUME NEW v \in Legals, Stands(s, k, v) PROVE FALSE
        <3>1. v \in Scalars
            BY DEF Legals
        <3>2. Len(Canonical(v)) = len + 1
            BY <2>4, <3>1, StandingIs DEF len
        <3>. QED  BY <1>7, <2>4, <3>2 DEF Stands
    <2>. QED  BY <1>4, <2>3, <2>4
<1>8. CASE len \in 1..3 /\ ~(k + 1 + len > Len(s))
    <2>1. n = k + 1 + len
        BY <1>8 DEF n
    <2>2. Following(s, k, len, rest)
        <3>1. k + 1 + 1 = k + 2 /\ k + 1 + len <= Len(s) /\ len \in Nat
            BY <1>8
        <3>. QED  BY <2>1, <3>1, FollowingIs DEF rest
    <2>3. accum = AccumOf(c, len, rest)
        BY DEF AccumOf, accum
    <2>. HIDE DEF c
    <2>4. rest \in [1..len -> Octets] /\ Len(rest) = len /\ DOMAIN rest = 1..len
        BY <2>2 DEF Following
    <2>5. \A i \in 1..len : continuation(rest[i]) <=> rest[i] \in Later
        <3>1. ASSUME NEW b \in Octets PROVE continuation(b) <=> b \in Later
            <4>1. b \in Nat
                BY DEF Octets
            <4>2. continuation(b) <=> (b >= 128 /\ b < 192)
                BY LeadIs
            <4>. QED  BY <4>1, <4>2, LaterIs
        <3>. QED  BY <2>4, <3>1
    <2>6. ASSUME NEW v \in Legals, Stands(s, k, v)
          PROVE  (\A i \in 1..len : rest[i] \in Later) /\ accum = v /\ uses_level(v, len) /\ v \notin Illegal
        <3>1. v \in Scalars /\ v \notin Illegal
            BY <1>3, <2>6
        <3>2. len \in 1..3 /\ sequence_length(s[k + 1]) = len
            BY <1>8 DEF len, c
        <3>3. (\A i \in 1..len : rest[i] \in Later) /\ AccumOf(s[k + 1], len, rest) = v /\ uses_level(v, len)
            BY ONLY <2>2, <2>6, <3>1, <3>2, s \in Seq(Octets), k \in Nat, StandingAccum
        <3>. QED  BY <2>3, <3>1, <3>3 DEF c
    <2>7. len # Throws /\ len # 0 /\ ~(Len(rest) < len)
        BY <1>8, <2>4 DEF Throws
    <2>8. CASE \E i \in 1..len : rest[i] \notin Later
        <3>1. next = Stop("malformed")
            BY <1>1, <2>4, <2>5, <2>7, <2>8
        <3>. QED  BY <1>4, <2>6, <2>8, <3>1
    <2>9. CASE \A i \in 1..len : rest[i] \in Later
        <3>1. next = IF ~uses_level(accum, len) THEN Stop("overlong")
                   ELSE IF accum \in Illegal THEN Stop("illegal") ELSE Takes(accum)
            BY <1>1, <2>4, <2>5, <2>7, <2>9
        <3>2. CASE ~uses_level(accum, len)
            <4>1. next = Stop("overlong")
                BY <3>1, <3>2
            <4>. QED  BY <1>4, <2>6, <3>2, <4>1
        <3>3. CASE uses_level(accum, len) /\ accum \in Illegal
            <4>1. next = Stop("illegal")
                BY <3>1, <3>3
            <4>. QED  BY <1>4, <2>6, <3>3, <4>1
        <3>4. CASE uses_level(accum, len) /\ accum \notin Illegal
            <4>1. rest \in [1..len -> Later] /\ len \in 1..3 /\ sequence_length(c) = len
                BY <1>8, <2>4, <2>9 DEF len
            <4>2. accum \in Scalars /\ Leads(accum, len, c, rest)
                BY <1>2, <2>3, <3>4, <4>1, AccumIs
            <4>3. /\ Len(Canonical(accum)) = len + 1 /\ Canonical(accum)[1] = c
                  /\ \A i \in 1..len : Canonical(accum)[i + 1] = rest[i]
                BY <4>2 DEF Leads
            <4>4. accum \in Legals
                BY <3>4, <4>2 DEF Legals, Legal
            <4>5. ASSUME NEW i \in 1..(len + 1) PROVE s[k + i] = Canonical(accum)[i]
                <5>1. CASE i = 1
                    BY <4>3, <5>1 DEF c
                <5>2. CASE i # 1
                    <6>. DEFINE j == i - 1
                    <6>1. j \in 1..len /\ i = j + 1 /\ k + i = k + 1 + j
                        BY <1>8, <5>2
                    <6>. HIDE DEF j
                    <6>2. rest[j] = s[k + 1 + j] /\ Canonical(accum)[j + 1] = rest[j]
                        BY <2>2, <4>3, <6>1 DEF Following
                    <6>. QED  BY <6>1, <6>2
                <5>. QED  BY <5>1, <5>2
            <4>6. Stands(s, k, accum)
                <5>1. k + (len + 1) <= Len(s)
                    BY <1>8
                <5>. QED  BY <4>3, <4>5, <5>1 DEF Stands
            <4>7. next = Takes(accum)
                BY <3>1, <3>4
            <4>. QED  BY <1>b, <4>3, <4>4, <4>6, <4>7
        <3>. QED  BY <3>2, <3>3, <3>4
    <2>. QED  BY <2>8, <2>9
<1>. QED  BY <1>2, <1>5, <1>6, <1>7, <1>8

\* Two codepoints at one place are one.
LEMMA StandsOnly ==
    ASSUME NEW s \in Seq(Octets), NEW k \in Nat, NEW v \in Scalars, NEW u \in Scalars,
           Stands(s, k, v), Stands(s, k, u)
    PROVE  v = u
<1>. DEFINE c == s[k + 1]
            len == sequence_length(c)
<1>1. /\ len \in 0..3 /\ Len(Canonical(v)) = len + 1 /\ Len(Canonical(u)) = len + 1
      /\ Holds(v, Canonical(v), len) /\ Holds(u, Canonical(u), len)
    BY StandingIs
<1>2. k + (len + 1) <= Len(s)
    BY <1>1 DEF Stands
<1>. HIDE DEF len
<1>3. CASE len = 0
    <2>1. Canonical(v)[1] = v /\ Canonical(u)[1] = u
        BY <1>1, <1>3 DEF Holds
    <2>2. 1 \in 1..Len(Canonical(v)) /\ 1 \in 1..Len(Canonical(u))
        BY <1>1
    <2>3. s[k + 1] = Canonical(v)[1] /\ s[k + 1] = Canonical(u)[1]
        BY <2>2 DEF Stands
    <2>. QED  BY <2>1, <2>3
<1>4. CASE len \in 1..3
    <2>1. k + 1 + len <= Len(s) /\ len \in Nat
        BY <1>2, <1>4
    <2>2. PICK rest : Following(s, k, len, rest)
        BY <2>1, FollowingIs
    <2>3. sequence_length(s[k + 1]) = len
        BY DEF len
    <2>. HIDE DEF c
    <2>4. AccumOf(s[k + 1], len, rest) = v
        BY ONLY <1>4, <2>2, <2>3, s \in Seq(Octets), k \in Nat, v \in Scalars, Stands(s, k, v), StandingAccum
    <2>5. AccumOf(s[k + 1], len, rest) = u
        BY ONLY <1>4, <2>2, <2>3, s \in Seq(Octets), k \in Nat, u \in Scalars, Stands(s, k, u), StandingAccum
    <2>. QED  BY <2>4, <2>5
<1>. QED  BY <1>1, <1>3, <1>4

\* The states of the decoder.
Reader == [how : {"done", "malformed", "overlong", "illegal"}, cursor : Nat \ {0}, out : Seq(Legals)]
Start == [how |-> "done", cursor |-> 1, out |-> <<>>]

LEMMA CanonicalSeq ==
    ASSUME NEW v \in Scalars
    PROVE  Canonical(v) \in Seq(Octets) /\ Len(Canonical(v)) \in Nat \ {0}
<1>1. PICK len \in 0..3 : Holds(v, Canonical(v), len)
    BY CanonicalIs
<1>2. Canonical(v) \in [1..(len + 1) -> Octets] /\ Len(Canonical(v)) = len + 1
    BY <1>1 DEF Holds
<1>3. len + 1 \in Nat
    OBVIOUS
<1>. QED  BY <1>2, <1>3, RowIs

\* A turn after an error or the end changes nothing.
LEMMA TurnStays ==
    ASSUME NEW s \in Seq(Octets), NEW at \in Reader
    PROVE  /\ turn(s, at) \in Reader
           /\ (at.how # "done" \/ at.cursor > Len(s)) => turn(s, at) = at
<1>1. ASSUME at.how # "done" \/ at.cursor > Len(s) PROVE turn(s, at) = at
    BY <1>1 DEF turn
<1>2. CASE at.how = "done" /\ ~(at.cursor > Len(s))
    <2>. DEFINE k == at.cursor - 1
                out == at.out
                next == turn(s, at)
    <2>1. at.cursor \in Nat \ {0} /\ out \in Seq(Legals) /\ Len(s) \in Nat
        BY DEF Reader
    <2>2. k \in Nat /\ k < Len(s) /\ at.cursor = k + 1
        BY <1>2, <2>1
    <2>3. at = [how |-> "done", cursor |-> k + 1, out |-> out]
        BY <1>2, <2>2 DEF Reader
    <2>. HIDE DEF k, out
    <2>4. Turned(s, k, out, next)
        BY <2>2, <2>3, TurnIs
    <2>. HIDE DEF next
    <2>5. CASE \E v \in Legals :
                   /\ Stands(s, k, v)
                   /\ next = [how |-> "done", cursor |-> k + Len(Canonical(v)) + 1, out |-> Append(out, v)]
        <3>1. PICK v \in Legals : next = [how |-> "done", cursor |-> k + Len(Canonical(v)) + 1, out |-> Append(out, v)]
            BY <2>5
        <3>2. v \in Scalars
            BY DEF Legals
        <3>3. Len(Canonical(v)) \in Nat
            BY <3>2, CanonicalSeq
        <3>4. k + Len(Canonical(v)) + 1 \in Nat \ {0}
            BY <2>2, <3>3
        <3>5. Append(out, v) \in Seq(Legals)
            BY <2>1
        <3>. HIDE DEF Reader
        <3>6. next \in Reader
            BY ONLY <3>1, <3>4, <3>5 DEF Reader
        <3>. QED  BY <1>2, <3>6 DEF next
    <2>6. CASE \E h \in {"malformed", "overlong", "illegal"} : next = [how |-> h, cursor |-> k + 1, out |-> out]
        <3>1. k + 1 \in Nat \ {0}
            BY <2>2
        <3>2. next \in Reader
            BY ONLY <2>1, <2>6, <3>1 DEF Reader
        <3>. QED  BY <1>2, <3>2 DEF next
    <2>. QED  BY <2>4, <2>5, <2>6 DEF Turned
<1>. QED  BY <1>1, <1>2

\* The turns of the decoder.
Ran(t, s) ==
    /\ t \in [0..Len(s) -> Reader] /\ t[0] = Start
    /\ \A i \in 1..Len(s) : t[i] = turn(s, t[i - 1])
    /\ decode_utf8(s) = t[Len(s)]

LEMMA RunIs ==
    ASSUME NEW s \in Seq(Octets)
    PROVE  \E t : Ran(t, s)
<1>. DEFINE n == Len(s)
            step == [i \in 1..n |-> [x \in Reader |-> turn(s, x)]]
            Def(f) == [i \in 0..Len(s) |-> IF i = 0 THEN [how |-> "done", cursor |-> 1, out |-> <<>>] ELSE turn(s, f[i - 1])]
            S == CHOOSE f : f = Def(f)
<1>0. n \in Nat
    OBVIOUS
<1>a. Start \in Reader
    BY DEF Start, Reader
<1>1. step \in [1..n -> [Reader -> Reader]]
    <2>1. \A x \in Reader : turn(s, x) \in Reader
        BY TurnStays
    <2>. QED  BY <2>1
<1>2. PICK t : Table(t, Reader, n, Start, step)
    <2>. HIDE DEF step, n
    <2>. QED  BY <1>0, <1>a, <1>1, TableExists
<1>3. /\ t \in [0..n -> Reader] /\ t[0] = Start
      /\ \A i \in 1..n : t[i] = turn(s, t[i - 1])
    <2>1. /\ t \in [0..n -> Reader] /\ t[0] = Start
          /\ \A i \in 1..n : t[i] = step[i][t[i - 1]]
        BY <1>2 DEF Table
    <2>2. \A i \in 1..n : t[i - 1] \in Reader
        BY <2>1
    <2>. QED  BY <2>1, <2>2
<1>4. t = Def(t)
    BY <1>3 DEF Start
<1>5. S = Def(S)
    <2>. HIDE DEF Def
    <2>. QED  BY <1>4
<1>6. decode_utf8(s) = S[n]
    BY DEF decode_utf8
<1>7. \A i \in 0..n : S[i] = IF i = 0 THEN Start ELSE turn(s, S[i - 1])
    <2>. HIDE DEF S
    <2>. QED  BY <1>5 DEF Start
<1>. HIDE DEF S, step, Def, n
<1>. DEFINE G == {i \in Nat : i <= n => S[i] = t[i]}
<1>8. 0 \in G
    BY <1>0, <1>7, <1>3
<1>9. ASSUME NEW i \in Nat, i \in G PROVE i + 1 \in G
    <2>. SUFFICES ASSUME i + 1 <= n PROVE S[i + 1] = t[i + 1]
        OBVIOUS
    <2>1. i + 1 \in 0..n /\ i + 1 \in 1..n /\ i + 1 # 0 /\ (i + 1) - 1 = i /\ i <= n
        BY <1>0
    <2>2. S[i + 1] = turn(s, S[i]) /\ t[i + 1] = turn(s, t[i])
        BY ONLY <1>7, <1>3, <2>1
    <2>. QED  BY <1>9, <2>1, <2>2
<1>10. Nat \subseteq G
    <2>. HIDE DEF G
    <2>. QED  BY <1>8, <1>9, Induction
<1>11. S[n] = t[n]
    BY <1>0, <1>10
<1>. QED  BY <1>3, <1>6, <1>11 DEF Ran, n

\* The texts of the first codepoints.
Written(t, out) ==
    /\ t \in [0..Len(out) -> Seq(Octets)] /\ t[0] = <<>>
    /\ \A i \in 1..Len(out) : t[i] = t[i - 1] \o Canonical(out[i])
    /\ Encoded(out) = t[Len(out)]

LEMMA WrittenIs ==
    ASSUME NEW out \in Seq(Scalars)
    PROVE  \E t : Written(t, out)
<1>. DEFINE n == Len(out)
            T == Seq(Octets)
            step == [i \in 1..n |-> [x \in T |-> x \o Canonical(out[i])]]
            Def(f) == [i \in 0..Len(out) |-> IF i = 0 THEN <<>> ELSE f[i - 1] \o Canonical(out[i])]
            S == CHOOSE f : f = Def(f)
<1>0. n \in Nat /\ \A i \in 1..n : out[i] \in Scalars
    OBVIOUS
<1>a. <<>> \in T
    OBVIOUS
<1>1. step \in [1..n -> [T -> T]]
    <2>1. ASSUME NEW i \in 1..n, NEW x \in T PROVE x \o Canonical(out[i]) \in T
        <3>1. Canonical(out[i]) \in Seq(Octets)
            BY <1>0, CanonicalSeq
        <3>. QED  BY <3>1
    <2>. HIDE DEF T
    <2>. QED  BY <2>1
<1>2. PICK t : Table(t, T, n, <<>>, step)
    <2>. HIDE DEF step, n, T
    <2>. QED  BY <1>0, <1>a, <1>1, TableExists
<1>3. /\ t \in [0..n -> T] /\ t[0] = <<>>
      /\ \A i \in 1..n : t[i] = t[i - 1] \o Canonical(out[i])
    <2>1. /\ t \in [0..n -> T] /\ t[0] = <<>>
          /\ \A i \in 1..n : t[i] = step[i][t[i - 1]]
        BY <1>2 DEF Table
    <2>2. \A i \in 1..n : t[i - 1] \in T
        BY <2>1
    <2>. HIDE DEF T
    <2>. QED  BY <2>1, <2>2
<1>. HIDE DEF T
<1>4. t = Def(t)
    BY <1>3
<1>5. S = Def(S)
    <2>. HIDE DEF Def
    <2>. QED  BY <1>4
<1>6. Encoded(out) = S[n]
    BY DEF Encoded
<1>7. \A i \in 0..n : S[i] = IF i = 0 THEN <<>> ELSE S[i - 1] \o Canonical(out[i])
    <2>. HIDE DEF S
    <2>. QED  BY <1>5
<1>. HIDE DEF S, step, Def, n
<1>. DEFINE G == {i \in Nat : i <= n => S[i] = t[i]}
<1>8. 0 \in G
    BY <1>0, <1>7, <1>3
<1>9. ASSUME NEW i \in Nat, i \in G PROVE i + 1 \in G
    <2>. SUFFICES ASSUME i + 1 <= n PROVE S[i + 1] = t[i + 1]
        OBVIOUS
    <2>1. i + 1 \in 0..n /\ i + 1 \in 1..n /\ i + 1 # 0 /\ (i + 1) - 1 = i /\ i <= n
        BY <1>0
    <2>2. S[i + 1] = S[i] \o Canonical(out[i + 1]) /\ t[i + 1] = t[i] \o Canonical(out[i + 1])
        BY ONLY <1>7, <1>3, <2>1
    <2>. QED  BY <1>9, <2>1, <2>2
<1>10. Nat \subseteq G
    <2>. HIDE DEF G
    <2>. QED  BY <1>8, <1>9, Induction
<1>11. S[n] = t[n]
    BY <1>0, <1>10
<1>. QED  BY <1>3, <1>6, <1>11 DEF Written, n, T

LEMMA JoinIs ==
    ASSUME NEW T, NEW a \in Seq(T), NEW b \in Seq(T)
    PROVE  /\ a \o b \in Seq(T) /\ Len(a \o b) = Len(a) + Len(b)
           /\ \A i \in 1..Len(a) : (a \o b)[i] = a[i]
           /\ \A i \in 1..Len(b) : (a \o b)[Len(a) + i] = b[i]
<1>1. Len(a) \in Nat /\ Len(b) \in Nat
    OBVIOUS
<1>2. /\ a \o b \in Seq(T) /\ Len(a \o b) = Len(a) + Len(b)
      /\ \A i \in 1..(Len(a) + Len(b)) : (a \o b)[i] = IF i <= Len(a) THEN a[i] ELSE b[i - Len(a)]
    BY ConcatProperties
<1>3. ASSUME NEW i \in 1..Len(a) PROVE (a \o b)[i] = a[i]
    <2>1. i \in 1..(Len(a) + Len(b)) /\ i <= Len(a)
        BY <1>1
    <2>. QED  BY <1>2, <2>1
<1>4. ASSUME NEW i \in 1..Len(b) PROVE (a \o b)[Len(a) + i] = b[i]
    <2>. DEFINE j == Len(a) + i
    <2>1. j \in 1..(Len(a) + Len(b)) /\ ~(j <= Len(a)) /\ j - Len(a) = i
        BY <1>1
    <2>. HIDE DEF j
    <2>2. (a \o b)[j] = b[j - Len(a)]
        BY <1>2, <2>1
    <2>. QED  BY <2>1, <2>2 DEF j
<1>. QED  BY <1>2, <1>3, <1>4

LEMMA LegalsAre == Legals \subseteq Scalars /\ Seq(Legals) \subseteq Seq(Scalars)
<1>1. Legals \subseteq Scalars
    BY DEF Legals
<1>2. ASSUME NEW x \in Seq(Legals) PROVE x \in Seq(Scalars)
    <2>. DEFINE n == Len(x)
    <2>1. n \in Nat /\ x \in [1..n -> Legals]
        BY SeqIs
    <2>. HIDE DEF n, Legals, Scalars
    <2>2. x \in [1..n -> Scalars]
        BY <1>1, <2>1
    <2>. QED  BY <2>1, <2>2, RowIs
<1>. QED  BY <1>1, <1>2

LEMMA EncodedNone == Encoded(<<>>) = <<>>
<1>1. <<>> \in Seq(Scalars) /\ Len(<<>>) = 0
    OBVIOUS
<1>2. PICK t : Written(t, <<>>)
    BY <1>1, WrittenIs
<1>. QED  BY <1>1, <1>2 DEF Written

\* Encoded, one codepoint at a time.
LEMMA EncodedMore ==
    ASSUME NEW out \in Seq(Scalars), NEW v \in Scalars
    PROVE  Encoded(out) \in Seq(Octets) /\ Encoded(Append(out, v)) = Encoded(out) \o Canonical(v)
<1>. DEFINE more == Append(out, v)
            n == Len(out)
<1>1. more \in Seq(Scalars) /\ n \in Nat /\ Len(more) = n + 1 /\ more[n + 1] = v /\ \A i \in 1..n : more[i] = out[i]
    OBVIOUS
<1>. HIDE DEF more
<1>2. PICK t : Written(t, out)
    BY WrittenIs
<1>3. PICK u : Written(u, more)
    BY <1>1, WrittenIs
<1>. HIDE DEF n
<1>4. /\ t \in [0..n -> Seq(Octets)] /\ t[0] = <<>>
      /\ \A i \in 1..n : t[i] = t[i - 1] \o Canonical(out[i])
      /\ Encoded(out) = t[n]
    BY <1>2 DEF Written, n
<1>5. /\ u[0] = <<>>
      /\ \A i \in 1..(n + 1) : u[i] = u[i - 1] \o Canonical(more[i])
      /\ Encoded(more) = u[n + 1]
    BY <1>1, <1>3 DEF Written
<1>. DEFINE G == {i \in Nat : i <= n => u[i] = t[i]}
<1>6. 0 \in G
    BY <1>4, <1>5
<1>7. ASSUME NEW i \in Nat, i \in G PROVE i + 1 \in G
    <2>. SUFFICES ASSUME i + 1 <= n PROVE u[i + 1] = t[i + 1]
        OBVIOUS
    <2>1. i + 1 \in 1..n /\ i + 1 \in 1..(n + 1) /\ (i + 1) - 1 = i /\ i <= n
        BY <1>1
    <2>2. u[i + 1] = u[i] \o Canonical(more[i + 1]) /\ t[i + 1] = t[i] \o Canonical(out[i + 1]) /\ more[i + 1] = out[i + 1]
        BY ONLY <1>1, <1>4, <1>5, <2>1
    <2>. QED  BY <1>7, <2>1, <2>2
<1>8. Nat \subseteq G
    <2>. HIDE DEF G
    <2>. QED  BY <1>6, <1>7, Induction
<1>9. u[n] = t[n] /\ t[n] \in Seq(Octets)
    BY <1>1, <1>4, <1>8
<1>10. u[n + 1] = u[n] \o Canonical(v)
    <2>1. n + 1 \in 1..(n + 1) /\ (n + 1) - 1 = n
        BY <1>1
    <2>. QED  BY <1>1, <1>5, <2>1
<1>. QED  BY <1>4, <1>5, <1>9, <1>10 DEF more

\* What was read stands in front of the cursor, and an error means that there is
\* nothing to read behind it.
Reads(s, at) ==
    /\ Len(Encoded(at.out)) = at.cursor - 1 /\ at.cursor - 1 <= Len(s)
    /\ \A i \in 1..(at.cursor - 1) : Encoded(at.out)[i] = s[i]
    /\ at.how # "done" => at.cursor <= Len(s)

LEMMA StartReads == ASSUME NEW s \in Seq(Octets) PROVE Reads(s, Start)
<1>1. Start.how = "done" /\ Start.cursor = 1 /\ Start.out = <<>>
    BY DEF Start
<1>2. Len(Encoded(Start.out)) = 0 /\ Len(s) \in Nat
    BY <1>1, EncodedNone
<1>. HIDE DEF Start
<1>. QED  BY <1>1, <1>2 DEF Reads

\* A turn keeps what was read in front of the cursor, and moves it unless it stops.
LEMMA ReadsOn ==
    ASSUME NEW s \in Seq(Octets), NEW at \in Reader, Reads(s, at)
    PROVE  /\ Reads(s, turn(s, at))
           /\ (turn(s, at).how = "done" /\ at.cursor <= Len(s)) => turn(s, at).cursor > at.cursor
           /\ turn(s, at).how = "done" => at.how = "done"
<1>. DEFINE next == turn(s, at)
            k == at.cursor - 1
            out == at.out
<1>1. at.cursor \in Nat \ {0} /\ out \in Seq(Legals) /\ Len(s) \in Nat
    BY DEF Reader
<1>2. CASE at.how # "done" \/ at.cursor > Len(s)
    <2>1. next = at
        BY <1>2, TurnStays
    <2>2. at.how # "done" => at.cursor <= Len(s)
        BY DEF Reads
    <2>. HIDE DEF next
    <2>3. ~(next.how = "done" /\ at.cursor <= Len(s))
        BY <1>1, <1>2, <2>1
    <2>. QED  BY <2>1, <2>3 DEF next
<1>3. CASE at.how = "done" /\ ~(at.cursor > Len(s))
    <2>2. k \in Nat /\ k < Len(s) /\ at.cursor = k + 1
        BY <1>1, <1>3
    <2>3. at = [how |-> "done", cursor |-> k + 1, out |-> out]
        BY <1>3, <2>2 DEF Reader
    <2>4. Len(Encoded(out)) = k /\ \A i \in 1..k : Encoded(out)[i] = s[i]
        BY DEF Reads
    <2>5. out \in Seq(Scalars)
        BY <1>1, LegalsAre
    <2>. HIDE DEF k, out
    <2>6. Turned(s, k, out, next)
        BY <2>2, <2>3, TurnIs
    <2>. HIDE DEF next
    <2>7. CASE \E v \in Legals :
                   /\ Stands(s, k, v)
                   /\ next = [how |-> "done", cursor |-> k + Len(Canonical(v)) + 1, out |-> Append(out, v)]
        <3>1. PICK v \in Legals :
                  /\ Stands(s, k, v)
                  /\ next = [how |-> "done", cursor |-> k + Len(Canonical(v)) + 1, out |-> Append(out, v)]
            BY <2>7
        <3>. DEFINE w == Canonical(v)
                    m == Len(w)
                    e == Encoded(out)
        <3>2. v \in Scalars
            BY LegalsAre
        <3>3. w \in Seq(Octets) /\ m \in Nat \ {0}
            BY <3>2, CanonicalSeq
        <3>4. e \in Seq(Octets) /\ Encoded(Append(out, v)) = e \o w
            BY <2>5, <3>2, EncodedMore
        <3>5. k + m <= Len(s) /\ \A i \in 1..m : s[k + i] = w[i]
            BY <3>1 DEF Stands
        <3>. HIDE DEF w, e
        <3>6. /\ Len(e \o w) = k + m
              /\ \A i \in 1..k : (e \o w)[i] = e[i]
              /\ \A i \in 1..m : (e \o w)[k + i] = w[i]
            <4>1. Len(e) = k
                BY <2>4 DEF e
            <4>2. /\ Len(e \o w) = Len(e) + Len(w)
                  /\ \A i \in 1..Len(e) : (e \o w)[i] = e[i]
                  /\ \A i \in 1..Len(w) : (e \o w)[Len(e) + i] = w[i]
                BY ONLY <3>3, <3>4, JoinIs
            <4>. QED  BY <4>1, <4>2
        <3>. HIDE DEF m
        <3>7. ASSUME NEW i \in 1..(k + m) PROVE (e \o w)[i] = s[i]
            <4>1. CASE i <= k
                BY <2>4, <3>6, <4>1 DEF e
            <4>2. CASE i > k
                <5>. DEFINE j == i - k
                <5>1. j \in 1..m /\ i = k + j
                    BY <2>2, <3>3, <4>2
                <5>. HIDE DEF j
                <5>. QED  BY <3>5, <3>6, <5>1
            <4>3. i <= k \/ i > k
                BY ONLY <2>2, <3>3, i \in 1..(k + m)
            <4>. QED  BY <4>1, <4>2, <4>3
        <3>8. next.how = "done" /\ next.cursor = k + m + 1 /\ next.out = Append(out, v)
            BY <3>1 DEF m, w
        <3>9. next.cursor - 1 = k + m /\ next.cursor > at.cursor
            BY <2>2, <3>3, <3>8
        <3>10. Reads(s, next)
            BY <3>4, <3>5, <3>6, <3>7, <3>8, <3>9 DEF Reads
        <3>. QED  BY <1>3, <3>9, <3>10 DEF next
    <2>8. CASE \E h \in {"malformed", "overlong", "illegal"} : next = [how |-> h, cursor |-> k + 1, out |-> out]
        <3>1. next.how # "done" /\ next.cursor = k + 1 /\ next.out = out
            BY <2>8
        <3>2. next.cursor - 1 = k /\ next.cursor <= Len(s)
            BY <1>1, <2>2, <3>1
        <3>3. Reads(s, next)
            BY <1>1, <2>2, <2>4, <3>1, <3>2 DEF Reads
        <3>. QED  BY <3>1, <3>3 DEF next
    <2>. QED  BY <2>6, <2>7, <2>8 DEF Turned
<1>. QED  BY <1>2, <1>3

\* Soundness: what the decoder took stands in the text, and is all of it if there
\* was no error.
LEMMA DecodedIs ==
    ASSUME NEW s \in Seq(Octets)
    PROVE  /\ decode_utf8(s) \in Reader
           /\ decode_utf8(s).how = "done" => Encoded(decode_utf8(s).out) = s
           /\ decode_utf8(s).how # "done" =>
                 /\ Len(Encoded(decode_utf8(s).out)) < Len(s)
                 /\ Encoded(decode_utf8(s).out) = SubSeq(s, 1, Len(Encoded(decode_utf8(s).out)))
<1>. DEFINE n == Len(s)
<1>1. PICK t : Ran(t, s)
    BY RunIs
<1>2. n \in Nat
    OBVIOUS
<1>. HIDE DEF n
<1>3. /\ t \in [0..n -> Reader] /\ t[0] = Start
      /\ \A i \in 1..n : t[i] = turn(s, t[i - 1])
      /\ decode_utf8(s) = t[n]
    BY <1>1 DEF Ran, n
<1>. DEFINE Good(i) == Reads(s, t[i]) /\ (t[i].how = "done" => (t[i].cursor > i \/ t[i].cursor > n))
            G == {i \in Nat : i <= n => Good(i)}
<1>4. 0 \in G
    <2>1. Reads(s, t[0]) /\ t[0].cursor > 0
        BY <1>3, StartReads DEF Start
    <2>. QED  BY <2>1
<1>5. ASSUME NEW i \in Nat, i \in G PROVE i + 1 \in G
    <2>. SUFFICES ASSUME i + 1 <= n PROVE Good(i + 1)
        OBVIOUS
    <2>1. i + 1 \in 1..n /\ (i + 1) - 1 = i /\ i <= n /\ i \in 0..n /\ i + 1 \in 0..n
        BY <1>2
    <2>. DEFINE at == t[i]
                next == t[i + 1]
    <2>2. next = turn(s, at) /\ at \in Reader /\ next \in Reader
        BY <1>3, <2>1
    <2>3. Reads(s, at) /\ (at.how = "done" => (at.cursor > i \/ at.cursor > n))
        BY <1>5, <2>1
    <2>. HIDE DEF at, next
    <2>4. Reads(s, next) /\ ((next.how = "done" /\ at.cursor <= n) => next.cursor > at.cursor) /\ (next.how = "done" => at.how = "done")
        BY <2>2, <2>3, ReadsOn DEF n
    <2>5. at.cursor \in Nat /\ next.cursor \in Nat
        BY <2>2 DEF Reader
    <2>6. CASE at.cursor <= n
        BY <1>2, <2>3, <2>4, <2>5, <2>6 DEF next
    <2>7. CASE at.cursor > n
        <3>1. next = at
            BY <2>2, <2>7, TurnStays DEF n
        <3>. QED  BY <2>4, <2>7, <3>1 DEF next
    <2>. QED  BY <1>2, <2>5, <2>6, <2>7
<1>6. Nat \subseteq G
    <2>. HIDE DEF G
    <2>. QED  BY <1>4, <1>5, Induction
<1>. DEFINE r == decode_utf8(s)
            e == Encoded(r.out)
<1>7. Reads(s, r) /\ (r.how = "done" => r.cursor > n) /\ r \in Reader
    BY <1>2, <1>3, <1>6
<1>. HIDE DEF r
<1>8. r.out \in Seq(Legals) /\ r.cursor \in Nat \ {0}
    BY <1>7 DEF Reader
<1>9. e \in Seq(Octets)
    <2>1. 0 \in Scalars /\ r.out \in Seq(Scalars)
        BY <1>8, LegalsAre DEF Scalars
    <2>. QED  BY <2>1, EncodedMore
<1>10. Len(e) = r.cursor - 1 /\ r.cursor - 1 <= n /\ (\A i \in 1..Len(e) : e[i] = s[i]) /\ (r.how # "done" => r.cursor <= n)
    BY <1>7 DEF Reads, n
<1>. HIDE DEF e
<1>11. ASSUME r.how = "done" PROVE e = s
    <2>1. Len(e) = Len(s)
        BY <1>2, <1>7, <1>8, <1>10, <1>11 DEF n
    <2>. QED  BY <1>9, <1>10, <2>1, SeqEqual
<1>12. ASSUME r.how # "done" PROVE Len(e) < n /\ e = SubSeq(s, 1, Len(e))
    <2>. DEFINE k == Len(e)
    <2>1. k \in Nat /\ k < n
        BY <1>2, <1>8, <1>9, <1>10, <1>12
    <2>. HIDE DEF k
    <2>2. SubSeq(s, 1, k) \in Seq(Octets) /\ Len(SubSeq(s, 1, k)) = k /\ \A i \in 1..k : SubSeq(s, 1, k)[i] = s[i]
        BY <2>1 DEF n
    <2>3. SubSeq(s, 1, k) = e
        BY <1>9, <1>10, <2>2, SeqEqual DEF k
    <2>. QED  BY <2>1, <2>3 DEF k
<1>. QED  BY <1>7, <1>11, <1>12 DEF r, e, n

\* The text of the first codepoints stands in front.
Prefix(p, s) == Len(p) <= Len(s) /\ \A i \in 1..Len(p) : p[i] = s[i]

LEMMA PrefixTurn ==
    ASSUME NEW T, NEW a \in Seq(T), NEW b \in Seq(T), NEW s \in Seq(T), Prefix(a \o b, s)
    PROVE  Prefix(a, s) /\ Len(a) + Len(b) <= Len(s) /\ \A i \in 1..Len(b) : s[Len(a) + i] = b[i]
<1>1. /\ Len(a \o b) = Len(a) + Len(b)
      /\ \A i \in 1..Len(a) : (a \o b)[i] = a[i]
      /\ \A i \in 1..Len(b) : (a \o b)[Len(a) + i] = b[i]
    BY JoinIs
<1>2. Len(a) \in Nat /\ Len(b) \in Nat /\ Len(s) \in Nat
    OBVIOUS
<1>3. Len(a) + Len(b) <= Len(s) /\ \A i \in 1..(Len(a) + Len(b)) : (a \o b)[i] = s[i]
    BY <1>1 DEF Prefix
<1>4. ASSUME NEW i \in 1..Len(a) PROVE a[i] = s[i]
    <2>1. i \in 1..(Len(a) + Len(b))
        BY <1>2
    <2>. QED  BY <1>1, <1>3, <2>1
<1>5. ASSUME NEW i \in 1..Len(b) PROVE s[Len(a) + i] = b[i]
    <2>1. Len(a) + i \in 1..(Len(a) + Len(b))
        BY <1>2
    <2>. QED  BY <1>1, <1>3, <2>1
<1>6. Len(a) <= Len(s)
    BY <1>2, <1>3
<1>. QED  BY <1>3, <1>4, <1>5, <1>6 DEF Prefix

LEMMA PrefixesAre ==
    ASSUME NEW out \in Seq(Scalars), NEW t, Written(t, out), NEW i \in 0..Len(out)
    PROVE  Prefix(t[i], Encoded(out))
<1>. DEFINE m == Len(out)
            s == Encoded(out)
<1>1. m \in Nat /\ i \in 0..m
    OBVIOUS
<1>2. \A j \in 1..m : Canonical(out[j]) \in Seq(Octets)
    <2>1. \A j \in 1..m : out[j] \in Scalars
        OBVIOUS
    <2>. QED  BY <2>1, CanonicalSeq
<1>3. t \in [0..m -> Seq(Octets)] /\ s = t[m] /\ \A j \in 1..m : t[j] = t[j - 1] \o Canonical(out[j])
    BY DEF Written
<1>. HIDE DEF s, m
<1>. DEFINE G == {j \in Nat : j <= m => Prefix(t[m - j], s)}
<1>4. 0 \in G
    <2>1. m - 0 = m
        BY <1>1
    <2>. QED  BY <1>3, <2>1 DEF Prefix
<1>5. ASSUME NEW j \in Nat, j \in G PROVE j + 1 \in G
    <2>. SUFFICES ASSUME j + 1 <= m PROVE Prefix(t[m - (j + 1)], s)
        OBVIOUS
    <2>. DEFINE k == m - j
    <2>1. k \in 1..m /\ k - 1 = m - (j + 1) /\ j <= m /\ k - 1 \in 0..m /\ m \in 0..m
        BY <1>1
    <2>2. Prefix(t[k], s)
        BY <1>5, <2>1
    <2>. HIDE DEF k
    <2>3. t[k] = t[k - 1] \o Canonical(out[k]) /\ t[k - 1] \in Seq(Octets) /\ Canonical(out[k]) \in Seq(Octets) /\ s \in Seq(Octets)
        BY <1>2, <1>3, <2>1
    <2>4. Prefix(t[k - 1], s)
        BY <2>2, <2>3, PrefixTurn
    <2>. QED  BY <2>1, <2>4
<1>6. Nat \subseteq G
    <2>. HIDE DEF G
    <2>. QED  BY <1>4, <1>5, Induction
<1>7. m - i \in Nat /\ m - i <= m /\ m - (m - i) = i
    BY <1>1
<1>. QED  BY <1>6, <1>7 DEF s

\* The decoder behind the first codepoints of a text.
Behind(out, t, i) == [how |-> "done", cursor |-> Len(t[i]) + 1, out |-> SubSeq(out, 1, i)]

\* A turn over what is encoded takes the next codepoint.
LEMMA BehindTurn ==
    ASSUME NEW out \in Seq(Legals), NEW t, Written(t, out), NEW i \in Nat, i < Len(out)
    PROVE  /\ Len(t[i]) < Len(Encoded(out)) /\ Len(t[i]) < Len(t[i + 1])
           /\ turn(Encoded(out), Behind(out, t, i)) = Behind(out, t, i + 1)
<1>. DEFINE m == Len(out)
            s == Encoded(out)
            v == out[i + 1]
            w == Canonical(v)
            k == Len(t[i])
            front == SubSeq(out, 1, i)
<1>1. m \in Nat /\ i \in 0..m /\ i + 1 \in 0..m /\ i + 1 \in 1..m /\ (i + 1) - 1 = i
    OBVIOUS
<1>2. v \in Legals /\ v \in Scalars /\ out \in Seq(Scalars)
    BY <1>1, LegalsAre
<1>3. w \in Seq(Octets) /\ Len(w) \in Nat \ {0}
    BY <1>2, CanonicalSeq
<1>4. t \in [0..m -> Seq(Octets)] /\ s = t[m] /\ t[i + 1] = t[i] \o w
    BY <1>1 DEF Written
<1>5. Prefix(t[i + 1], s)
    BY <1>1, <1>2, PrefixesAre
<1>6. Append(front, v) = SubSeq(out, 1, i + 1)
    BY <1>1
<1>. HIDE DEF s, w, m, front
<1>7. t[i] \in Seq(Octets) /\ s \in Seq(Octets)
    BY <1>1, <1>4
<1>8. k + Len(w) <= Len(s) /\ \A j \in 1..Len(w) : s[k + j] = w[j]
    <2>1. Prefix(t[i] \o w, s)
        BY <1>4, <1>5
    <2>2. Len(t[i]) + Len(w) <= Len(s) /\ \A j \in 1..Len(w) : s[Len(t[i]) + j] = w[j]
        BY ONLY ZenonT(60), <1>3, <1>7, <2>1, PrefixTurn
    <2>. QED  BY <2>2
<1>9. k \in Nat /\ Len(s) \in Nat /\ Len(t[i + 1]) = k + Len(w)
    BY <1>3, <1>4, <1>7, JoinIs
<1>. HIDE DEF v
<1>10. Stands(s, k, v)
    BY <1>8 DEF Stands, w
<1>. HIDE DEF k
<1>11. k < Len(s) /\ k < Len(t[i + 1])
    BY <1>3, <1>8, <1>9
<1>. DEFINE next == turn(s, [how |-> "done", cursor |-> k + 1, out |-> front])
<1>12. Turned(s, k, front, next)
    BY <1>7, <1>9, <1>11, TurnIs
<1>. HIDE DEF next
<1>13. \E u \in Legals :
           /\ Stands(s, k, u)
           /\ next = [how |-> "done", cursor |-> k + Len(Canonical(u)) + 1, out |-> Append(front, u)]
    BY <1>2, <1>10, <1>12 DEF Turned
<1>14. PICK u \in Legals :
           /\ Stands(s, k, u)
           /\ next = [how |-> "done", cursor |-> k + Len(Canonical(u)) + 1, out |-> Append(front, u)]
    BY <1>13
<1>15. u = v
    <2>1. u \in Scalars
        BY LegalsAre
    <2>. QED  BY <1>2, <1>7, <1>9, <1>10, <1>14, <2>1, StandsOnly
<1>16. next = [how |-> "done", cursor |-> Len(t[i + 1]) + 1, out |-> SubSeq(out, 1, i + 1)]
    <2>1. Append(front, v) = SubSeq(out, 1, i + 1)
        BY <1>6 DEF v
    <2>. QED  BY <1>9, <1>14, <1>15, <2>1 DEF w
<1>17. next = turn(s, Behind(out, t, i))
    BY DEF next, Behind, k, front
<1>. QED  BY <1>11, <1>16, <1>17 DEF s, k, Behind

\* What is encoded is decoded.
LEMMA DecodedAll ==
    ASSUME NEW out \in Seq(Legals)
    PROVE  /\ decode_utf8(Encoded(out)).how = "done" /\ decode_utf8(Encoded(out)).out = out
           /\ Encoded(out) \in Seq(Octets)
<1>. DEFINE s == Encoded(out)
            n == Len(s)
            m == Len(out)
<1>1. out \in Seq(Scalars) /\ m \in Nat
    BY LegalsAre
<1>2. PICK t : Written(t, out)
    BY <1>1, WrittenIs
<1>3. t \in [0..m -> Seq(Octets)] /\ s = t[m] /\ t[0] = <<>>
    BY <1>2 DEF Written
<1>4. s \in Seq(Octets) /\ n \in Nat
    <2>1. m \in 0..m
        BY <1>1
    <2>2. s \in Seq(Octets)
        BY <1>3, <2>1
    <2>. HIDE DEF s
    <2>. QED  BY <2>2
<1>5. PICK a : Ran(a, s)
    BY <1>4, RunIs
<1>. HIDE DEF s
<1>6. a[0] = Start /\ (\A i \in 1..n : a[i] = turn(s, a[i - 1])) /\ decode_utf8(s) = a[n] /\ a \in [0..n -> Reader]
    BY <1>5 DEF Ran
<1>. HIDE DEF n, m
<1>7. ASSUME NEW i \in Nat, i < m
      PROVE  /\ Len(t[i]) < n /\ Len(t[i]) < Len(t[i + 1])
             /\ turn(s, Behind(out, t, i)) = Behind(out, t, i + 1)
    BY <1>2, <1>7, BehindTurn DEF s, n, m
<1>8. \A i \in 0..m : Len(t[i]) \in Nat
    BY <1>3
<1>. DEFINE L == {i \in Nat : i <= m => Len(t[i]) >= i}
<1>9. Nat \subseteq L
    <2>1. 0 \in L
        BY <1>3
    <2>2. ASSUME NEW i \in Nat, i \in L PROVE i + 1 \in L
        <3>. SUFFICES ASSUME i + 1 <= m PROVE Len(t[i + 1]) >= i + 1
            OBVIOUS
        <3>1. i < m /\ i \in 0..m /\ i + 1 \in 0..m /\ i <= m
            BY <1>1
        <3>2. Len(t[i]) \in Nat /\ Len(t[i + 1]) \in Nat /\ Len(t[i]) < Len(t[i + 1]) /\ Len(t[i]) >= i
            BY <1>7, <1>8, <2>2, <3>1
        <3>. QED  BY <3>2
    <2>. HIDE DEF L
    <2>. QED  BY <2>1, <2>2, Induction
<1>10. m <= n
    <2>1. Len(t[m]) >= m
        BY <1>1, <1>9
    <2>. QED  BY <1>3, <2>1 DEF n, s
<1>. HIDE DEF L
<1>. DEFINE G == {i \in Nat : i <= m => a[i] = Behind(out, t, i)}
<1>11. Nat \subseteq G
    <2>1. 0 \in G
        <3>1. SubSeq(out, 1, 0) = <<>> /\ Len(t[0]) + 1 = 1
            BY <1>3
        <3>. QED  BY <1>6, <3>1 DEF Behind, Start
    <2>2. ASSUME NEW i \in Nat, i \in G PROVE i + 1 \in G
        <3>. SUFFICES ASSUME i + 1 <= m PROVE a[i + 1] = Behind(out, t, i + 1)
            OBVIOUS
        <3>1. i < m /\ i <= m /\ i + 1 \in 1..n /\ (i + 1) - 1 = i
            BY <1>1, <1>4, <1>10
        <3>2. a[i + 1] = turn(s, a[i]) /\ a[i] = Behind(out, t, i)
            BY <1>6, <2>2, <3>1
        <3>3. turn(s, Behind(out, t, i)) = Behind(out, t, i + 1)
            BY <1>7, <3>1
        <3>. QED  BY <3>2, <3>3
    <2>. HIDE DEF G
    <2>. QED  BY <2>1, <2>2, Induction
<1>. DEFINE last == Behind(out, t, m)
<1>12. a[m] = last
    BY <1>1, <1>11
<1>. HIDE DEF G
<1>13. last.how = "done" /\ last.cursor = n + 1 /\ last.out = out
    <2>1. SubSeq(out, 1, m) = out
        BY DEF m
    <2>2. Len(t[m]) = n
        BY <1>3 DEF n, s
    <2>. QED  BY <2>1, <2>2 DEF Behind
<1>. HIDE DEF last
<1>14. last \in Reader /\ turn(s, last) = last
    <2>1. m \in 0..n
        BY <1>1, <1>4, <1>10
    <2>2. last \in Reader
        BY <1>6, <1>12, <2>1
    <2>3. last.cursor > Len(s)
        BY <1>4, <1>13 DEF n
    <2>. QED  BY <1>4, <2>2, <2>3, TurnStays
<1>. DEFINE H == {j \in Nat : m + j <= n => a[m + j] = last}
<1>15. Nat \subseteq H
    <2>1. 0 \in H
        <3>1. m + 0 = m
            BY <1>1
        <3>. QED  BY <1>12, <3>1
    <2>2. ASSUME NEW j \in Nat, j \in H PROVE j + 1 \in H
        <3>. SUFFICES ASSUME m + (j + 1) <= n PROVE a[m + (j + 1)] = last
            OBVIOUS
        <3>. DEFINE p == m + (j + 1)
        <3>0. p \in Nat /\ p <= n /\ p - 1 = m + j /\ m + j \in Nat /\ p >= 1 /\ m + j <= n
            BY <1>1, <1>4
        <3>1. m + j <= n
            BY <3>0
        <3>a. a[m + j] = last
            BY <2>2, <3>1
        <3>b. p \in 1..n /\ p - 1 = m + j
            BY ONLY <1>4, <3>0
        <3>. HIDE DEF p
        <3>c. a[p] = turn(s, a[p - 1])
            BY <1>6, <3>b
        <3>2. a[m + (j + 1)] = turn(s, a[m + j]) /\ a[m + j] = last
            BY <3>a, <3>b, <3>c DEF p
        <3>. QED  BY <1>14, <3>2
    <2>. HIDE DEF H
    <2>. QED  BY <2>1, <2>2, Induction
<1>16. a[n] = last
    <2>1. n - m \in Nat /\ m + (n - m) = n
        BY <1>1, <1>4, <1>10
    <2>. QED  BY <1>4, <1>15, <2>1
<1>. QED  BY <1>4, <1>6, <1>13, <1>16 DEF s

\* Only the first byte of a codepoint is none that continues one.
LEMMA NoShorterFront ==
    ASSUME NEW a \in Seq(Octets), NEW b \in Seq(Octets), NEW v \in Scalars, NEW c \in Scalars,
           a \o Canonical(v) = b \o Canonical(c)
    PROVE  ~(Len(a) < Len(b))
<1>. SUFFICES ASSUME Len(a) < Len(b) PROVE FALSE
    OBVIOUS
<1>. DEFINE w == Canonical(v)
            x == Canonical(c)
            k == Len(a)
            m == Len(b)
            j == m - k
<1>1. PICK n \in 0..3 : Holds(v, w, n)
    BY CanonicalIs
<1>2. PICK l \in 0..3 : Holds(c, x, l)
    BY CanonicalIs
<1>3. Len(w) = n + 1 /\ Len(x) = l + 1 /\ x[1] \notin Later /\ \A i \in 1..n : w[i + 1] \in Later
    BY <1>1, <1>2 DEF Holds
<1>4. w \in Seq(Octets) /\ x \in Seq(Octets)
    BY CanonicalSeq
<1>5. k \in Nat /\ m \in Nat /\ k < m
    OBVIOUS
<1>. HIDE DEF w, x
<1>6. Len(a \o w) = k + (n + 1) /\ \A i \in 1..Len(w) : (a \o w)[k + i] = w[i]
    BY <1>3, <1>4, JoinIs
<1>7. Len(b \o x) = m + (l + 1) /\ \A i \in 1..Len(x) : (b \o x)[m + i] = x[i]
    <2>1. Len(b \o x) = Len(b) + Len(x) /\ \A i \in 1..Len(x) : (b \o x)[Len(b) + i] = x[i]
        BY ONLY <1>4, b \in Seq(Octets), JoinIs
    <2>. QED  BY <1>3, <2>1
<1>8. a \o w = b \o x
    BY DEF w, x
<1>. HIDE DEF k, m
<1>9. k + (n + 1) = m + (l + 1)
    BY <1>6, <1>7, <1>8
<1>10. j \in 1..n /\ j + 1 \in 1..(n + 1) /\ k + (j + 1) = m + 1 /\ 1 \in 1..(l + 1)
    BY <1>5, <1>9
<1>. HIDE DEF j
<1>11. (a \o w)[k + (j + 1)] = w[j + 1] /\ w[j + 1] \in Later
    BY <1>3, <1>6, <1>10
<1>12. (b \o x)[m + 1] = x[1]
    BY <1>3, <1>7, <1>10
<1>. QED  BY <1>3, <1>8, <1>10, <1>11, <1>12

\* What stands in front of a last codepoint is determined by the whole.
LEMMA FrontIsOnly ==
    ASSUME NEW a \in Seq(Octets), NEW b \in Seq(Octets), NEW v \in Scalars, NEW c \in Scalars,
           a \o Canonical(v) = b \o Canonical(c)
    PROVE  a = b
<1>1. ~(Len(a) < Len(b)) /\ ~(Len(b) < Len(a))
    BY NoShorterFront
<1>2. Len(a) \in Nat /\ Len(b) \in Nat
    OBVIOUS
<1>3. Len(a) = Len(b)
    BY <1>1, <1>2
<1>4. \A i \in 1..Len(a) : (a \o Canonical(v))[i] = a[i]
    BY CanonicalSeq, JoinIs
<1>5. \A i \in 1..Len(b) : (b \o Canonical(c))[i] = b[i]
    BY CanonicalSeq, JoinIs
<1>6. \A i \in 1..Len(a) : a[i] = b[i]
    BY <1>3, <1>4, <1>5
<1>. QED  BY <1>3, <1>6, SeqEqual

LEMMA LastOf ==
    ASSUME NEW T, NEW s \in Seq(T), s # <<>>
    PROVE  \E front \in Seq(T), last \in T : s = Append(front, last)
<1>. DEFINE n == Len(s)
            front == SubSeq(s, 1, n - 1)
<1>1. n \in Nat \ {0}
    OBVIOUS
<1>2. front \in Seq(T) /\ s[n] \in T
    BY <1>1
<1>3. s = Append(front, s[n])
    BY <1>1
<1>. HIDE DEF front
<1>. QED  BY <1>2, <1>3

\* A codepoint behind a text leaves it as well formed as it was.
LEMMA ExtendedIs ==
    ASSUME NEW s \in Seq(Octets), NEW c \in Legals
    PROVE  decode_utf8(s \o Canonical(c)).how = "done" <=> decode_utf8(s).how = "done"
<1>. DEFINE w == Canonical(c)
            t == s \o w
            r == decode_utf8(s)
            q == decode_utf8(t)
<1>1. c \in Scalars /\ w \in Seq(Octets) /\ Len(w) \in Nat \ {0}
    BY LegalsAre, CanonicalSeq
<1>2. t \in Seq(Octets) /\ Len(t) # 0
    <2>. HIDE DEF w
    <2>1. Len(t) = Len(s) + Len(w) /\ t \in Seq(Octets)
        BY <1>1, JoinIs
    <2>. HIDE DEF t
    <2>2. Len(s) \in Nat
        OBVIOUS
    <2>. QED  BY <1>1, <2>1, <2>2
<1>. HIDE DEF t
<1>3. ASSUME r.how = "done" PROVE q.how = "done"
    <2>1. r.out \in Seq(Legals) /\ Encoded(r.out) = s
        BY <1>3, DecodedIs DEF Reader
    <2>. DEFINE out == Append(r.out, c)
    <2>. HIDE DEF r
    <2>2. out \in Seq(Legals) /\ r.out \in Seq(Scalars)
        BY <2>1, LegalsAre
    <2>3. Encoded(out) = t
        BY <1>1, <2>1, <2>2, EncodedMore DEF t
    <2>. HIDE DEF out
    <2>. QED  BY <2>2, <2>3, DecodedAll
<1>4. ASSUME q.how = "done" PROVE r.how = "done"
    <2>1. q.out \in Seq(Legals) /\ Encoded(q.out) = t
        BY <1>2, <1>4, DecodedIs DEF Reader
    <2>. HIDE DEF q
    <2>2. q.out # <<>>
        BY <1>2, <2>1, EncodedNone
    <2>3. PICK front \in Seq(Legals), last \in Legals : q.out = Append(front, last)
        BY <2>1, <2>2, LastOf
    <2>4. front \in Seq(Scalars) /\ last \in Scalars
        BY LegalsAre
    <2>5. Encoded(front) \in Seq(Octets) /\ t = Encoded(front) \o Canonical(last)
        BY <2>1, <2>3, <2>4, EncodedMore
    <2>6. Encoded(front) = s
        <3>1. Encoded(front) \o Canonical(last) = s \o Canonical(c)
            BY <2>5 DEF t
        <3>. QED  BY ONLY <1>1, <2>4, <2>5, <3>1, s \in Seq(Octets), FrontIsOnly
    <2>. QED  BY <2>6, DecodedAll
<1>. QED  BY <1>3, <1>4 DEF t, r, q, w

\* Two codepoints are decoded if both are legal.
LEMMA PairIs ==
    ASSUME NEW c \in Scalars, NEW d \in Scalars
    PROVE  LET both == decode_utf8(Canonical(c) \o Canonical(d))
           IN  both.how = "done" /\ both.out = <<c, d>> <=> Legal(c) /\ Legal(d)
<1>. DEFINE s == Canonical(c) \o Canonical(d)
            both == decode_utf8(s)
            out == <<c, d>>
<1>1. Canonical(c) \in Seq(Octets) /\ Canonical(d) \in Seq(Octets)
    BY CanonicalSeq
<1>2. s \in Seq(Octets)
    BY <1>1
<1>3. Encoded(out) = s
    <2>a. <<>> \in Seq(Scalars)
        OBVIOUS
    <2>b. <<c>> \in Seq(Scalars)
        OBVIOUS
    <2>c. Append(<<>>, c) = <<c>>
        OBVIOUS
    <2>d. Append(<<c>>, d) = <<c, d>>
        <3>. SUFFICES ASSUME NEW p, p = Append(<<c>>, d) PROVE p = <<c, d>>
            OBVIOUS
        <3>. HIDE DEF Scalars
        <3>1. p \in Seq(Scalars)
            BY <2>b
        <3>2. Len(p) = 2
            OBVIOUS
        <3>3. p[1] = c
            OBVIOUS
        <3>4. p[2] = d
            OBVIOUS
        <3>. QED  BY ONLY <3>1, <3>2, <3>3, <3>4
    <2>1. <<>> \in Seq(Scalars) /\ <<c>> \in Seq(Scalars) /\ Append(<<>>, c) = <<c>> /\ Append(<<c>>, d) = <<c, d>>
        BY <2>a, <2>b, <2>c, <2>d
    <2>2. Encoded(<<c>>) = <<>> \o Canonical(c)
        BY <2>1, EncodedNone, EncodedMore
    <2>3. Encoded(<<c>>) = Canonical(c)
        BY <1>1, <2>2
    <2>. QED  BY <2>1, <2>3, EncodedMore
<1>. HIDE DEF s
<1>4. ASSUME Legal(c), Legal(d) PROVE both.how = "done" /\ both.out = out
    <2>1. out \in Seq(Legals)
        BY <1>4 DEF Legals
    <2>. QED  BY <1>3, <2>1, DecodedAll
<1>5. ASSUME both.how = "done" /\ both.out = out PROVE Legal(c) /\ Legal(d)
    <2>1. both.out \in Seq(Legals)
        BY <1>2, DecodedIs DEF Reader
    <2>2. out \in Seq(Legals) /\ Len(out) = 2
        BY <1>5, <2>1
    <2>3. out[1] \in Legals /\ out[2] \in Legals
        BY ONLY <2>2
    <2>. QED  BY <2>3 DEF Legals
<1>. QED  BY <1>4, <1>5 DEF s

LEMMA Utf8Is == ASSUME octets \in Seq(Octets), CodecAssumption PROVE Utf8Sound
<1>. DEFINE r == decode_utf8(octets)
            read == Encoded(r.out)
<1>1. \A c \in Codepoints : c \in Scalars
    BY DEF CodecAssumption, Scalars
<1>2. IF r.how = "done" THEN read = octets
      ELSE Len(read) < Len(octets) /\ read = SubSeq(octets, 1, Len(read))
    BY DecodedIs
<1>3. r.out \in Seq(Legals)
    BY DecodedIs DEF Reader
<1>4. \A i \in DOMAIN r.out : Legal(r.out[i])
    <2>. HIDE DEF r
    <2>1. \A i \in DOMAIN r.out : r.out[i] \in Legals
        BY <1>3
    <2>. QED  BY <2>1 DEF Legals
<1>5. \A c \in Codepoints, d \in Codepoints :
          LET both == decode_utf8(Canonical(c) \o Canonical(d))
          IN  both.how = "done" /\ both.out = <<c, d>> <=> Legal(c) /\ Legal(d)
    BY <1>1, PairIs
<1>6. \A c \in {c \in Codepoints : Legal(c)} :
          decode_utf8(octets \o Canonical(c)).how = "done" <=> r.how = "done"
    <2>. SUFFICES ASSUME NEW c \in Codepoints, Legal(c)
                  PROVE  decode_utf8(octets \o Canonical(c)).how = "done" <=> r.how = "done"
        OBVIOUS
    <2>1. c \in Legals
        BY <1>1 DEF Legals
    <2>. QED  BY <2>1, ExtendedIs
<1>. QED  BY <1>2, <1>4, <1>5, <1>6 DEF Utf8Sound

(***************************************************************************)
(* Characters.                                                             *)
(***************************************************************************)
\* The classes of characters, as bounds.
LEMMA ClassesAre ==
    ASSUME NEW c \in Nat
    PROVE  /\ is_digit(c) <=> (c >= 48 /\ c <= 57)
           /\ is_upper(c) <=> (c >= 65 /\ c <= 90)
           /\ is_lower(c) <=> (c >= 97 /\ c <= 122)
           /\ c \in 97..102 <=> (c >= 97 /\ c <= 102)
           /\ c \in 65..70 <=> (c >= 65 /\ c <= 70)
           /\ is_space(c) => c <= 32
           /\ is_hex(c) <=> (is_digit(c) \/ (c >= 97 /\ c <= 102) \/ (c >= 65 /\ c <= 70))
BY SMT DEF is_digit, is_upper, is_lower, is_space, is_hex

LEMMA AsciiIs == AsciiSound
<1>. SUFFICES ASSUME NEW c \in Octets
              PROVE  /\ Cardinality({f \in 1 .. 4 : <<is_digit(c), is_upper(c), is_lower(c), is_space(c)>>[f]}) <= 1
                     /\ is_hex(c) <=> from_hex(c) # Throws
                     /\ is_hex(c) => from_hex(c) = dec16[IF is_lower(c) THEN to_upper(c) ELSE c]
                     /\ is_digit(c) => to_integer(c) = from_hex(c)
                     /\ is_upper(c) => is_lower(to_lower(c)) /\ to_upper(to_lower(c)) = c
    BY DEF AsciiSound
<1>1. c \in Nat /\ c < 256
    BY DEF Octets
<1>2. /\ is_digit(c) <=> (c >= 48 /\ c <= 57)
      /\ is_upper(c) <=> (c >= 65 /\ c <= 90)
      /\ is_lower(c) <=> (c >= 97 /\ c <= 122)
      /\ is_hex(c) <=> (is_digit(c) \/ (c >= 97 /\ c <= 102) \/ (c >= 65 /\ c <= 70))
    BY <1>1, ClassesAre
<1>3. Cardinality({f \in 1 .. 4 : <<is_digit(c), is_upper(c), is_lower(c), is_space(c)>>[f]}) <= 1
    <2>. DEFINE K == <<is_digit(c), is_upper(c), is_lower(c), is_space(c)>>
                Y == {f \in 1..4 : K[f]}
    <2>1. is_space(c) => c <= 32
        BY <1>1, ClassesAre
    <2>2. K[1] = is_digit(c) /\ K[2] = is_upper(c) /\ K[3] = is_lower(c) /\ K[4] = is_space(c)
        OBVIOUS
    <2>. HIDE DEF K
    <2>3. \A f \in 1..4, g \in 1..4 : K[f] /\ K[g] => f = g
        BY <1>1, <1>2, <2>1, <2>2
    <2>4. Y = {} \/ \E f \in 1..4 : Y = {f}
        BY <2>3
    <2>5. Cardinality({}) = 0
        BY FS_EmptySet
    <2>. HIDE DEF Y
    <2>6. Cardinality(Y) <= 1
        <3>1. CASE Y = {}
            BY <2>5, <3>1
        <3>2. CASE \E f \in 1..4 : Y = {f}
            <4>1. PICK f \in 1..4 : Y = {f}
                BY <3>2
            <4>2. Cardinality({f}) = 1
                BY FS_Singleton
            <4>. QED  BY <4>1, <4>2
        <3>. QED  BY <2>4, <3>1, <3>2
    <2>. QED  BY <2>6 DEF Y, K
<1>4. /\ is_digit(c) => from_hex(c) = c - 48 /\ to_integer(c) = c - 48
      /\ (c >= 97 /\ c <= 102) => from_hex(c) = c - 87
      /\ (c >= 65 /\ c <= 70) => from_hex(c) = c - 55
      /\ ~is_hex(c) => from_hex(c) = -1
    <2>1. /\ c \in 97..102 <=> (c >= 97 /\ c <= 102)
          /\ c \in 65..70 <=> (c >= 65 /\ c <= 70)
        BY <1>1, ClassesAre
    <2>. QED  BY <1>1, <1>2, <2>1 DEF from_hex, to_integer, Throws
<1>5. is_hex(c) <=> from_hex(c) # Throws
    BY <1>1, <1>2, <1>4 DEF Throws
<1>6. \A x \in Octets : /\ (x >= 48 /\ x <= 57) => dec16[x] = x - 48
                        /\ (x >= 65 /\ x <= 70) => dec16[x] = x - 55
    <2>. SUFFICES ASSUME NEW x \in Octets
                  PROVE  /\ (x >= 48 /\ x <= 57) => dec16[x] = x - 48
                         /\ (x >= 65 /\ x <= 70) => dec16[x] = x - 55
        OBVIOUS
    <2>1. x \in Nat
        BY DEF Octets
    <2>2. x \in 48..57 <=> (x >= 48 /\ x <= 57)
        BY <2>1
    <2>3. x \in 65..70 <=> (x >= 65 /\ x <= 70)
        BY <2>1
    <2>4. dec16[x] = IF x \in 48 .. 57 THEN x - 48 ELSE IF x \in 65 .. 70 THEN 10 + (x - 65) ELSE 0
        BY DEF dec16
    <2>. QED  BY <2>1, <2>2, <2>3, <2>4
<1>7. ASSUME is_hex(c) PROVE from_hex(c) = dec16[IF is_lower(c) THEN to_upper(c) ELSE c]
    <2>1. CASE is_lower(c)
        <3>1. c >= 97 /\ c <= 102
            BY <1>1, <1>2, <1>7, <2>1
        <3>2. to_upper(c) = c - 32
            BY <1>1, <3>1 DEF to_upper
        <3>. DEFINE x == c - 32
        <3>3. x \in Nat /\ x < 256 /\ x >= 65 /\ x <= 70 /\ x - 55 = c - 87
            BY <1>1, <3>1
        <3>. HIDE DEF x
        <3>4. x \in Octets
            BY <3>3, ByteIs
        <3>5. dec16[x] = x - 55
            BY <1>6, <3>3, <3>4
        <3>. QED  BY <1>4, <2>1, <3>1, <3>2, <3>3, <3>5 DEF x
    <2>2. CASE ~is_lower(c)
        <3>1. is_digit(c) \/ (c >= 65 /\ c <= 70)
            BY <1>1, <1>2, <1>7, <2>2
        <3>2. dec16[c] = from_hex(c)
            BY <1>2, <1>4, <1>6, <3>1
        <3>. QED  BY <2>2, <3>2
    <2>. QED  BY <2>1, <2>2
<1>8. ASSUME is_upper(c) PROVE is_lower(to_lower(c)) /\ to_upper(to_lower(c)) = c
    <2>1. c >= 65 /\ c <= 90
        BY <1>2, <1>8
    <2>2. to_lower(c) = c + 32
        BY <1>1, <2>1 DEF to_lower
    <2>. DEFINE x == c + 32
    <2>3. x \in Nat /\ x >= 97 /\ x <= 122 /\ x - 32 = c
        BY <1>1, <2>1
    <2>. HIDE DEF x
    <2>4. is_lower(x)
        BY <2>3, ClassesAre
    <2>5. to_upper(x) = x - 32
        BY <2>3 DEF to_upper
    <2>. QED  BY <2>2, <2>3, <2>4, <2>5 DEF x
<1>9. is_digit(c) => to_integer(c) = from_hex(c)
    BY <1>4
<1>. QED  BY <1>3, <1>5, <1>7, <1>8, <1>9

\* The octets are those of a source.
CodecInv == source \in Sources /\ octets \in Seq(Octets)

(***************************************************************************)
(* Whatever octets arrive and however many, base16, base32 and base64 fill *)
(* up and cut them as rfc4648 says, and decode what fits the register back *)
(* to them; the utf8 decoder takes exactly the legal codepoints in their   *)
(* shortest form; the character classes agree (src/encode/base.hpp,        *)
(* src/utf8.cpp, src/ascii.hpp).                                           *)
(***************************************************************************)
THEOREM CodecsExact == CodecSpec => [](source \in Sources /\ CodecsSound)
<1>1. CodecInit => CodecInv
    BY DEF CodecInit, CodecInv
<1>2. CodecInv /\ [CodecNext]_<<octets, source>> => CodecInv'
    <2>. SUFFICES ASSUME CodecInv, [CodecNext]_<<octets, source>> PROVE CodecInv'
        OBVIOUS
    <2>1. CASE CodecNext
        <3>1. PICK c \in source[1] : Receive(c)
            BY <2>1 DEF CodecNext
        <3>2. c \in Octets
            BY <3>1, CodecAssumption DEF CodecInv, CodecAssumption
        <3>. QED  BY <3>1, <3>2 DEF CodecInv, Receive
    <2>2. CASE UNCHANGED <<octets, source>>
        BY <2>2 DEF CodecInv
    <2>. QED  BY <2>1, <2>2
<1>3. CodecInv => source \in Sources /\ CodecsSound
    <2>. SUFFICES ASSUME CodecInv PROVE source \in Sources /\ CodecsSound
        OBVIOUS
    <2>1. octets \in Seq(Octets)
        BY DEF CodecInv
    <2>2. BasesSound /\ Utf8Sound /\ AsciiSound
        BY <2>1, BasesAre, Utf8Is, AsciiIs, CodecAssumption
    <2>. QED  BY <2>2 DEF CodecInv, CodecsSound
<1>. QED  BY <1>1, <1>2, <1>3, PTL DEF CodecSpec
=============================================================================
