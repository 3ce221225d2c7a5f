------------------------------ MODULE Pointer ------------------------------
(* Address arithmetic of src/pointer.hpp, and what align returns for every  *)
(* address and every alignment.                                             *)
EXTENDS Integers, TLAPS

AlignUp_Down(p, a) == p - (p % a)

\* util::align: up to the next multiple, and nowhere when p is one.
AlignUp(p, a) == IF p % a = 0 THEN p ELSE p + (a - (p % a))

-----------------------------------------------------------------------------
\* Quotient and remainder.
LEMMA DivMod ==
    ASSUME NEW p \in Nat, NEW a \in Nat \ {0}
    PROVE  /\ p % a \in 0..(a - 1)
           /\ p \div a \in Nat
           /\ p = a * (p \div a) + (p % a)
<1> DEFINE d == p \div a
           m == p % a
<1>1. d \in Int /\ m \in 0..(a - 1) /\ p = a * d + m
    OBVIOUS
<1> HIDE DEF d, m
<1>2. CASE d <= -1
    <2>1. a * d <= -a
        BY <1>1, <1>2
    <2>. QED  BY <1>1, <2>1
<1>. QED  BY <1>1, <1>2 DEF d, m

\* A product is a multiple of its factor.
LEMMA ProductIsMultiple ==
    ASSUME NEW k \in Nat, NEW a \in Nat \ {0}
    PROVE  (a * k) % a = 0
<1> DEFINE d == (a * k) \div a
           m == (a * k) % a
<1>1. d \in Int /\ m \in 0..(a - 1) /\ a * k = a * d + m
    OBVIOUS
<1> HIDE DEF d, m
<1>2. m = a * (k - d)
    BY <1>1
<1>3. CASE k - d >= 1
    <2>1. a * (k - d) >= a
        BY <1>1, <1>3
    <2>. QED  BY <1>1, <1>2, <2>1
<1>4. CASE k - d <= -1
    <2>1. a * (k - d) <= -a
        BY <1>1, <1>4
    <2>. QED  BY <1>1, <1>2, <2>1
<1>5. ASSUME k = d PROVE m = 0
    <2>1. a * k = a * d /\ a * k \in Int /\ a * d \in Int
        BY <1>1, <1>5
    <2>. QED  BY <1>1, <2>1
<1>6. m = 0
    BY <1>1, <1>3, <1>4, <1>5
<1>. QED  BY <1>6 DEF m

\* Rounding up reaches a multiple.
LEMMA UpIsMultiple ==
    ASSUME NEW p \in Nat, NEW a \in Nat \ {0}
    PROVE  (p + (a - (p % a))) % a = 0
<1> DEFINE q == p \div a
<1>1. q \in Nat /\ p % a \in 0..(a - 1) /\ p = a * q + (p % a)
    BY DivMod
<1> HIDE DEF q
<1>2. a * (q + 1) = a * q + a
    BY <1>1
<1>3. p + (a - (p % a)) = a * (q + 1) /\ q + 1 \in Nat
    BY <1>1, <1>2
<1>. QED  BY <1>3, ProductIsMultiple

\* Being a multiple is transitive.
LEMMA MultipleOfMultiple ==
    ASSUME NEW q \in Nat, NEW h \in Nat \ {0}, NEW a \in Nat \ {0},
           q % h = 0, h % a = 0
    PROVE  q % a = 0
<1> DEFINE i == q \div h
           j == h \div a
<1>1. i \in Nat /\ q = h * i + (q % h)
    BY DivMod
<1>2. j \in Nat /\ h = a * j + (h % a)
    BY DivMod
<1> HIDE DEF i, j
<1>3. h * i \in Nat /\ a * j \in Nat
    BY <1>1, <1>2
<1>4. q = h * i /\ h = a * j
    BY <1>1, <1>2, <1>3
<1>5. q = a * (j * i) /\ j * i \in Nat
    BY <1>1, <1>2, <1>4
<1>. QED  BY <1>5, ProductIsMultiple

\* align returns the least multiple at or above the address: a multiple, not
\* below the address, and less than one alignment above it.
THEOREM AlignUpCorrect ==
    ASSUME NEW p \in Nat, NEW a \in Nat \ {0}
    PROVE  /\ AlignUp(p, a) \in Nat
           /\ AlignUp(p, a) % a = 0
           /\ p <= AlignUp(p, a) /\ AlignUp(p, a) < p + a
<1>1. p % a \in 0..(a - 1)
    BY DivMod
<1>2. CASE p % a = 0
    BY <1>2 DEF AlignUp
<1>3. CASE p % a # 0
    <2>1. AlignUp(p, a) = p + (a - (p % a))
        BY <1>3 DEF AlignUp
    <2>2. AlignUp(p, a) % a = 0
        BY <2>1, UpIsMultiple
    <2>. QED  BY <1>1, <1>3, <2>1, <2>2
<1>. QED  BY <1>2, <1>3
=============================================================================
