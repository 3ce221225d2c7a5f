---------------------------- MODULE SignalProofs ----------------------------
(***************************************************************************)
(* Proofs about Signal, for any nodes, cookies and values, any nesting of  *)
(* emissions and every combiner.                                           *)
(*                                                                         *)
(* A node has an age: its place in the history of connections.  The list   *)
(* is always in the order of age, and so is what a walk has called; an     *)
(* iterator stands between what was called and what is not.  The walks and *)
(* the values the listeners hold are then compared by age alone, which no  *)
(* connecting or erasing changes.                                          *)
(***************************************************************************)
EXTENDS Signal, SequenceTheorems, FiniteSetTheorems, TLAPS

Index(s, n) == CHOOSE k \in 1..Len(s) : s[k] = n
Age(n) == Index(order, n)

\* No node is connected twice, and the list is in the order of connection.
ListInv ==
    /\ \A j, k \in 1..Len(order) : order[j] = order[k] => j = k
    /\ \A j, k \in 1..Len(children) : j < k => Age(children[j]) < Age(children[k])

\* A cookie that points into the list points at a connected node, and every
\* node has one cookie.
CookieInv ==
    /\ \A c \in Cookies : pos[c] \in Connected \cup {End, None}
    /\ \A n \in Connected : \E c \in Cookies : pos[c] = n
    /\ \A c, d \in Cookies : pos[c] = pos[d] /\ pos[c] \in Nodes => c = d

\* A walk: what it has called is in the order of age and older than its
\* iterator, and what it began with is called, erased, or ahead.  None of this
\* needs the node of the iterator to be connected still.
Called(f) == {f.called[i] : i \in 1..Len(f.called)}
Ahead(f, n) == f.next # End /\ Age(f.next) <= Age(n)
Decides(v, i) == combiner # "noop" /\ v[i] # (combiner = "and")

FrameInv(f) ==
    /\ f.next \in Known \cup {End}
    /\ Called(f) \subseteq Known /\ f.start \subseteq Known
    /\ \A x, y \in 1..Len(f.called) : x < y => Age(f.called[x]) < Age(f.called[y])
    /\ \A n \in Called(f) : f.next # End => Age(n) < Age(f.next)
    /\ \A n \in f.start \cap Connected : n \in Called(f) \/ Ahead(f, n)
    /\ f.cur # None => f.cur \in Called(f)
    /\ \A i \in 1..Len(f.votes) : Decides(f.votes, i) => i = Len(f.votes) /\ f.cur = None

WalkInv == \A i \in 1..Len(stack) : FrameInv(stack[i])

\* A listener with an older value is one the innermost walk will still call.
ValueInv ==
    /\ \A n \in Nodes \ Known : seen[n] = None
    /\ combiner = "noop" =>
          \A n \in Connected : seen[n] \in {None, value} \/ (stack # <<>> /\ Ahead(Top, n))

SignalInv == TypeOK /\ ListInv /\ WalkInv /\ ValueInv

-----------------------------------------------------------------------------
(* Sequences without repetitions.                                          *)

Distinct(s) == \A j, k \in 1..Len(s) : s[j] = s[k] => j = k

LEMMA IndexFound ==
    ASSUME NEW s, NEW k \in 1..Len(s)
    PROVE  Index(s, s[k]) \in 1..Len(s) /\ s[Index(s, s[k])] = s[k]
BY DEF Index

LEMMA IndexUnique ==
    ASSUME NEW s, Distinct(s), NEW k \in 1..Len(s)
    PROVE  Index(s, s[k]) = k
BY IndexFound DEF Distinct

\* What the list's order says of its nodes.
LEMMA ListFacts ==
    ASSUME TypeOK, ListInv
    PROVE  /\ Distinct(order) /\ Distinct(children) /\ Connected \subseteq Known
           /\ \A n \in Known : Age(n) \in 1..Len(order) /\ order[Age(n)] = n
           /\ \A m, n \in Known : Age(m) = Age(n) => m = n
           /\ \A n \in Connected : Place(n) \in 1..Len(children) /\ children[Place(n)] = n
           /\ \A m, n \in Connected : Place(m) <= Place(n) <=> Age(m) <= Age(n)
<1>1. Distinct(order) /\ Connected \subseteq Known
    BY DEF TypeOK, ListInv, Distinct
<1>2. \A n \in Known : Age(n) \in 1..Len(order) /\ order[Age(n)] = n
    BY IndexFound DEF Known, Age
<1>3. \A j \in 1..Len(children) : children[j] \in Known
    BY <1>1 DEF Connected
<1>4. \A j \in 1..Len(children) : Age(children[j]) \in Int
    BY <1>2, <1>3
<1>5. Distinct(children)
    <2> SUFFICES ASSUME NEW j \in 1..Len(children), NEW k \in 1..Len(children),
                        children[j] = children[k]
                 PROVE  j = k
        BY DEF Distinct
    <2>1. ~(j < k) /\ ~(k < j)
        BY <1>4 DEF ListInv
    <2>. QED  BY <2>1
<1>6. \A n \in Connected : Place(n) \in 1..Len(children) /\ children[Place(n)] = n
    BY DEF Connected, Place
<1>7. ASSUME NEW m \in Connected, NEW n \in Connected
      PROVE  Place(m) <= Place(n) <=> Age(m) <= Age(n)
    <2>1. Place(m) < Place(n) => Age(m) < Age(n)
        BY <1>6 DEF ListInv
    <2>2. Place(n) < Place(m) => Age(n) < Age(m)
        BY <1>6 DEF ListInv
    <2>3. Place(m) = Place(n) => m = n
        BY <1>6
    <2>4. Age(m) \in Int /\ Age(n) \in Int /\ Place(m) \in Int /\ Place(n) \in Int
        BY <1>1, <1>2, <1>6
    <2>. QED  BY <2>1, <2>2, <2>3, <2>4
<1>. QED  BY <1>1, <1>2, <1>5, <1>6, <1>7

-----------------------------------------------------------------------------
(* What the calls of the user do to the list.                              *)

LEMMA AppendFacts ==
    ASSUME TypeOK, ListInv, NEW n \in Nodes, n \notin Known,
           children' = Append(children, n), order' = Append(order, n)
    PROVE  /\ order' \in Seq(Nodes) /\ children' \in Seq(Nodes)
           /\ Connected' = Connected \cup {n} /\ Known' = Known \cup {n}
           /\ \A m \in Known : Age(m)' = Age(m)
           /\ ListInv'
<1>1. /\ order \in Seq(Nodes) /\ children \in Seq(Nodes)
      /\ Len(order) \in Nat /\ Len(children) \in Nat
    BY DEF TypeOK
<1>2. /\ order' \in Seq(Nodes) /\ Len(order') = Len(order) + 1
      /\ \A k \in 1..Len(order) : order'[k] = order[k]
      /\ order'[Len(order) + 1] = n
    BY <1>1
<1>3. /\ children' \in Seq(Nodes) /\ Len(children') = Len(children) + 1
      /\ \A k \in 1..Len(children) : children'[k] = children[k]
      /\ children'[Len(children) + 1] = n
    BY <1>1
<1>4. Connected' = Connected \cup {n} /\ Known' = Known \cup {n}
    BY <1>1, <1>2, <1>3 DEF Connected, Known
<1>5. Distinct(order')
    BY <1>1, <1>2, ListFacts DEF Distinct, Known
<1>6. \A m \in Known : Age(m)' = Age(m)
    <2> SUFFICES ASSUME NEW m \in Known PROVE Index(order', m) = Index(order, m)
        BY DEF Age
    <2>1. Age(m) \in 1..Len(order) /\ order[Age(m)] = m
        BY ListFacts
    <2>2. Age(m) \in 1..Len(order') /\ order'[Age(m)] = m
        BY <1>1, <1>2, <2>1
    <2>3. Index(order', m) = Age(m)
        BY <1>5, <2>2, IndexUnique
    <2>. QED  BY <2>3 DEF Age
<1>7. Age(n)' = Len(order) + 1
    <2>1. Len(order) + 1 \in 1..Len(order') /\ order'[Len(order) + 1] = n
        BY <1>1, <1>2
    <2>2. Index(order', order'[Len(order) + 1]) = Len(order) + 1
        BY <1>5, <2>1, IndexUnique
    <2>. QED  BY <2>1, <2>2 DEF Age
<1>8. ASSUME NEW j \in 1..Len(children'), NEW k \in 1..Len(children'), j < k
      PROVE  Age(children[j])' < Age(children[k])'
    <2>1. j \in 1..Len(children) /\ children'[j] = children[j] /\ children[j] \in Known
        BY <1>1, <1>3, <1>8, ListFacts DEF Connected
    <2>2. Age(children[j])' = Age(children[j]) /\ Age(children[j]) \in 1..Len(order)
        BY <1>6, <2>1, ListFacts DEF Age
    <2>3. CASE k = Len(children) + 1
        BY <1>1, <1>3, <1>7, <2>2, <2>3 DEF Age
    <2>4. CASE k \in 1..Len(children)
        <3>1. Age(children[k])' = Age(children[k])
            BY <1>3, <1>6, <2>4, ListFacts DEF Age, Connected
        <3>. QED  BY <1>8, <2>1, <2>2, <2>4, <3>1 DEF ListInv
    <2>. QED  BY <1>1, <1>3, <2>3, <2>4
<1>. QED  BY <1>2, <1>3, <1>4, <1>5, <1>6, <1>8 DEF ListInv, Distinct

LEMMA RemoveFacts ==
    ASSUME NEW S, NEW s \in Seq(S), NEW i \in 1..Len(s)
    PROVE  LET t == SubSeq(s, 1, i - 1) \o SubSeq(s, i + 1, Len(s)) IN
           /\ t \in Seq(S) /\ Len(t) = Len(s) - 1
           /\ \A k \in 1..Len(t) : t[k] = IF k < i THEN s[k] ELSE s[k + 1]
<1> DEFINE l == SubSeq(s, 1, i - 1)
           r == SubSeq(s, i + 1, Len(s))
<1>1. Len(s) \in Nat
    OBVIOUS
<1>2. l \in Seq(S) /\ Len(l) = i - 1 /\ \A k \in 1..(i - 1) : l[k] = s[k]
    BY <1>1, SubSeqProperties
<1>3. r \in Seq(S) /\ Len(r) = Len(s) - i /\ \A k \in 1..(Len(s) - i) : r[k] = s[i + k]
    BY <1>1, SubSeqProperties
<1> HIDE DEF l, r
<1>4. /\ l \o r \in Seq(S) /\ Len(l \o r) = Len(l) + Len(r)
      /\ \A k \in 1..(Len(l) + Len(r)) : (l \o r)[k] = IF k <= Len(l) THEN l[k] ELSE r[k - Len(l)]
    BY <1>2, <1>3, ConcatProperties
<1>5. ASSUME NEW k \in 1..(Len(s) - 1)
      PROVE  (l \o r)[k] = IF k < i THEN s[k] ELSE s[k + 1]
    <2>1. k \in 1..(Len(l) + Len(r)) /\ Len(l) = i - 1
        BY <1>1, <1>2, <1>3
    <2>2. CASE k < i
        BY <1>2, <1>4, <2>1, <2>2
    <2>3. CASE ~(k < i)
        <3>1. k - Len(l) \in 1..(Len(s) - i) /\ i + (k - Len(l)) = k + 1
            BY <1>1, <2>1, <2>3
        <3>. QED  BY <1>3, <1>4, <2>1, <2>3, <3>1
    <2>. QED  BY <2>2, <2>3
<1>6. Len(l \o r) = Len(s) - 1
    BY <1>1, <1>2, <1>3, <1>4
<1>. QED  BY <1>4, <1>5, <1>6 DEF l, r

LEMMA EraseFacts ==
    ASSUME TypeOK, ListInv, NEW n \in Connected, Erase(n), order' = order
    PROVE  /\ children' \in Seq(Nodes) /\ Connected' = Connected \ {n} /\ ListInv'
<1> DEFINE i == Place(n)
<1>1. children \in Seq(Nodes) /\ Len(children) \in Nat /\ i \in 1..Len(children)
      /\ children[i] = n /\ Distinct(children)
    BY ListFacts DEF TypeOK
<1> HIDE DEF i
<1>2. /\ children' \in Seq(Nodes) /\ Len(children') = Len(children) - 1
      /\ \A k \in 1..Len(children') :
            children'[k] = IF k < i THEN children[k] ELSE children[k + 1]
    <2>1. children' = SubSeq(children, 1, i - 1) \o SubSeq(children, i + 1, Len(children))
        BY DEF Erase, RemoveAt, i
    <2>. QED  BY <1>1, <2>1, RemoveFacts
<1>3. Connected' \subseteq Connected \ {n}
    <2> SUFFICES ASSUME NEW k \in 1..Len(children')
                 PROVE  children'[k] \in Connected \ {n}
        BY DEF Connected
    <2>. QED  BY <1>1, <1>2 DEF Connected, Distinct
<1>4. Connected \ {n} \subseteq Connected'
    <2> SUFFICES ASSUME NEW k \in 1..Len(children), children[k] # n
                 PROVE  children[k] \in Connected'
        BY DEF Connected
    <2>1. CASE k < i
        BY <1>1, <1>2, <2>1 DEF Connected
    <2>2. CASE k > i
        <3>1. k - 1 \in 1..Len(children') /\ children'[k - 1] = children[k]
            BY <1>1, <1>2, <2>2
        <3>. QED  BY <3>1 DEF Connected
    <2>. QED  BY <1>1, <2>1, <2>2
<1>5. ListInv'
    <2>1. ASSUME NEW j \in 1..Len(children'), NEW k \in 1..Len(children'), j < k
          PROVE  Index(order, children'[j]) < Index(order, children'[k])
        <3> DEFINE jj == IF j < i THEN j ELSE j + 1
                   kk == IF k < i THEN k ELSE k + 1
        <3>1. jj \in 1..Len(children) /\ kk \in 1..Len(children) /\ jj < kk
            BY <1>1, <1>2, <2>1
        <3>2. children'[j] = children[jj] /\ children'[k] = children[kk]
            BY <1>2
        <3>. QED  BY <3>1, <3>2 DEF ListInv, Age
    <2>. QED  BY <2>1 DEF ListInv, Age
<1>. QED  BY <1>2, <1>3, <1>4, <1>5

-----------------------------------------------------------------------------
(* What they do to the walks: nothing, as age outlives erasing.            *)

LEMMA FrameKept ==
    ASSUME NEW f, FrameInv(f), Connected \subseteq Known,
           combiner' = combiner, Known \subseteq Known',
           \A n \in Known : Age(n)' = Age(n),
           Connected' \cap Known \subseteq Connected
    PROVE  FrameInv(f)'
<1> USE DEF FrameInv, Called, Ahead, Decides, Age
<1>1. \A n \in Called(f) : n \in Known
    BY DEF FrameInv
<1>2. f.next # End => f.next \in Known
    BY DEF FrameInv
<1>3. \A x \in 1..Len(f.called) : f.called[x] \in Known
    BY <1>1
<1>4. Called(f) \subseteq Known' /\ f.start \subseteq Known'
    BY DEF FrameInv
<1>5. \A n \in f.start \cap Connected' : n \in Called(f) \/ Ahead(f, n)'
    BY <1>2
<1>. QED  BY <1>1, <1>2, <1>3, <1>4, <1>5

LEMMA WalksKept ==
    ASSUME TypeOK, WalkInv,
           combiner' = combiner, stack' = stack, Known \subseteq Known',
           \A n \in Known : Age(n)' = Age(n),
           Connected' \cap Known \subseteq Connected
    PROVE  WalkInv'
<1> SUFFICES ASSUME NEW i \in 1..Len(stack) PROVE FrameInv(stack[i])'
    BY DEF WalkInv
<1>1. PICK f : f = stack[i]
    OBVIOUS
<1>2. FrameInv(f)'
    BY <1>1, FrameKept DEF WalkInv, TypeOK
<1>. QED  BY <1>1, <1>2 DEF FrameInv, Called, Ahead, Decides

\* The innermost walk, and the types of its parts.
LEMMA TopFacts ==
    ASSUME TypeOK, stack # <<>>
    PROVE  /\ Len(stack) \in Nat /\ Len(stack) \in 1..Len(stack) /\ Top \in Frames
           /\ Top.next \in Positions /\ Top.cur \in Nodes \cup {None}
           /\ Top.called \in Seq(Nodes) /\ Top.votes \in Seq(BOOLEAN)
           /\ Top.start \subseteq Nodes
<1>1. stack \in Seq(Frames) /\ Len(stack) \in Nat /\ Len(stack) # 0
    BY DEF TypeOK
<1>2. Len(stack) \in 1..Len(stack) /\ Top \in Frames
    BY <1>1 DEF Top
<1>. QED  BY <1>1, <1>2 DEF Frames

\* A step that keeps walks and values, and the ages of what is known.
LEMMA ValuesKept ==
    ASSUME TypeOK, WalkInv, ValueInv,
           UNCHANGED <<combiner, stack, value>>,
           Known \subseteq Known', \A n \in Known : Age(n)' = Age(n),
           \A n \in Nodes : seen'[n] \in {seen[n], None},
           \A n \in Connected' \ Connected : seen'[n] = None,
           \A n \in Connected' \cap Connected : n \in Nodes
    PROVE  ValueInv'
<1>1. \A n \in Nodes \ Known' : seen'[n] = None
    BY DEF ValueInv
<1>2. ASSUME combiner = "noop", NEW n \in Connected'
      PROVE  seen'[n] \in {None, value} \/ (stack # <<>> /\ Ahead(Top, n)')
    <2>1. CASE n \notin Connected
        BY <2>1
    <2>2. CASE n \in Connected /\ seen[n] \in {None, value}
        BY <1>2, <2>2
    <2>3. CASE n \in Connected /\ stack # <<>> /\ Ahead(Top, n)
        <3>1. n \in Known
            BY <2>3 DEF TypeOK
        <3>2. Top.next \in Known
            BY <2>3, TopFacts DEF WalkInv, FrameInv, TypeOK, Ahead, Top
        <3>. QED  BY <2>3, <3>1, <3>2 DEF Ahead, Top, Age
    <2>. QED  BY <1>2, <2>1, <2>2, <2>3 DEF ValueInv
<1>. QED  BY <1>1, <1>2 DEF ValueInv

LEMMA ConnectStep ==
    ASSUME SignalInv, NEW c \in Cookies, NEW n \in Nodes, Connect(c, n)
    PROVE  SignalInv'
<1> USE DEF SignalInv, Connect
<1>1. /\ order' \in Seq(Nodes) /\ children' \in Seq(Nodes)
      /\ Connected' = Connected \cup {n} /\ Known' = Known \cup {n}
      /\ \A m \in Known : Age(m)' = Age(m)
      /\ ListInv'
    BY AppendFacts
<1>2. TypeOK'
    BY <1>1 DEF TypeOK, Positions
<1>3. WalkInv'
    <2>1. n \notin Known
        OBVIOUS
    <2>. QED  BY <1>1, <2>1, WalksKept
<1>4. ValueInv'
    <2>1. Connected \subseteq Nodes /\ seen[n] = None
        BY DEF TypeOK, Connected, ValueInv
    <2>. QED  BY <1>1, <2>1, ValuesKept
<1>. QED  BY <1>1, <1>2, <1>3, <1>4

LEMMA EraseStep ==
    ASSUME SignalInv, NEW n \in Connected, Erase(n),
           UNCHANGED <<combiner, order, stack, value, seen>>,
           pos' \in [Cookies -> Positions \cup {None}]
    PROVE  SignalInv'
<1> USE DEF SignalInv
<1>1. /\ children' \in Seq(Nodes)
      /\ Connected' = Connected \ {n} /\ ListInv'
    BY EraseFacts
<1>2. Known' = Known /\ \A m \in Known : Age(m)' = Age(m)
    BY DEF Known, Age
<1>3. TypeOK'
    BY <1>1, <1>2 DEF TypeOK
<1>4. WalkInv'
    BY <1>1, <1>2, WalksKept
<1>5. ValueInv'
    <2>1. Connected \subseteq Nodes
        BY DEF TypeOK, Connected
    <2>. QED  BY <1>1, <1>2, <2>1, ValuesKept
<1>. QED  BY <1>1, <1>3, <1>4, <1>5

\* A step that leaves the list alone, and at most forgets what was seen.
LEMMA QuietStep ==
    ASSUME SignalInv, UNCHANGED <<combiner, children, order, stack, value>>,
           pos' \in [Cookies -> Positions \cup {None}],
           seen' \in [Nodes -> Values \cup {None}],
           \A n \in Nodes : seen'[n] \in {seen[n], None}
    PROVE  SignalInv'
<1> USE DEF SignalInv
<1>1. /\ Connected' = Connected /\ Known' = Known /\ \A m \in Known : Age(m)' = Age(m)
      /\ Connected \subseteq Nodes
    BY DEF Known, Connected, Age, TypeOK
<1>2. TypeOK' /\ ListInv'
    BY <1>1 DEF TypeOK, ListInv, Age
<1>3. WalkInv'
    BY <1>1, WalksKept
<1>4. ValueInv'
    BY <1>1, ValuesKept
<1>. QED  BY <1>2, <1>3, <1>4

LEMMA ClearStep ==
    ASSUME SignalInv, Clear
    PROVE  SignalInv'
<1> USE DEF SignalInv, Clear
<1>1. Len(children') = 0 /\ children' \in Seq(Nodes)
    OBVIOUS
<1>2. Connected' = {} /\ Known' = Known /\ \A n \in Known : Age(n)' = Age(n)
    BY <1>1 DEF Connected, Known, Age
<1>3. TypeOK' /\ ListInv'
    BY <1>1, <1>2 DEF TypeOK, ListInv, Age
<1>4. WalkInv'
    BY <1>2, WalksKept
<1>5. ValueInv'
    BY <1>2 DEF ValueInv
<1>. QED  BY <1>3, <1>4, <1>5

-----------------------------------------------------------------------------
(* What the emissions do.                                                  *)

\* The iterator after n is the next connected node by age, or end.
LEMMA NextFacts ==
    ASSUME TypeOK, ListInv, NEW n \in Connected
    PROVE  /\ Next1(n) \in Connected \cup {End}
           /\ Next1(n) # End => Age(n) < Age(Next1(n))
           /\ \A k \in Connected :
                 Age(n) < Age(k) => Next1(n) # End /\ Age(Next1(n)) <= Age(k)
<1> DEFINE i == Place(n)
<1>1. /\ Len(children) \in Nat /\ i \in 1..Len(children) /\ children[i] = n
      /\ End \notin Connected /\ Connected \subseteq Known
      /\ \A k \in Connected : Place(k) \in 1..Len(children) /\ children[Place(k)] = k
      /\ \A k \in Known : Age(k) \in Int
    BY ListFacts, SignalAssumption DEF TypeOK, Connected
<1>2. Next1(n) = IF i = Len(children) THEN End ELSE children[i + 1]
    BY DEF Next1
<1> HIDE DEF i
<1>3. ASSUME i # Len(children)
      PROVE  i + 1 \in 1..Len(children) /\ Next1(n) = children[i + 1] /\ Next1(n) \in Connected
    BY <1>1, <1>2, <1>3 DEF Connected
<1>4. Next1(n) # End => Age(n) < Age(Next1(n))
    BY <1>1, <1>2, <1>3 DEF ListInv
<1>5. ASSUME NEW k \in Connected, Age(n) < Age(k)
      PROVE  Next1(n) # End /\ Age(Next1(n)) <= Age(k)
    <2>1. i < Place(k)
        <3>1. ~(Place(k) <= i)
            BY <1>1, <1>5, ListFacts DEF i
        <3>. QED  BY <1>1, <3>1
    <2>2. i # Len(children) /\ i + 1 <= Place(k)
        BY <1>1, <2>1
    <2>3. i + 1 = Place(k) \/ i + 1 < Place(k)
        BY <1>1, <2>2
    <2>4. Age(children[i + 1]) <= Age(children[Place(k)])
        BY <1>1, <1>3, <2>2, <2>3 DEF ListInv
    <2>. QED  BY <1>1, <1>3, <2>2, <2>4
<1>. QED  BY <1>2, <1>3, <1>4, <1>5

\* A frame alone says nothing that a step of another part could change.
LEMMA FrameSame ==
    ASSUME NEW f, FrameInv(f), UNCHANGED <<combiner, children, order>>
    PROVE  FrameInv(f)'
BY DEF FrameInv, Called, Ahead, Decides, Age, Connected, Known

\* A step that replaces the innermost walk keeps all the others.
LEMMA TopStep ==
    ASSUME TypeOK, WalkInv, stack # <<>>, NEW f \in Frames, SetTop(f), FrameInv(f),
           UNCHANGED <<combiner, children, order>>
    PROVE  /\ stack' \in Seq(Frames) /\ Len(stack') = Len(stack)
           /\ stack' # <<>> /\ Top' = f /\ WalkInv'
<1>1. /\ stack \in Seq(Frames) /\ Len(stack) \in Nat /\ Len(stack) \in 1..Len(stack)
    BY TopFacts DEF TypeOK
<1>2. /\ stack' \in Seq(Frames) /\ Len(stack') = Len(stack)
      /\ \A i \in 1..Len(stack) : stack'[i] = IF i = Len(stack) THEN f ELSE stack[i]
    BY <1>1 DEF SetTop
<1>3. stack' # <<>> /\ Top' = f
    BY <1>1, <1>2 DEF Top
<1>4. ASSUME NEW i \in 1..Len(stack')
      PROVE  FrameInv(stack[i])'
    <2>1. PICK g : g = stack'[i]
        OBVIOUS
    <2>2. FrameInv(g)
        BY <1>2, <2>1 DEF WalkInv
    <2>3. FrameInv(g)'
        BY <2>2, FrameSame
    <2>. QED  BY <2>1, <2>3 DEF FrameInv, Called, Ahead, Decides
<1>. QED  BY <1>2, <1>3, <1>4 DEF WalkInv

LEMMA ReturnStep ==
    ASSUME SignalInv, NEW vote \in BOOLEAN, Return(vote)
    PROVE  SignalInv'
<1> USE DEF SignalInv, Return
<1> DEFINE f == [Top EXCEPT !.cur = None, !.votes = Append(@, vote)]
<1>1. /\ f \in Frames /\ f.next = Top.next /\ f.cur = None /\ f.called = Top.called
      /\ f.votes = Append(Top.votes, vote) /\ f.start = Top.start
    <2>1. Append(Top.votes, vote) \in Seq(BOOLEAN)
        BY TopFacts
    <2>2. Top \in Frames
        BY TopFacts
    <2>. QED  BY <2>1, <2>2 DEF Frames
<1>2. FrameInv(Top) /\ Top.votes \in Seq(BOOLEAN)
    BY TopFacts DEF WalkInv, Top
<1>3. SetTop(f)
    OBVIOUS
<1> HIDE DEF f
<1>4. \A i \in 1..Len(f.votes) : Decides(f.votes, i) => i = Len(f.votes)
    BY <1>1, <1>2 DEF FrameInv, Decides
<1>5. FrameInv(f)
    BY <1>1, <1>2, <1>4 DEF FrameInv, Called, Ahead
<1>6. /\ stack' \in Seq(Frames) /\ Len(stack') = Len(stack)
      /\ stack' # <<>> /\ Top' = f /\ WalkInv'
    BY <1>1, <1>3, <1>5, TopStep
<1>7. Connected' = Connected /\ Known' = Known
    BY DEF Connected, Known
<1>8. TypeOK' /\ ListInv'
    BY <1>6, <1>7 DEF TypeOK, ListInv, Age
<1>9. ValueInv'
    BY <1>1, <1>6, <1>7 DEF ValueInv, Ahead, Age
<1>. QED  BY <1>6, <1>8, <1>9

LEMMA CallNextStep ==
    ASSUME SignalInv, CallNext
    PROVE  SignalInv'
<1> USE DEF SignalInv, CallNext
<1> DEFINE n == Top.next
           f == [Top EXCEPT !.cur = n, !.next = Next1(n), !.called = Append(Top.called, n)]
<1>1. /\ stack # <<>> /\ Top \in Frames /\ n \in Connected /\ n \in Nodes /\ n \in Known
      /\ n # None /\ n # End /\ Connected \subseteq Known /\ Connected \subseteq Nodes
      /\ Top.called \in Seq(Nodes) /\ FrameInv(Top) /\ Top.votes \in Seq(BOOLEAN)
    BY TopFacts, SignalAssumption DEF TypeOK, WalkInv, Top, Connected
<1>2. \A k \in Known : Age(k) \in Int
    BY ListFacts
<1>3. /\ Next1(n) \in Connected \cup {End}
      /\ Next1(n) # End => Age(n) < Age(Next1(n))
      /\ \A k \in Connected :
                 Age(n) < Age(k) => Next1(n) # End /\ Age(Next1(n)) <= Age(k)
    BY <1>1, NextFacts
<1>4. /\ f \in Frames /\ f.next = Next1(n) /\ f.cur = n
      /\ f.called = Append(Top.called, n) /\ f.votes = Top.votes /\ f.start = Top.start
    <2>1. Append(Top.called, n) \in Seq(Nodes) /\ Next1(n) \in Positions
        BY <1>1, <1>3 DEF Positions
    <2>. QED  BY <1>1, <2>1 DEF Frames
<1>5. SetTop(f) /\ seen' = [seen EXCEPT ![n] = value]
    OBVIOUS
<1>6. Top.cur = None /\ GoesOn(Top.votes)
    OBVIOUS
<1> HIDE DEF n, f
<1>7. FrameInv(f)
    <2>1. /\ Len(f.called) = Len(Top.called) + 1 /\ Len(Top.called) \in Nat
          /\ \A x \in 1..Len(Top.called) : f.called[x] = Top.called[x]
          /\ f.called[Len(Top.called) + 1] = n
        BY <1>1, <1>4
    <2>2. Called(f) = Called(Top) \cup {n}
        BY <2>1 DEF Called
    <2>3. \A k \in Called(Top) : Age(k) < Age(n) /\ k \in Known
        BY <1>1 DEF FrameInv, n
    <2>4. \A x, y \in 1..Len(f.called) : x < y => Age(f.called[x]) < Age(f.called[y])
        <3> SUFFICES ASSUME NEW x \in 1..Len(f.called), NEW y \in 1..Len(f.called), x < y
                     PROVE  Age(f.called[x]) < Age(f.called[y])
            OBVIOUS
        <3>1. x \in 1..Len(Top.called) /\ f.called[x] = Top.called[x]
            BY <2>1
        <3>2. CASE y \in 1..Len(Top.called)
            BY <1>1, <2>1, <3>1, <3>2 DEF FrameInv
        <3>3. CASE y = Len(Top.called) + 1
            BY <2>1, <2>3, <3>1, <3>3 DEF Called
        <3>. QED  BY <2>1, <3>2, <3>3
    <2>5. \A k \in Called(f) : f.next # End => Age(k) < Age(f.next)
        <3> SUFFICES ASSUME NEW k \in Called(f), f.next # End
                     PROVE  Age(k) < Age(f.next)
            OBVIOUS
        <3>1. f.next \in Known /\ Age(n) < Age(f.next)
            BY <1>1, <1>3, <1>4
        <3>. QED  BY <1>1, <1>2, <2>2, <2>3, <3>1
    <2>6. \A k \in f.start \cap Connected : k \in Called(f) \/ Ahead(f, k)
        <3> SUFFICES ASSUME NEW k \in f.start \cap Connected, k \notin Called(f)
                     PROVE  Ahead(f, k)
            OBVIOUS
        <3>1. Ahead(Top, k) /\ k # n
            BY <1>1, <1>4, <2>2 DEF FrameInv
        <3>2. Age(n) <= Age(k) /\ Age(n) # Age(k)
            BY <1>1, <3>1, ListFacts DEF Ahead, n
        <3>3. Age(n) < Age(k)
            BY <1>1, <1>2, <3>2
        <3>. QED  BY <1>3, <1>4, <3>3 DEF Ahead
    <2>7. \A i \in 1..Len(f.votes) : ~Decides(f.votes, i)
        BY <1>1, <1>4, <1>6 DEF FrameInv, Decides, GoesOn
    <2>. QED  BY <1>1, <1>3, <1>4, <2>2, <2>3, <2>4, <2>5, <2>6, <2>7 DEF FrameInv
<1>8. /\ stack' \in Seq(Frames) /\ Len(stack') = Len(stack)
      /\ stack' # <<>> /\ Top' = f /\ WalkInv'
    BY <1>1, <1>4, <1>5, <1>7, TopStep
<1>9. Connected' = Connected /\ Known' = Known
    BY DEF Connected, Known
<1>10. TypeOK' /\ ListInv'
    BY <1>1, <1>5, <1>8, <1>9 DEF TypeOK, ListInv, Age
<1>11. ValueInv'
    <2>1. \A k \in Nodes \ Known : seen'[k] = None
        BY <1>1, <1>5 DEF ValueInv, TypeOK
    <2>2. ASSUME combiner = "noop", NEW k \in Connected
          PROVE  seen'[k] \in {None, value} \/ Ahead(f, k)
        <3>1. CASE k = n
            BY <1>1, <1>5, <3>1 DEF TypeOK
        <3>2. CASE k # n /\ seen[k] \in {None, value}
            BY <1>1, <1>5, <3>2 DEF TypeOK
        <3>3. CASE k # n /\ Ahead(Top, k)
            <4>1. Age(n) <= Age(k) /\ Age(n) # Age(k)
                BY <1>1, <3>3, ListFacts DEF Ahead, n
            <4>2. Age(n) < Age(k)
                BY <1>1, <1>2, <4>1
            <4>. QED  BY <1>3, <1>4, <4>2 DEF Ahead
        <3>. QED  BY <2>2, <3>1, <3>2, <3>3 DEF ValueInv
    <2>. QED  BY <1>8, <1>9, <2>1, <2>2 DEF ValueInv, Ahead, Age
<1>. QED  BY <1>8, <1>10, <1>11

\* A new emission starts at the oldest connected node.
LEMMA AssignStep ==
    ASSUME SignalInv, NEW v \in Values, Assign(v)
    PROVE  SignalInv'
<1> USE DEF SignalInv, Assign
<1>1. /\ Connected' = Connected /\ Known' = Known /\ Connected \subseteq Known
      /\ Connected \subseteq Nodes /\ Len(children) \in Nat /\ children \in Seq(Nodes)
      /\ stack \in Seq(Frames) /\ Len(stack) \in Nat
      /\ \A k \in Known : Age(k) \in Int
    <2>1. \A k \in Known : Age(k) \in Int
        BY ListFacts
    <2>2. Connected' = Connected /\ Known' = Known
        BY DEF Connected, Known
    <2>3. children \in Seq(Nodes) /\ stack \in Seq(Frames) /\ Connected \subseteq Known
        BY DEF TypeOK
    <2>4. Connected \subseteq Nodes
        BY <2>3 DEF Connected
    <2>. QED  BY <2>1, <2>2, <2>3, <2>4
<1>2. CASE children = <<>>
    <2>1. Connected = {} /\ stack' = stack
        BY <1>2 DEF Connected
    <2>2. TypeOK' /\ ListInv'
        BY <1>1, <2>1 DEF TypeOK, ListInv, Age
    <2>3. WalkInv'
        BY <1>1, <2>1, WalksKept DEF WalkInv, FrameInv, Age
    <2>4. ValueInv'
        BY <1>1, <2>1 DEF ValueInv
    <2>. QED  BY <2>2, <2>3, <2>4
<1>3. CASE children # <<>>
    <2> DEFINE f == [next |-> Head(children), cur |-> None, called |-> <<>>,
                     votes |-> <<>>, start |-> Connected, arg |-> v]
    <2>1. stack' = Append(stack, f)
        BY <1>3
    <2>2. /\ Len(children) # 0 /\ 1 \in 1..Len(children)
          /\ f.next = children[1] /\ f.next \in Connected /\ f.next # End
        BY <1>1, <1>3, SignalAssumption DEF Connected
    <2>3. f \in Frames
        BY <1>1, <2>2 DEF Frames, Positions
    <2>4. /\ f.called = <<>> /\ f.votes = <<>> /\ f.cur = None /\ f.start = Connected
        OBVIOUS
    <2> HIDE DEF f
    <2>5. \A k \in Connected : Ahead(f, k)
        <3> SUFFICES ASSUME NEW j \in 1..Len(children)
                     PROVE  Age(children[1]) <= Age(children[j])
            BY <2>2 DEF Connected, Ahead
        <3>1. children[1] \in Known /\ (j = 1 \/ 1 < j)
            BY <1>1, <2>2
        <3>2. 1 < j => Age(children[1]) < Age(children[j])
            BY <2>2 DEF ListInv
        <3>3. Age(children[1]) \in Int /\ Age(children[j]) \in Int
            BY <1>1, <2>2 DEF Connected
        <3>. QED  BY <3>1, <3>2, <3>3
    <2>6. FrameInv(f)
        BY <1>1, <2>2, <2>4, <2>5 DEF FrameInv, Called
    <2>7. /\ stack' \in Seq(Frames) /\ Len(stack') = Len(stack) + 1 /\ stack' # <<>>
          /\ Top' = f
          /\ \A i \in 1..Len(stack') : stack'[i] = IF i = Len(stack) + 1 THEN f ELSE stack[i]
        BY <1>1, <2>1, <2>3 DEF Top
    <2>8. WalkInv'
        <3> SUFFICES ASSUME NEW i \in 1..Len(stack') PROVE FrameInv(stack[i])'
            BY DEF WalkInv
        <3>1. PICK g : g = stack'[i]
            OBVIOUS
        <3>2. FrameInv(g)
            BY <1>1, <2>6, <2>7, <3>1 DEF WalkInv
        <3>3. FrameInv(g)'
            BY <3>2, FrameSame
        <3>. QED  BY ONLY <3>1, <3>3 DEF FrameInv, Called, Ahead, Decides
    <2>9. TypeOK' /\ ListInv'
        BY <1>1, <2>7, SignalAssumption DEF TypeOK, ListInv, Age
    <2>10. ValueInv'
        BY <1>1, <2>5, <2>7 DEF ValueInv, Ahead, Age
    <2>. QED  BY <2>8, <2>9, <2>10
<1>. QED  BY <1>2, <1>3

LEMMA PopFacts ==
    ASSUME NEW S, NEW s \in Seq(S), s # <<>>
    PROVE  LET t == SubSeq(s, 1, Len(s) - 1) IN
           /\ t \in Seq(S) /\ Len(t) = Len(s) - 1
           /\ \A i \in 1..Len(t) : t[i] = s[i]
<1>1. Len(s) \in Nat /\ Len(s) # 0 /\ \A i \in 1..(Len(s) - 1) : s[i] \in S
    OBVIOUS
<1>2. Len(s) - 1 \in Int /\ (1 <= Len(s) - 1 \/ Len(s) - 1 = 0)
    <2> SUFFICES ASSUME NEW n \in Nat, n # 0
                 PROVE  n - 1 \in Int /\ (1 <= n - 1 \/ n - 1 = 0)
        BY <1>1
    <2>. QED  OBVIOUS
<1>3. /\ SubSeq(s, 1, Len(s) - 1) \in Seq(S)
      /\ Len(SubSeq(s, 1, Len(s) - 1)) = Len(s) - 1
    BY <1>1, <1>2, SubSeqProperties
<1>4. \A i \in 1..(Len(s) - 1 - 1 + 1) : SubSeq(s, 1, Len(s) - 1)[i] = s[1 + i - 1]
    BY <1>1, <1>2, SubSeqProperties
<1>5. Len(s) - 1 - 1 + 1 = Len(s) - 1 /\ \A i \in 1..(Len(s) - 1) : 1 + i - 1 = i
    BY <1>1
<1>. QED  BY <1>3, <1>4, <1>5

\* A walk that a vote did not stop ends at end: it leaves no listener behind.
LEMMA FinishStep ==
    ASSUME SignalInv, Finish
    PROVE  SignalInv'
<1> USE DEF SignalInv, Finish
<1>1. /\ Connected' = Connected /\ Known' = Known
      /\ stack \in Seq(Frames) /\ Len(stack) \in Nat /\ Len(stack) # 0
    BY DEF Connected, Known, TypeOK
<1>2. /\ stack' \in Seq(Frames) /\ Len(stack') = Len(stack) - 1
      /\ \A i \in 1..Len(stack') : stack'[i] = stack[i]
    BY <1>1, PopFacts
<1>3. TypeOK' /\ ListInv'
    BY <1>1, <1>2, SignalAssumption DEF TypeOK, ListInv, Age
<1>4. WalkInv'
    <2> SUFFICES ASSUME NEW i \in 1..Len(stack') PROVE FrameInv(stack[i])'
        BY DEF WalkInv
    <2>1. PICK g : g = stack'[i]
        OBVIOUS
    <2>2. FrameInv(g)
        BY <1>1, <1>2, <2>1 DEF WalkInv
    <2>3. FrameInv(g)'
        BY <2>2, FrameSame
    <2>. QED  BY ONLY <2>1, <2>3 DEF FrameInv, Called, Ahead, Decides
<1>5. ValueInv'
    <2>1. combiner = "noop" => ~Ahead(Top, None) /\ Top.next = End
        BY DEF GoesOn, Ahead
    <2>. QED  BY <1>1, <2>1 DEF ValueInv, Ahead
<1>. QED  BY <1>3, <1>4, <1>5

LEMMA InitSignal == Init => SignalInv
<1> SUFFICES ASSUME Init PROVE SignalInv
    OBVIOUS
<1>1. Len(children) = 0 /\ Len(order) = 0 /\ Len(stack) = 0
    BY DEF Init
<1>2. Connected = {} /\ Known = {}
    BY <1>1 DEF Connected, Known
<1>3. TypeOK
    BY <1>1, <1>2, SignalAssumption DEF Init, TypeOK
<1>. QED  BY <1>1, <1>2, <1>3 DEF Init, SignalInv, ListInv, WalkInv, ValueInv

LEMMA NextStep == SignalInv /\ [Next]_vars => SignalInv'
<1> SUFFICES ASSUME SignalInv, [Next]_vars PROVE SignalInv'
    OBVIOUS
<1>1. /\ pos \in [Cookies -> Positions \cup {None}]
      /\ seen \in [Nodes -> Values \cup {None}]
    BY DEF SignalInv, TypeOK
<1>2. ASSUME NEW c \in Cookies, Disconnect(c) PROVE SignalInv'
    BY <1>1, <1>2, EraseStep DEF Disconnect, Positions
<1>3. ASSUME NEW c \in Cookies, CookieDestroy(c) PROVE SignalInv'
    <2>1. pos' \in [Cookies -> Positions \cup {None}]
        BY <1>1, <1>3 DEF CookieDestroy
    <2>2. CASE UNCHANGED children
        BY <1>1, <1>3, <2>1, <2>2, QuietStep DEF CookieDestroy
    <2>3. CASE pos[c] \in Connected /\ Erase(pos[c])
        BY <1>3, <2>1, <2>3, EraseStep DEF CookieDestroy
    <2>. QED  BY <1>3, <2>2, <2>3 DEF CookieDestroy
<1>4. ASSUME NEW c \in Cookies, CookieReset(c) PROVE SignalInv'
    BY <1>1, <1>4, QuietStep DEF CookieReset
<1>5. ASSUME NEW c \in Cookies, NEW n \in Nodes, Connect(c, n) PROVE SignalInv'
    BY <1>5, ConnectStep
<1>6. ASSUME NEW c \in Cookies, NEW d \in Cookies, CookieMove(c, d) PROVE SignalInv'
    BY <1>1, <1>6, QuietStep DEF CookieMove, Positions
<1>7. ASSUME Clear PROVE SignalInv'
    BY <1>7, ClearStep
<1>8. ASSUME NEW v \in Values, Assign(v) PROVE SignalInv'
    BY <1>8, AssignStep
<1>9. ASSUME CallNext PROVE SignalInv'
    BY <1>9, CallNextStep
<1>10. ASSUME NEW vote \in (IF combiner = "noop" THEN {TRUE} ELSE BOOLEAN), Return(vote)
       PROVE  SignalInv'
    BY <1>10, ReturnStep
<1>11. ASSUME Finish PROVE SignalInv'
    BY <1>11, FinishStep
<1>12. ASSUME UNCHANGED vars PROVE SignalInv'
    BY <1>1, <1>12, QuietStep DEF vars
<1>. QED  BY <1>2, <1>3, <1>4, <1>5, <1>6, <1>7, <1>8, <1>9, <1>10, <1>11, <1>12 DEF Next

LEMMA SignalInvariant == Spec => []SignalInv
BY InitSignal, NextStep, PTL DEF Spec

-----------------------------------------------------------------------------
(* What the invariant says.                                                *)

\* The variables keep their types, and what is connected was connected once.
THEOREM TypeCorrect == Spec => []TypeOK
BY SignalInvariant, PTL DEF SignalInv

LEMMA InvWalks == SignalInv => WalksSound
<1> SUFFICES ASSUME SignalInv PROVE WalksSound
    OBVIOUS
<1> USE DEF SignalInv
<1>1. WalksValid
    <2> SUFFICES ASSUME NEW i \in 1..Len(stack), NEW f, f = stack[i], f.next # End,
                        NEW j \in 1..Len(f.called), f.called[j] = f.next
                 PROVE  FALSE
        BY DEF WalksValid
    <2>1. f.next \in Called(f) /\ FrameInv(f)
        BY DEF Called, WalkInv
    <2>2. f.next \in Known /\ Age(f.next) < Age(f.next)
        BY <2>1 DEF FrameInv
    <2>3. Age(f.next) \in Int
        BY <2>2, ListFacts
    <2>. QED  BY <2>2, <2>3
<1>2. ASSUME NEW i \in 1..Len(stack), NEW x \in 1..Len(stack[i].called)
      PROVE  /\ stack[i].called[x] \in Known
             /\ Age(stack[i].called[x]) \in 1..Len(order)
             /\ order[Age(stack[i].called[x])] = stack[i].called[x]
    BY ListFacts DEF WalkInv, FrameInv, Called
<1>3. CallsInOrder
    <2> SUFFICES ASSUME NEW i \in 1..Len(stack),
                        NEW x \in 1..Len(stack[i].called),
                        NEW y \in 1..Len(stack[i].called), x < y
                 PROVE  Age(stack[i].called[x]) < Age(stack[i].called[y])
        BY <1>2 DEF CallsInOrder
    <2>. QED  BY DEF WalkInv, FrameInv
<1>4. WalkIsComplete
    <2> SUFFICES ASSUME NEW i \in 1..Len(stack), NEW f, f = stack[i]
                 PROVE  /\ \A j, k \in 1..Len(f.called) : f.called[j] = f.called[k] => j = k
                        /\ \A n \in f.start \cap Connected :
                              \/ \E j \in 1..Len(f.called) : f.called[j] = n
                              \/ /\ f.next # End
                                 /\ f.next \in Connected =>
                                       \E j, k \in 1..Len(children) :
                                           j <= k /\ children[j] = f.next /\ children[k] = n
        BY DEF WalkIsComplete
    <2>1. FrameInv(f)
        BY DEF WalkInv
    <2>2. ASSUME NEW j \in 1..Len(f.called), NEW k \in 1..Len(f.called),
                 f.called[j] = f.called[k]
          PROVE  j = k
        <3>1. Age(f.called[j]) \in Int /\ ~(j < k) /\ ~(k < j)
            BY <1>2, <2>1, <2>2 DEF FrameInv
        <3>. QED  BY <3>1
    <2>3. ASSUME NEW n \in f.start \cap Connected,
                 ~ \E j \in 1..Len(f.called) : f.called[j] = n
          PROVE  f.next # End /\ (f.next \in Connected => Place(f.next) <= Place(n))
        <3>1. f.next # End /\ Age(f.next) <= Age(n)
            BY <2>1, <2>3 DEF FrameInv, Called, Ahead
        <3>. QED  BY <3>1, ListFacts
    <2>4. \A n \in Connected : Place(n) \in 1..Len(children) /\ children[Place(n)] = n
        BY ListFacts
    <2>. QED  BY <2>2, <2>3, <2>4
<1>. QED  BY <1>1, <1>3, <1>4 DEF WalksSound

\* While callbacks connect, erase, clear and emit again, the iterator of every
\* walk stays valid unless the very listener it was to call next is erased, and
\* each walk calls the listeners in the order they were connected, each once,
\* skipping none.
THEOREM WalksAreSound == Spec => []WalksSound
BY SignalInvariant, InvWalks, PTL

LEMMA InvCurrent == SignalInv => ListenersCurrent
BY DEF SignalInv, ValueInv, ListenersCurrent

\* When the outermost assignment returns no listener holds an older value,
\* however deeply the listeners assigned again.
THEOREM ListenersAreCurrent == Spec => []ListenersCurrent
BY SignalInvariant, InvCurrent, PTL

LEMMA FinishOutcome ==
    ASSUME SignalInv, Finish
    PROVE  LET v == Top.votes
               Says(i) == combiner # "noop" /\ v[i] # (combiner = "and")
           IN  /\ \A i \in 1..Len(v) : Says(i) => i = Len(v)
               /\ \/ \E i \in 1..Len(v) : Says(i)
                  \/ \A n \in Top.start \cap Connected :
                         \E j \in 1..Len(Top.called) : Top.called[j] = n
<1>1. FrameInv(Top) /\ Top.votes \in Seq(BOOLEAN)
    BY TopFacts DEF SignalInv, WalkInv, Top, Finish
<1>2. CASE GoesOn(Top.votes)
    <2>1. Top.next = End
        BY <1>2 DEF Finish
    <2>. QED  BY <1>1, <2>1 DEF FrameInv, Called, Ahead, Decides
<1>3. CASE ~GoesOn(Top.votes)
    <2>1. Len(Top.votes) \in 1..Len(Top.votes) /\ Decides(Top.votes, Len(Top.votes))
        BY <1>1, <1>3 DEF GoesOn, Decides
    <2>. QED  BY <1>1, <2>1 DEF FrameInv, Decides
<1>. QED  BY <1>2, <1>3

\* A walk ends because its last vote decided, or because every callback that
\* was connected throughout has been called.
THEOREM WalkOutcomes == Spec => WalkOutcome
<1>1. SignalInv /\ [Next]_vars =>
        [Finish =>
            LET v == Top.votes
                Decides_(i) == combiner # "noop" /\ v[i] # (combiner = "and")
            IN  /\ \A i \in 1..Len(v) : Decides_(i) => i = Len(v)
                /\ \/ \E i \in 1..Len(v) : Decides_(i)
                   \/ \A n \in Top.start \cap Connected :
                          \E j \in 1..Len(Top.called) : Top.called[j] = n]_vars
    BY FinishOutcome
<1>. QED  BY <1>1, SignalInvariant, PTL DEF Spec, WalkOutcome

-----------------------------------------------------------------------------
(* The cookies.  They are all that clear () does not know, so this is      *)
(* proved of programs that clear a signal only when no cookie owns a node. *)

LEMMA CookieStep ==
    ASSUME ~ClearOwned, SignalInv, CookieInv, [Next]_vars
    PROVE  CookieInv'
<1> USE DEF SignalInv
<1>1. /\ pos \in [Cookies -> Positions \cup {None}] /\ None \notin Nodes /\ End \notin Nodes
      /\ End # None /\ Connected \subseteq Nodes /\ Connected \subseteq Known
    BY SignalAssumption DEF TypeOK, Connected
<1>2. ASSUME NEW c \in Cookies, pos[c] \in Connected, Erase(pos[c]), order' = order,
             pos' = [pos EXCEPT ![c] = End] \/ pos' = [pos EXCEPT ![c] = None]
      PROVE  CookieInv'
    <2>1. Connected' = Connected \ {pos[c]}
        BY <1>2, EraseFacts
    <2>. QED  BY <1>1, <1>2, <2>1 DEF CookieInv
<1>3. ASSUME NEW c \in Cookies, Disconnect(c) PROVE CookieInv'
    BY <1>2, <1>3 DEF Disconnect
<1>4. ASSUME NEW c \in Cookies, CookieDestroy(c) PROVE CookieInv'
    <2>1. CASE pos[c] = End /\ UNCHANGED children
        BY <1>1, <1>4, <2>1 DEF CookieDestroy, CookieInv, Connected
    <2>2. CASE pos[c] \in Connected /\ Erase(pos[c])
        BY <1>2, <1>4, <2>2 DEF CookieDestroy
    <2>. QED  BY <1>4, <2>1, <2>2 DEF CookieDestroy
<1>5. ASSUME NEW c \in Cookies, NEW n \in Nodes, Connect(c, n) PROVE CookieInv'
    <2>1. Connected' = Connected \cup {n} /\ n \notin Connected
        BY <1>1, <1>5, AppendFacts DEF Connect
    <2>2. pos[c] = None /\ pos' = [pos EXCEPT ![c] = n]
        BY <1>5 DEF Connect
    <2>3. \A d \in Cookies : pos'[d] = IF d = c THEN n ELSE pos[d]
        BY <1>1, <2>2
    <2>4. \A d \in Cookies : pos[d] # n
        BY <1>1, <2>1 DEF CookieInv
    <2>5. \A m \in Connected : \E d \in Cookies : pos'[d] = m
        BY <1>1, <2>2, <2>3 DEF CookieInv
    <2>. QED  BY <1>1, <2>1, <2>3, <2>4, <2>5 DEF CookieInv
<1>6. ASSUME NEW c \in Cookies, NEW d \in Cookies, CookieMove(c, d) PROVE CookieInv'
    <2>1. /\ c # d /\ pos[c] # None /\ pos[d] = None /\ Connected' = Connected
          /\ \A e \in Cookies : pos'[e] = IF e = c THEN End ELSE IF e = d THEN pos[c] ELSE pos[e]
        BY <1>1, <1>6 DEF CookieMove, Connected
    <2>2. \A m \in Connected : \E e \in Cookies : pos'[e] = m
        <3> SUFFICES ASSUME NEW m \in Connected PROVE \E e \in Cookies : pos'[e] = m
            OBVIOUS
        <3>1. PICK e \in Cookies : pos[e] = m
            BY DEF CookieInv
        <3>2. e # d
            BY <1>1, <2>1, <3>1
        <3>. QED  BY <2>1, <3>1, <3>2
    <2>. QED  BY <1>1, <2>1, <2>2 DEF CookieInv
<1>7. ASSUME Clear PROVE CookieInv'
    <2>1. Connected' = {} /\ pos' = pos
        BY <1>7 DEF Clear, Connected
    <2>2. \A c \in Cookies : pos[c] \in {End, None}
        BY <1>7 DEF Clear
    <2>. QED  BY <1>1, <2>1, <2>2 DEF CookieInv
<1>8. ASSUME UNCHANGED <<children, pos>> PROVE CookieInv'
    BY <1>8 DEF CookieInv, Connected
<1>. QED  BY <1>3, <1>4, <1>5, <1>6, <1>7, <1>8
          DEF Next, CookieReset, Assign, CallNext, Return, Finish, vars

LEMMA CookieMeaning ==
    ASSUME SignalInv, CookieInv
    PROVE  CookiesValid
<1> SUFFICES ASSUME NEW n \in Connected
             PROVE  Cardinality({c \in Cookies : pos[c] = n}) = 1
    BY DEF CookieInv, CookiesValid
<1>1. n \in Nodes
    BY DEF SignalInv, TypeOK, Connected
<1>2. PICK c \in Cookies : pos[c] = n
    BY DEF CookieInv
<1>3. {d \in Cookies : pos[d] = n} = {c}
    BY <1>1, <1>2 DEF CookieInv
<1>. QED  BY <1>3, FS_Singleton

\* Where clear () is called only with no cookie left to own a node, a cookie
\* never points to an erased node and every node has exactly one cookie: the
\* destructor of a cookie erases what exists, once.
THEOREM CookiesAreValid ==
    ASSUME ~ClearOwned
    PROVE  Spec => []CookiesValid
<1>1. Init => CookieInv
    <2> SUFFICES ASSUME Init PROVE CookieInv
        OBVIOUS
    <2>1. Connected = {} /\ pos = [c \in Cookies |-> None]
        BY DEF Init, Connected
    <2>. QED  BY <2>1, SignalAssumption DEF CookieInv
<1>2. SignalInv /\ CookieInv /\ [Next]_vars => CookieInv'
    BY CookieStep
<1>3. SignalInv /\ CookieInv => CookiesValid
    BY CookieMeaning
<1>. QED  BY <1>1, <1>2, <1>3, SignalInvariant, PTL DEF Spec
=============================================================================
