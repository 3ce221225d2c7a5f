--------------------------- MODULE AllocatorProofs ---------------------------
(***************************************************************************)
(* Proofs about the allocators of one segment - the stack, the arena on    *)
(* top of it, and linear - for every segment, header size and set of       *)
(* requests that cannot wrap around the address space; and about the pool  *)
(* of objects of one type.                                                 *)
(*                                                                         *)
(* The safety properties the runs check of the stack allocator need each   *)
(* other: their conjunction StackInv is inductive, and none of them is on  *)
(* its own.  A header is safe because blocks are disjoint, blocks stay     *)
(* disjoint because the cursor is exact, and the cursor is exact because   *)
(* the header is safe.  All of it holds of clients that free newest first; *)
(* that the arena is such a client follows from the order of its calls.    *)
(***************************************************************************)
EXTENDS Allocators, Pool, SequenceTheorems, FiniteSetTheorems

\* No request wraps.
NoWrap ==
    \A n \in Sizes, a \in Alignments :
        End + Header + Max2(Header, a) + n < Space

\* An alignment below the header size divides it, as powers of two do.
HeaderDivides == \A a \in Alignments : a <= Header => Header % a = 0

StackInv == TypeOK /\ BlocksDisjoint /\ HeadersIntact /\ CursorExact

-----------------------------------------------------------------------------
(* Where a block goes.                                                     *)

LEMMA AddExact ==
    ASSUME NEW p \in Nat, NEW n \in Nat, p + n < Space
    PROVE  Add(p, n) = p + n
BY StackAssumption, SegmentAssumption DEF Add

LEMMA PlacedFacts ==
    ASSUME TypeOK, NoWrap, NEW n \in Sizes, NEW a \in Alignments
    PROVE  /\ Placed(a) \in Nat
           /\ cursor + Header <= Placed(a)
           /\ Placed(a) < cursor + Header + Max2(Header, a)
           /\ Add(Placed(a), n) = Placed(a) + n
           /\ Placed(a) % Max2(Header, a) = 0
<1> USE StackAssumption, SegmentAssumption
<1>1. /\ cursor \in Nat /\ cursor <= End /\ n \in Nat
      /\ Max2(Header, a) \in Nat \ {0}
      /\ End + Header + Max2(Header, a) + n < Space
    BY DEF TypeOK, NoWrap, Max2
<1>2. Add(cursor, Header) = cursor + Header
    BY <1>1, AddExact
<1>3. /\ Placed(a) \in Nat
      /\ Placed(a) % Max2(Header, a) = 0
      /\ cursor + Header <= Placed(a)
      /\ Placed(a) < cursor + Header + Max2(Header, a)
    <2> DEFINE m == Max2(Header, a)
               c == cursor + Header
    <2>1. Placed(a) = AlignUp(c, m) /\ m \in Nat \ {0} /\ c \in Nat
        BY <1>1, <1>2 DEF Placed
    <2> HIDE DEF m, c
    <2>2. AlignUp(c, m) \in Nat /\ AlignUp(c, m) % m = 0
          /\ c <= AlignUp(c, m) /\ AlignUp(c, m) < c + m
        BY <2>1, AlignUpCorrect
    <2>. QED  BY <2>1, <2>2 DEF m, c
<1>4. Add(Placed(a), n) = Placed(a) + n
    BY <1>1, <1>3, AddExact
<1>. QED  BY <1>3, <1>4

\* What the invariant says of one block.
LEMMA BlockFacts ==
    ASSUME StackInv, NEW i \in 1..Len(blocks)
    PROVE  /\ blocks[i].ptr \in Nat /\ blocks[i].bytes \in Nat /\ blocks[i].base \in Nat
           /\ blocks[i].align \in Alignments /\ blocks[i].bytes \in Sizes
           /\ Begin + Header <= blocks[i].ptr
           /\ Stop(blocks[i]) = blocks[i].ptr + blocks[i].bytes
           /\ Stop(blocks[i]) <= cursor
           /\ blocks[i].ptr - Header \in Addresses
           /\ blocks[i].base + Header <= blocks[i].ptr
<1> USE StackAssumption, SegmentAssumption DEF StackInv
<1>1. blocks[i] \in BlockRecords /\ Len(blocks) \in Nat
    BY DEF TypeOK
<1>2. /\ blocks[i].ptr \in Nat /\ blocks[i].bytes \in Nat /\ blocks[i].base \in Nat
      /\ blocks[i].align \in Alignments /\ blocks[i].bytes \in Sizes
    BY <1>1 DEF BlockRecords
<1>3. Begin + Header <= blocks[i].ptr /\ Stop(blocks[i]) <= End
    BY DEF BlocksDisjoint
<1>4. Stop(blocks[i]) <= cursor
    <2>1. CASE i = Len(blocks)
        BY <1>1, <1>2, <2>1 DEF CursorExact, Stop
    <2>2. CASE i # Len(blocks)
        <3>1. Len(blocks) \in (i + 1)..Len(blocks) /\ Len(blocks) # 0
            BY <1>1, <2>2
        <3>2. Stop(blocks[i]) + Header <= blocks[Len(blocks)].ptr
            BY <3>1 DEF BlocksDisjoint
        <3>3. cursor = Stop(blocks[Len(blocks)])
            BY <3>1 DEF CursorExact
        <3>4. blocks[Len(blocks)] \in BlockRecords
            BY <1>1, <3>1 DEF TypeOK
        <3>5. /\ blocks[Len(blocks)].ptr \in Nat /\ blocks[Len(blocks)].bytes \in Nat
              /\ cursor = blocks[Len(blocks)].ptr + blocks[Len(blocks)].bytes
            BY <3>3, <3>4 DEF Stop, BlockRecords
        <3>6. Stop(blocks[i]) \in Nat
            BY <1>2 DEF Stop
        <3>. QED  BY <3>2, <3>5, <3>6
    <2>. QED  BY <2>1, <2>2
<1>5. blocks[i].base + Header <= blocks[i].ptr
    <2>1. CASE i = 1
        BY <1>3, <2>1 DEF CursorExact
    <2>2. CASE i # 1
        <3>1. i - 1 \in 1..Len(blocks) /\ i \in ((i - 1) + 1)..Len(blocks) /\ i - 1 # 0
            BY <1>1, <2>2
        <3>2. Stop(blocks[i - 1]) + Header <= blocks[i].ptr
            BY <3>1 DEF BlocksDisjoint
        <3>3. blocks[i].base = Stop(blocks[i - 1])
            BY <3>1 DEF CursorExact
        <3>. QED  BY <3>2, <3>3
    <2>. QED  BY <2>1, <2>2
<1>. QED  BY <1>2, <1>3, <1>4, <1>5 DEF Stop, Addresses

-----------------------------------------------------------------------------
LEMMA InitStack == Init => StackInv
<1> USE StackAssumption, SegmentAssumption DEF Init
<1>1. Init => TypeOK
    BY DEF TypeOK, Garbage
<1>. QED  BY <1>1 DEF StackInv, BlocksDisjoint, HeadersIntact, CursorExact

LEMMA AllocateStep ==
    ASSUME StackInv, NoWrap, NEW n \in Sizes, NEW a \in Alignments, Allocate(n, a)
    PROVE  StackInv'
<1> USE StackAssumption, SegmentAssumption DEF StackInv
<1> DEFINE p == Placed(a)
           b == [ptr |-> p, bytes |-> n, align |-> a, base |-> cursor]
<1>0. \A i \in 1..Len(blocks) :
         /\ blocks[i].ptr \in Nat /\ Stop(blocks[i]) \in Nat
         /\ blocks[i].ptr <= cursor /\ Stop(blocks[i]) <= cursor
         /\ blocks[i].ptr - Header \in Addresses
    <2> SUFFICES ASSUME NEW i \in 1..Len(blocks)
                 PROVE  /\ blocks[i].ptr \in Nat /\ Stop(blocks[i]) \in Nat
                        /\ blocks[i].ptr <= cursor /\ Stop(blocks[i]) <= cursor
                        /\ blocks[i].ptr - Header \in Addresses
        OBVIOUS
    <2>1. /\ blocks[i].ptr \in Nat /\ blocks[i].bytes \in Nat
          /\ Stop(blocks[i]) = blocks[i].ptr + blocks[i].bytes
          /\ Stop(blocks[i]) <= cursor
          /\ blocks[i].ptr - Header \in Addresses
        BY BlockFacts
    <2>2. cursor \in Nat
        BY DEF TypeOK
    <2>3. Stop(blocks[i]) \in Nat /\ blocks[i].ptr <= Stop(blocks[i])
        BY <2>1
    <2>4. blocks[i].ptr <= cursor
        BY <2>1, <2>2, <2>3
    <2>. QED  BY <2>1, <2>3, <2>4
<1>1. /\ p \in Nat /\ cursor + Header <= p
      /\ p < cursor + Header + Max2(Header, a)
      /\ Add(p, n) = p + n /\ n \in Nat /\ p + n <= End /\ cursor' = p + n
      /\ cursor \in Begin..End
    BY PlacedFacts DEF Allocate, Fits, TypeOK
<1>2. b \in BlockRecords
    BY <1>1 DEF BlockRecords
<1>3. /\ blocks' \in Seq(BlockRecords)
      /\ Len(blocks') = Len(blocks) + 1
      /\ \A i \in 1..Len(blocks) : blocks'[i] = blocks[i]
      /\ blocks'[Len(blocks) + 1] = b
    BY <1>2, AppendProperties DEF Allocate, TypeOK
<1>4. Len(blocks) \in Nat
    BY DEF TypeOK
<1>5. header' = [Written(p - Header, p) EXCEPT ![p - Header] = p - cursor]
    BY DEF Allocate
<1>6. Max2(Header, a) \in Nat /\ End + Header + Max2(Header, a) + n < Space
    BY DEF NoWrap, Max2
<1>7. p - Header \in Addresses /\ p - cursor \in 0..Space
    BY <1>1, <1>6 DEF Addresses
<1> HIDE DEF p
<1>8. TypeOK'
    <2>1. Written(p - Header, p) \in [Addresses -> 0..Space]
        BY DEF Written, TypeOK, Garbage
    <2>2. header' \in [Addresses -> 0..Space]
        BY <2>1, <1>5, <1>7
    <2>3. cursor' \in Begin..End
        BY <1>1
    <2>. QED  BY <2>2, <2>3, <1>3 DEF TypeOK
<1>9. \A i \in 1..Len(blocks') : i \in 1..Len(blocks) \/ i = Len(blocks) + 1
    BY <1>3, <1>4
<1>10. BlocksDisjoint'
    <2> SUFFICES ASSUME NEW i \in 1..Len(blocks')
                 PROVE  /\ Begin + Header <= blocks'[i].ptr /\ Stop(blocks'[i]) <= End
                        /\ \A j \in (i + 1)..Len(blocks') :
                              Stop(blocks'[i]) + Header <= blocks'[j].ptr
        BY DEF BlocksDisjoint, Stop
    <2>1. CASE i = Len(blocks) + 1
        BY <1>1, <1>3, <1>4, <2>1 DEF Stop
    <2>2. CASE i \in 1..Len(blocks)
        <3>1. Begin + Header <= blocks'[i].ptr /\ Stop(blocks'[i]) <= End
            BY <1>3, <2>2 DEF BlocksDisjoint
        <3>2. \A j \in (i + 1)..Len(blocks) : Stop(blocks'[i]) + Header <= blocks'[j].ptr
            BY <1>3, <1>4, <2>2 DEF BlocksDisjoint
        <3>3. Stop(blocks'[i]) + Header <= blocks'[Len(blocks) + 1].ptr
            <4>1. Stop(blocks[i]) <= cursor /\ Stop(blocks[i]) \in Nat
                BY <1>0, <2>2
            <4>. QED  BY <1>1, <1>3, <2>2, <4>1
        <3>. QED  BY <1>3, <1>4, <3>1, <3>2, <3>3
    <2>. QED  BY <1>9, <2>1, <2>2
<1>11. HeadersIntact'
    <2> SUFFICES ASSUME NEW i \in 1..Len(blocks')
                 PROVE  header'[blocks'[i].ptr - Header] = blocks'[i].ptr - blocks'[i].base
        BY DEF HeadersIntact
    <2>1. CASE i = Len(blocks) + 1
        <3>1. header'[p - Header] = p - cursor
            BY <1>5, <1>7 DEF Written
        <3>. QED  BY <1>3, <2>1, <3>1
    <2>2. CASE i \in 1..Len(blocks)
        <3> DEFINE k == blocks[i].ptr - Header
        <3>1. /\ k \in Addresses /\ blocks[i].ptr \in Nat
              /\ blocks[i].ptr <= cursor
            BY <1>0, <2>2
        <3>2. k # p - Header /\ ~(p - Header < k + Header)
            BY <1>1, <3>1
        <3> HIDE DEF k
        <3>3. header'[k] = header[k]
            BY <1>5, <1>7, <3>1, <3>2 DEF Written
        <3>. QED  BY <1>3, <2>2, <3>3 DEF HeadersIntact, k
    <2>. QED  BY <1>9, <2>1, <2>2
<1>12. CursorExact'
    <2>1. cursor' = Stop(blocks'[Len(blocks')]) /\ Len(blocks') # 0
        BY <1>1, <1>3, <1>4 DEF Stop
    <2>2. \A i \in 1..Len(blocks') :
             blocks'[i].base = IF i - 1 = 0 THEN Begin ELSE Stop(blocks'[i - 1])
        <3> SUFFICES ASSUME NEW i \in 1..Len(blocks')
                     PROVE  blocks'[i].base = IF i - 1 = 0 THEN Begin ELSE Stop(blocks'[i - 1])
            OBVIOUS
        <3>1. CASE i = Len(blocks) + 1
            <4>1. blocks'[i].base = IF Len(blocks) = 0 THEN Begin ELSE Stop(blocks[Len(blocks)])
                BY <1>3, <3>1 DEF CursorExact
            <4>. QED  BY <1>3, <1>4, <3>1, <4>1
        <3>2. CASE i \in 1..Len(blocks)
            <4>1. i - 1 = 0 \/ i - 1 \in 1..Len(blocks)
                BY <1>4, <3>2
            <4>. QED  BY <1>3, <3>2, <4>1 DEF CursorExact
        <3>. QED  BY <1>9, <3>1, <3>2
    <2>. QED  BY <2>1, <2>2 DEF CursorExact, Stop
<1>. QED  BY <1>8, <1>10, <1>11, <1>12

\* Removing the newest block.
LEMMA DropFacts ==
    ASSUME TypeOK, blocks # <<>>, blocks' = Without(Len(blocks))
    PROVE  /\ blocks' \in Seq(BlockRecords)
           /\ Len(blocks') = Len(blocks) - 1
           /\ \A i \in 1..Len(blocks') : blocks'[i] = blocks[i] /\ i \in 1..Len(blocks)
           /\ Len(blocks) \in Nat \ {0}
<1> DEFINE n == Len(blocks)
<1>1. n \in Nat \ {0} /\ \A i \in 1..n : blocks[i] \in BlockRecords
    BY DEF TypeOK
<1> HIDE DEF n
<1>2. blocks' = [k \in 1..(n - 1) |-> blocks[k]]
    BY <1>1 DEF Without, n
<1>3. \A k \in 1..(n - 1) : k \in 1..n
    BY <1>1
<1>4. blocks' \in [1..(n - 1) -> BlockRecords] /\ n - 1 \in Nat
    BY <1>1, <1>2, <1>3
<1>5. blocks' \in Seq(BlockRecords) /\ Len(blocks') = n - 1
    BY <1>4
<1>6. \A i \in 1..Len(blocks') : blocks'[i] = blocks[i] /\ i \in 1..n
    BY <1>2, <1>3, <1>5
<1>. QED  BY <1>1, <1>5, <1>6 DEF n

LEMMA DeallocateStep ==
    ASSUME StackInv, blocks # <<>>, Deallocate(Len(blocks))
    PROVE  StackInv'
<1> USE StackAssumption, SegmentAssumption DEF StackInv
<1> DEFINE n == Len(blocks)
<1>1. /\ blocks' \in Seq(BlockRecords)
      /\ Len(blocks') = n - 1
      /\ \A i \in 1..Len(blocks') : blocks'[i] = blocks[i] /\ i \in 1..n
      /\ n \in Nat \ {0}
    BY DropFacts DEF Deallocate
<1>2. n \in 1..n
    BY <1>1
<1>3. header' = header
    BY DEF Deallocate
<1>4. cursor' = blocks[n].base
    <2>1. cursor = Stop(blocks[n])
        BY <1>1 DEF CursorExact
    <2>2. header[blocks[n].ptr - Header] = blocks[n].ptr - blocks[n].base
        BY <1>2 DEF HeadersIntact
    <2>3. cursor' = cursor - blocks[n].bytes - header[blocks[n].ptr - Header]
        BY DEF Deallocate
    <2>4. blocks[n].ptr \in Nat /\ blocks[n].bytes \in Nat /\ blocks[n].base \in Nat
        BY <1>2, BlockFacts
    <2>. QED  BY <2>1, <2>2, <2>3, <2>4 DEF Stop
<1> HIDE DEF n
<1>5. cursor' = IF n - 1 = 0 THEN Begin ELSE Stop(blocks[n - 1])
    BY <1>2, <1>4 DEF CursorExact, n
<1>6. TypeOK'
    <2>1. CASE n - 1 = 0
        BY <1>1, <1>3, <1>5, <2>1 DEF TypeOK
    <2>2. CASE n - 1 # 0
        <3>1. n - 1 \in 1..Len(blocks)
            BY <1>1, <2>2 DEF n
        <3>2. /\ Stop(blocks[n - 1]) \in Nat /\ Stop(blocks[n - 1]) <= cursor
              /\ Begin + Header <= Stop(blocks[n - 1])
            BY <3>1, BlockFacts
        <3>3. cursor' \in Begin..End
            BY <1>5, <2>2, <3>2 DEF TypeOK
        <3>. QED  BY <1>1, <1>3, <3>3 DEF TypeOK
    <2>. QED  BY <2>1, <2>2
<1>7. BlocksDisjoint'
    <2> SUFFICES ASSUME NEW i \in 1..Len(blocks')
                 PROVE  /\ Begin + Header <= blocks'[i].ptr /\ Stop(blocks'[i]) <= End
                        /\ \A j \in (i + 1)..Len(blocks') :
                              Stop(blocks'[i]) + Header <= blocks'[j].ptr
        BY DEF BlocksDisjoint, Stop
    <2>1. \A j \in (i + 1)..Len(blocks') :
             j \in 1..Len(blocks') /\ j \in (i + 1)..Len(blocks)
        BY <1>1 DEF n
    <2>. QED  BY <1>1, <2>1 DEF BlocksDisjoint, n
<1>8. HeadersIntact'
    BY <1>1, <1>3 DEF HeadersIntact, n
<1>9. CursorExact'
    <2>1. cursor' = IF Len(blocks') = 0 THEN Begin ELSE Stop(blocks'[Len(blocks')])
        BY <1>1, <1>5
    <2>2. \A i \in 1..Len(blocks') : i - 1 = 0 \/ i - 1 \in 1..Len(blocks')
        BY <1>1
    <2>3. \A i \in 1..Len(blocks') :
             blocks'[i].base = IF i - 1 = 0 THEN Begin ELSE Stop(blocks'[i - 1])
        BY <1>1, <2>2 DEF CursorExact, n
    <2>. QED  BY <2>1, <2>3 DEF CursorExact, Stop
<1>. QED  BY <1>6, <1>7, <1>8, <1>9

LEMMA ClientWritesStep ==
    ASSUME StackInv, NEW i \in 1..Len(blocks), ClientWrites(i)
    PROVE  StackInv'
<1> USE StackAssumption, SegmentAssumption DEF StackInv, ClientWrites
<1>1. TypeOK'
    <2>1. Written(blocks[i].ptr, Stop(blocks[i])) \in [Addresses -> 0..Space]
        BY DEF Written, TypeOK, Garbage
    <2>. QED  BY <2>1 DEF TypeOK
<1>2. \A j \in 1..Len(blocks) :
         header'[blocks[j].ptr - Header] = header[blocks[j].ptr - Header]
    <2> SUFFICES ASSUME NEW j \in 1..Len(blocks)
                 PROVE  header'[blocks[j].ptr - Header] = header[blocks[j].ptr - Header]
        OBVIOUS
    <2> DEFINE k == blocks[j].ptr - Header
    <2>1. /\ k \in Addresses /\ blocks[j].ptr \in Nat /\ blocks[j].bytes \in Nat
          /\ Stop(blocks[j]) = blocks[j].ptr + blocks[j].bytes
        BY BlockFacts
    <2>2. /\ blocks[i].ptr \in Nat /\ blocks[i].bytes \in Nat
          /\ Stop(blocks[i]) = blocks[i].ptr + blocks[i].bytes
        BY BlockFacts
    <2>3. ~(blocks[i].ptr < k + Header /\ k < Stop(blocks[i]))
        <3>1. CASE j = i
            BY <2>1, <3>1
        <3>2. CASE j > i
            <4>1. Stop(blocks[i]) + Header <= blocks[j].ptr
                BY <3>2 DEF BlocksDisjoint
            <4>. QED  BY <2>1, <2>2, <4>1
        <3>3. CASE j < i
            <4>1. Stop(blocks[j]) + Header <= blocks[i].ptr
                BY <3>3 DEF BlocksDisjoint
            <4>. QED  BY <2>1, <2>2, <4>1
        <3>. QED  BY <3>1, <3>2, <3>3
    <2> HIDE DEF k
    <2>4. header'[k] = header[k]
        BY <2>1, <2>3 DEF Written
    <2>. QED  BY <2>4 DEF k
<1>3. BlocksDisjoint' /\ CursorExact'
    BY DEF BlocksDisjoint, CursorExact
<1>4. HeadersIntact'
    BY <1>2 DEF HeadersIntact
<1>. QED  BY <1>1, <1>3, <1>4

LEMMA ResetStep == ASSUME StackInv, Reset PROVE StackInv'
<1> USE StackAssumption, SegmentAssumption DEF StackInv, Reset
<1>1. TypeOK'
    BY DEF TypeOK
<1>. QED  BY <1>1 DEF BlocksDisjoint, HeadersIntact, CursorExact

LEMMA NextStep == ASSUME StackInv, NoWrap, [Next]_vars PROVE StackInv'
<1>1. CASE UNCHANGED vars
    BY <1>1 DEF vars, StackInv, TypeOK, BlocksDisjoint, HeadersIntact, CursorExact
<1>2. CASE Next
    BY <1>2, AllocateStep, DeallocateStep, ClientWritesStep, ResetStep DEF Next
<1>. QED  BY <1>1, <1>2

\* The strengthened invariant.
THEOREM Invariance == ASSUME NoWrap PROVE Spec => []StackInv
<1>. QED  BY InitStack, NextStep, PTL DEF Spec

\* Every variable keeps its type; the cursor never leaves the segment.
THEOREM TypeCorrect == ASSUME NoWrap PROVE Spec => []TypeOK
<1>1. StackInv => TypeOK
    BY DEF StackInv
<1>. QED  BY <1>1, Invariance, PTL

\* Live blocks and their headers never overlap and never leave the segment.
THEOREM DisjointCorrect == ASSUME NoWrap PROVE Spec => []BlocksDisjoint
<1>1. StackInv => BlocksDisjoint
    BY DEF StackInv
<1>. QED  BY <1>1, Invariance, PTL

\* No header of a live block is ever overwritten.
THEOREM HeadersCorrect == ASSUME NoWrap PROVE Spec => []HeadersIntact
<1>1. StackInv => HeadersIntact
    BY DEF StackInv
<1>. QED  BY <1>1, Invariance, PTL

\* Freeing newest first puts the cursor back exactly.
THEOREM CursorCorrect == ASSUME NoWrap PROVE Spec => []CursorExact
<1>1. StackInv => CursorExact
    BY DEF StackInv
<1>. QED  BY <1>1, Invariance, PTL

\* What the allocator keeps between the blocks is whole.
THEOREM WholeCorrect == ASSUME NoWrap PROVE Spec => []StackWhole
<1>1. StackInv => StackWhole
    BY DEF StackInv, StackWhole
<1>. QED  BY <1>1, Invariance, PTL

-----------------------------------------------------------------------------
(* Alignment.                                                              *)

LEMMA PlacedAligned ==
    ASSUME TypeOK, NoWrap, HeaderDivides, NEW n \in Sizes, NEW a \in Alignments
    PROVE  Placed(a) % a = 0
<1>1. Placed(a) \in Nat /\ Placed(a) % Max2(Header, a) = 0
    BY PlacedFacts
<1>2. CASE Header > a
    <2>1. Header % a = 0
        BY <1>2, StackAssumption, SegmentAssumption DEF HeaderDivides
    <2>. QED  BY <1>1, <1>2, <2>1, MultipleOfMultiple, StackAssumption, SegmentAssumption DEF Max2
<1>3. CASE ~(Header > a)
    BY <1>1, <1>3 DEF Max2
<1>. QED  BY <1>2, <1>3

LEMMA AlignedStep ==
    ASSUME StackInv, NoWrap, HeaderDivides, BlocksAligned, [Next]_vars
    PROVE  BlocksAligned'
<1> USE DEF BlocksAligned
<1>1. ASSUME NEW n \in Sizes, NEW a \in Alignments, Allocate(n, a)
      PROVE  BlocksAligned'
    <2>1. Placed(a) % a = 0
        BY PlacedAligned DEF StackInv
    <2> DEFINE b == [ptr |-> Placed(a), bytes |-> n, align |-> a, base |-> cursor]
    <2>2. blocks' = Append(blocks, b)
        BY <1>1 DEF Allocate
    <2>3. blocks \in Seq(BlockRecords)
        BY DEF StackInv, TypeOK
    <2>4. b \in BlockRecords
        BY PlacedFacts, StackAssumption, SegmentAssumption DEF BlockRecords, StackInv, TypeOK
    <2>5. b.ptr % b.align = 0
        BY <2>1
    <2> HIDE DEF b
    <2>6. /\ Len(blocks') = Len(blocks) + 1 /\ Len(blocks) \in Nat
          /\ \A i \in 1..Len(blocks) : blocks'[i] = blocks[i]
          /\ blocks'[Len(blocks) + 1] = b
        BY <2>2, <2>3, <2>4, AppendProperties
    <2>7. \A i \in 1..Len(blocks') : i \in 1..Len(blocks) \/ i = Len(blocks) + 1
        BY <2>6
    <2>. QED  BY <2>5, <2>6, <2>7
<1>2. CASE blocks # <<>> /\ Deallocate(Len(blocks))
    <2>1. \A i \in 1..Len(blocks') : blocks'[i] = blocks[i] /\ i \in 1..Len(blocks)
        BY <1>2, DropFacts DEF Deallocate, StackInv
    <2>. QED  BY <2>1
<1>3. CASE \E i \in 1..Len(blocks) : ClientWrites(i)
    BY <1>3 DEF ClientWrites
<1>4. CASE Reset
    BY <1>4 DEF Reset
<1>5. CASE UNCHANGED vars
    BY <1>5 DEF vars
<1>. QED  BY <1>1, <1>2, <1>3, <1>4, <1>5 DEF Next

\* Every block has the alignment it was asked for, when the alignments below
\* the header size divide it.
THEOREM AlignedCorrect ==
    ASSUME NoWrap, HeaderDivides PROVE Spec => []BlocksAligned
<1>1. Init => BlocksAligned
    BY DEF Init, BlocksAligned
<1>. QED  BY <1>1, AlignedStep, Invariance, PTL DEF Spec

-----------------------------------------------------------------------------
(* Refinement.                                                             *)

Pairs == [ptr : Nat, bytes : Nat]

LEMMA HandedFacts ==
    ASSUME NEW bs \in Seq(BlockRecords)
    PROVE  /\ Handed(bs) \in Seq(Pairs)
           /\ Len(Handed(bs)) = Len(bs)
           /\ \A i \in 1..Len(bs) :
                 Handed(bs)[i] = [ptr |-> bs[i].ptr, bytes |-> bs[i].bytes]
<1>1. \A i \in 1..Len(bs) : [ptr |-> bs[i].ptr, bytes |-> bs[i].bytes] \in Pairs
    <2>1. \A i \in 1..Len(bs) : bs[i] \in BlockRecords
        OBVIOUS
    <2>2. \A b \in BlockRecords : b.ptr \in Nat /\ b.bytes \in Nat
        BY StackAssumption, SegmentAssumption DEF BlockRecords
    <2>. QED  BY <2>1, <2>2 DEF Pairs
<1>2. Handed(bs) \in [1..Len(bs) -> Pairs] /\ Len(bs) \in Nat
    BY <1>1 DEF Handed
<1>3. \A i \in 1..Len(bs) :
          Handed(bs)[i] = [ptr |-> bs[i].ptr, bytes |-> bs[i].bytes]
    BY DEF Handed
<1>4. Handed(bs) \in Seq(Pairs) /\ Len(Handed(bs)) = Len(bs)
    <2> HIDE DEF Handed
    <2>. QED  BY <1>2
<1>. QED  BY <1>3, <1>4

LEMMA PushRefines ==
    ASSUME StackInv, NoWrap, HeaderDivides,
           NEW n \in Sizes, NEW a \in Alignments, Allocate(n, a)
    PROVE  Abs!Push
<1> USE StackAssumption, SegmentAssumption
<1> DEFINE p == Placed(a)
           b == [ptr |-> p, bytes |-> n, align |-> a, base |-> cursor]
           e == [ptr |-> p, bytes |-> n]
<1>1. /\ p \in Nat /\ cursor + Header <= p /\ Add(p, n) = p + n
      /\ n \in Nat /\ p + n <= End /\ cursor \in Begin..End /\ p % a = 0
    BY PlacedFacts, PlacedAligned DEF Allocate, Fits, TypeOK, StackInv
<1>2. b \in BlockRecords /\ e \in Pairs /\ blocks \in Seq(BlockRecords)
    BY <1>1 DEF BlockRecords, Pairs, StackInv, TypeOK
<1>3. blocks' = Append(blocks, b)
    BY DEF Allocate
<1>4. /\ blocks' \in Seq(BlockRecords)
      /\ Len(blocks') = Len(blocks) + 1 /\ Len(blocks) \in Nat
      /\ \A i \in 1..Len(blocks) : blocks'[i] = blocks[i]
      /\ blocks'[Len(blocks) + 1] = b
    BY <1>2, <1>3, AppendProperties
<1>5. /\ Handed(blocks) \in Seq(Pairs) /\ Len(Handed(blocks)) = Len(blocks)
      /\ \A i \in 1..Len(blocks) :
            Handed(blocks)[i] = [ptr |-> blocks[i].ptr, bytes |-> blocks[i].bytes]
    BY <1>2, HandedFacts
<1>6. /\ Handed(blocks') \in Seq(Pairs) /\ Len(Handed(blocks')) = Len(blocks')
      /\ \A i \in 1..Len(blocks') :
            Handed(blocks')[i] = [ptr |-> blocks'[i].ptr, bytes |-> blocks'[i].bytes]
    BY <1>4, HandedFacts
<1>7. b.ptr = p /\ b.bytes = n /\ p \in Begin..End
    BY <1>1
<1> HIDE DEF b, p
<1>8. /\ Append(Handed(blocks), e) \in Seq(Pairs)
      /\ Len(Append(Handed(blocks), e)) = Len(blocks) + 1
      /\ \A i \in 1..Len(blocks) : Append(Handed(blocks), e)[i] = Handed(blocks)[i]
      /\ Append(Handed(blocks), e)[Len(blocks) + 1] = e
    BY <1>2, <1>5, AppendProperties
<1> HIDE DEF e
<1>9. \A i \in 1..Len(blocks') : Handed(blocks')[i] = Append(Handed(blocks), e)[i]
    <2> SUFFICES ASSUME NEW i \in 1..Len(blocks')
                 PROVE  Handed(blocks')[i] = Append(Handed(blocks), e)[i]
        OBVIOUS
    <2>1. CASE i = Len(blocks) + 1
        BY <1>4, <1>6, <1>7, <1>8, <2>1 DEF e
    <2>2. CASE i # Len(blocks) + 1
        <3>1. i \in 1..Len(blocks)
            BY <1>4, <2>2
        <3>. QED  BY <1>4, <1>5, <1>6, <1>8, <3>1
    <2>. QED  BY <2>1, <2>2
<1>10. Handed(blocks') = Append(Handed(blocks), e)
    BY <1>4, <1>6, <1>8, <1>9, SeqEqual
<1>11. Handed(blocks) # <<>> =>
           Handed(blocks)[Len(Handed(blocks))].ptr
             + Handed(blocks)[Len(Handed(blocks))].bytes <= p
    <2> SUFFICES ASSUME Handed(blocks) # <<>>
                 PROVE  Handed(blocks)[Len(blocks)].ptr + Handed(blocks)[Len(blocks)].bytes <= p
        BY <1>5
    <2>1. Len(blocks) \in 1..Len(blocks)
        BY <1>4, <1>5
    <2>2. cursor = Stop(blocks[Len(blocks)]) /\ cursor \in Nat
        BY <1>1, <2>1 DEF StackInv, CursorExact
    <2>3. Handed(blocks)[Len(blocks)].ptr + Handed(blocks)[Len(blocks)].bytes = cursor
        <3>1. Handed(blocks)[Len(blocks)]
                = [ptr |-> blocks[Len(blocks)].ptr, bytes |-> blocks[Len(blocks)].bytes]
            BY <1>5, <2>1
        <3>2. cursor = blocks[Len(blocks)].ptr + blocks[Len(blocks)].bytes
            BY <2>2 DEF Stop
        <3>. QED  BY <3>1, <3>2
    <2>. QED  BY <1>1, <2>2, <2>3
<1>. QED  BY <1>1, <1>7, <1>10, <1>11 DEF e, Abs!Push, Abs!Stop, Abs!Newest

LEMMA PopRefines ==
    ASSUME StackInv, blocks # <<>>, Deallocate(Len(blocks))
    PROVE  Abs!Pop
<1> DEFINE n == Len(blocks)
<1>1. /\ blocks' \in Seq(BlockRecords) /\ blocks \in Seq(BlockRecords)
      /\ Len(blocks') = n - 1 /\ n \in Nat \ {0}
      /\ \A i \in 1..Len(blocks') : blocks'[i] = blocks[i] /\ i \in 1..n
    BY DropFacts DEF Deallocate, StackInv, TypeOK
<1>2. /\ Handed(blocks) \in Seq(Pairs) /\ Len(Handed(blocks)) = n
      /\ \A i \in 1..n :
            Handed(blocks)[i] = [ptr |-> blocks[i].ptr, bytes |-> blocks[i].bytes]
    BY <1>1, HandedFacts
<1>3. /\ Handed(blocks') \in Seq(Pairs) /\ Len(Handed(blocks')) = Len(blocks')
      /\ \A i \in 1..Len(blocks') :
            Handed(blocks')[i] = [ptr |-> blocks'[i].ptr, bytes |-> blocks'[i].bytes]
    BY <1>1, HandedFacts
<1> HIDE DEF n
<1> DEFINE s == SubSeq(Handed(blocks), 1, n - 1)
<1>4. /\ s \in Seq(Pairs) /\ Len(s) = n - 1
      /\ \A i \in 1..(n - 1) : s[i] = Handed(blocks)[i]
    <2>1. \A i \in 1..(n - 1) : Handed(blocks)[i] \in Pairs
        BY <1>1, <1>2
    <2>2. /\ s \in Seq(Pairs)
          /\ Len(s) = IF 1 <= n - 1 THEN n - 1 - 1 + 1 ELSE 0
          /\ \A i \in 1..(n - 1 - 1 + 1) : s[i] = Handed(blocks)[1 + i - 1]
        BY <1>1, <2>1, SubSeqProperties
    <2>. QED  BY <1>1, <2>2
<1> HIDE DEF s
<1>5. Handed(blocks') = s
    <2>1. \A i \in 1..Len(Handed(blocks')) : Handed(blocks')[i] = s[i]
        BY <1>1, <1>2, <1>3, <1>4
    <2>. QED  BY <1>1, <1>3, <1>4, <2>1, SeqEqual
<1>6. Handed(blocks) # <<>>
    BY <1>1, <1>2
<1>. QED  BY <1>2, <1>5, <1>6 DEF Abs!Pop, s

LEMMA StepRefines ==
    ASSUME StackInv, NoWrap, HeaderDivides, [Next]_vars
    PROVE  [Abs!Next]_(Handed(blocks))
<1>1. CASE \E n \in Sizes, a \in Alignments : Allocate(n, a)
    BY <1>1, PushRefines DEF Abs!Next
<1>2. CASE blocks # <<>> /\ Deallocate(Len(blocks))
    BY <1>2, PopRefines DEF Abs!Next
<1>3. CASE UNCHANGED vars \/ \E i \in 1..Len(blocks) : ClientWrites(i)
    BY <1>3 DEF vars, ClientWrites
<1>4. CASE Reset
    <2>1. blocks' \in Seq(BlockRecords) /\ Len(blocks') = 0
        BY <1>4 DEF Reset
    <2>2. Handed(blocks') \in Seq(Pairs) /\ Len(Handed(blocks')) = 0
        BY <2>1, HandedFacts
    <2>3. Handed(blocks') = <<>>
        BY <2>2
    <2>. QED  BY <2>3 DEF Abs!Next, Abs!Clear
<1>. QED  BY <1>1, <1>2, <1>3, <1>4 DEF Next

\* The allocator implements the abstract stack of blocks: every block it hands
\* out is aligned, in the segment and behind all live ones, and freeing takes
\* back exactly the newest.
THEOREM StackRefinesBlocks ==
    ASSUME NoWrap, HeaderDivides PROVE Spec => ImplementsBlocks
<1>1. Init => Abs!Init
    <2> SUFFICES ASSUME Init PROVE Handed(blocks) = <<>>
        BY DEF Abs!Init
    <2>1. blocks \in Seq(BlockRecords) /\ Len(blocks) = 0
        BY DEF Init
    <2>2. Handed(blocks) \in Seq(Pairs) /\ Len(Handed(blocks)) = 0
        BY <2>1, HandedFacts
    <2>. QED  BY <2>2
<1>. QED  BY <1>1, StepRefines, Invariance, PTL DEF Spec, ImplementsBlocks, Abs!Spec

-----------------------------------------------------------------------------
(* The arena.                                                              *)

\* Everything above the object of a call in progress was acquired inside that
\* call, objects nest like the calls that acquired them, and so an object that
\* owns nothing is the newest.
Nested == \A p, q \in Objects : owner[p] < q /\ q < p => owner[p] <= owner[q]
Inward == \A i, j \in 1..Len(nested) : i < j => nested[i].obj < nested[j].obj
Above == \A i \in 1..Len(nested), p \in Objects :
             nested[i].obj < p => nested[i].obj <= owner[p]

Shape ==
    /\ Len(blocks) \in Nat
    /\ owner \in Seq(Nat) /\ Len(owner) = Len(blocks)
    /\ \A p \in Objects : owner[p] \in 0..(p - 1)
    /\ nested \in Seq([op : {"ctor", "dtor"}, obj : Nat])
    /\ \A i \in 1..Len(nested) : nested[i].obj \in Objects

ArenaInv == Shape /\ Nested /\ Inward /\ Above

LEMMA RunningFacts ==
    ASSUME ArenaInv
    PROVE  /\ Running \in 0..Len(blocks)
           /\ \A p \in Objects : Running < p => Running <= owner[p]
           /\ \A i \in 1..Len(nested) : nested[i].obj <= Running
           /\ nested # <<>> => Running = Innermost.obj /\ Innermost.obj \in Objects
<1> USE DEF ArenaInv, Shape
<1>1. CASE nested = <<>>
    BY <1>1 DEF Running, Objects
<1>2. CASE nested # <<>>
    <2>1. Len(nested) \in 1..Len(nested)
        BY <1>2
    <2>2. Running = Innermost.obj /\ Innermost.obj \in Objects
        BY <1>2, <2>1 DEF Running, Innermost
    <2>3. \A p \in Objects : Running < p => Running <= owner[p]
        BY <2>1, <2>2 DEF Above, Innermost
    <2>4. ASSUME NEW i \in 1..Len(nested) PROVE nested[i].obj <= Running
        <3>1. CASE i = Len(nested)
            BY <2>2, <3>1 DEF Innermost, Objects
        <3>2. CASE i < Len(nested)
            <4>1. nested[i].obj < Innermost.obj /\ nested[i].obj \in Objects
                BY <2>1, <3>2 DEF Inward, Innermost
            <4>. QED  BY <2>2, <4>1 DEF Objects
        <3>. QED  BY <2>1, <3>1, <3>2
    <2>. QED  BY <2>2, <2>3, <2>4 DEF Objects
<1>. QED  BY <1>1, <1>2

\* What a constructor or destructor that owns nothing deallocates is newest.
LEMMA NewestOwnsNothing ==
    ASSUME ArenaInv, nested # <<>>, Owned(Innermost.obj) = {}
    PROVE  Innermost.obj = Len(blocks) /\ blocks # <<>>
<1> USE DEF ArenaInv, Shape
<1> DEFINE t == Innermost.obj
<1>1. t \in Objects /\ \A p \in Objects : t < p => t <= owner[p]
    BY RunningFacts
<1> HIDE DEF t
<1>2. ASSUME t # Len(blocks) PROVE FALSE
    <2>1. t + 1 \in Objects /\ t < t + 1
        BY <1>1, <1>2 DEF Objects
    <2>2. t <= owner[t + 1] /\ owner[t + 1] \in 0..t
        BY <1>1, <2>1 DEF Objects
    <2>3. owner[t + 1] = t
        BY <1>1, <2>2 DEF Objects
    <2>. QED  BY <2>1, <2>3 DEF Owned, t
<1>3. blocks # <<>>
    BY <1>1 DEF Objects
<1>. QED  BY <1>2, <1>3 DEF t

\* A call ends.
LEMMA PoppedCalls ==
    ASSUME nested \in Seq([op : {"ctor", "dtor"}, obj : Nat]), nested # <<>>, Leave
    PROVE  /\ nested' \in Seq([op : {"ctor", "dtor"}, obj : Nat])
           /\ Len(nested') = Len(nested) - 1 /\ Len(nested) \in Nat
           /\ \A i \in 1..Len(nested') : nested'[i] = nested[i] /\ i \in 1..Len(nested)
<1> DEFINE n == Len(nested)
           s == SubSeq(nested, 1, n - 1)
           Calls == [op : {"ctor", "dtor"}, obj : Nat]
<1>0. nested \in Seq(Calls)
    OBVIOUS
<1> HIDE DEF Calls
<1>1. n \in Nat \ {0} /\ \A i \in 1..n : nested[i] \in Calls
    BY <1>0
<1>2. nested' = s
    BY DEF Leave
<1> HIDE DEF n
<1>3. \A i \in 1..(n - 1) : nested[i] \in Calls
    BY <1>1
<1>4. /\ s \in Seq(Calls)
      /\ Len(s) = IF 1 <= n - 1 THEN n - 1 - 1 + 1 ELSE 0
      /\ \A i \in 1..(n - 1 - 1 + 1) : s[i] = nested[1 + i - 1]
    BY <1>1, <1>3, SubSeqProperties
<1> HIDE DEF s
<1>5. /\ s \in Seq(Calls) /\ Len(s) = n - 1
      /\ \A i \in 1..(n - 1) : s[i] = nested[i] /\ i \in 1..n
    BY <1>1, <1>4
<1>. QED  BY <1>1, <1>2, <1>5 DEF n, Calls

\* A call begins, of an object above all that are in progress.
LEMMA PushedCalls ==
    ASSUME ArenaInv, NEW op \in {"ctor", "dtor"}, NEW o \in Nat, Running < o,
           nested' = Append(nested, [op |-> op, obj |-> o])
    PROVE  /\ nested' \in Seq([op : {"ctor", "dtor"}, obj : Nat])
           /\ Len(nested') = Len(nested) + 1 /\ Len(nested) \in Nat
           /\ \A i \in 1..Len(nested) : nested'[i] = nested[i]
           /\ nested'[Len(nested) + 1].obj = o
           /\ Inward'
<1> DEFINE c == [op |-> op, obj |-> o]
           Calls == [op : {"ctor", "dtor"}, obj : Nat]
<1>1. c \in Calls /\ nested \in Seq(Calls) /\ c.obj = o
    BY DEF ArenaInv, Shape
<1> HIDE DEF c, Calls
<1>2. /\ nested' \in Seq(Calls) /\ Len(nested') = Len(nested) + 1 /\ Len(nested) \in Nat
      /\ \A i \in 1..Len(nested) : nested'[i] = nested[i]
      /\ nested'[Len(nested) + 1] = c
    BY <1>1, AppendProperties DEF c
<1>3. Inward'
    <2> SUFFICES ASSUME NEW i \in 1..Len(nested'), NEW j \in 1..Len(nested'), i < j
                 PROVE  nested'[i].obj < nested'[j].obj
        BY DEF Inward
    <2>1. i \in 1..Len(nested) /\ nested'[i] = nested[i] /\ nested[i].obj \in Objects
        BY <1>2 DEF ArenaInv, Shape
    <2>2. CASE j = Len(nested) + 1
        <3>1. nested[i].obj <= Running /\ Running \in 0..Len(blocks) /\ Len(blocks) \in Nat
            BY <2>1, RunningFacts DEF ArenaInv, Shape
        <3>. QED  BY <1>1, <1>2, <2>1, <2>2, <3>1 DEF Objects
    <2>3. CASE j # Len(nested) + 1
        <3>1. j \in 1..Len(nested) /\ nested'[j] = nested[j]
            BY <1>2, <2>3
        <3>. QED  BY <2>1, <3>1 DEF ArenaInv, Inward
    <2>. QED  BY <2>2, <2>3
<1>. QED  BY <1>1, <1>2, <1>3 DEF Calls

LEMMA AcquireStep ==
    ASSUME StackInv, NoWrap, ArenaInv, NEW n \in Sizes, NEW a \in Alignments, Acquire(n, a)
    PROVE  ArenaInv'
<1> DEFINE l == Len(blocks)
<1>1. /\ l \in Nat /\ Len(blocks') = l + 1
    <2>1. blocks' \in Seq(BlockRecords) /\ blocks \in Seq(BlockRecords)
        BY AllocateStep DEF Acquire, StackInv, TypeOK
    <2>. QED  BY <2>1 DEF Acquire, Allocate
<1>2. Running \in 0..l /\ \A p \in Objects : Running < p => Running <= owner[p]
    BY RunningFacts
<1>3. /\ owner' \in Seq(Nat) /\ Len(owner') = l + 1
      /\ \A p \in 1..l : owner'[p] = owner[p]
      /\ owner'[l + 1] = Running
    <2>1. owner \in Seq(Nat) /\ Len(owner) = l /\ Running \in Nat
        BY <1>1, <1>2 DEF ArenaInv, Shape
    <2>2. owner' = Append(owner, Running)
        BY DEF Acquire
    <2>. QED  BY <2>1, <2>2, AppendProperties
<1>4. l + 1 \in Nat /\ Running < l + 1 /\ nested' = Append(nested, [op |-> "ctor", obj |-> l + 1])
    BY <1>1, <1>2 DEF Acquire
<1>5. /\ nested' \in Seq([op : {"ctor", "dtor"}, obj : Nat])
      /\ Len(nested') = Len(nested) + 1 /\ Len(nested) \in Nat
      /\ \A i \in 1..Len(nested) : nested'[i] = nested[i]
      /\ nested'[Len(nested) + 1].obj = l + 1
      /\ Inward'
    BY <1>4, PushedCalls
<1>6. \A i \in 1..Len(nested') : i \in 1..Len(nested) \/ i = Len(nested) + 1
    BY <1>5
<1>7. Objects' = 1..(l + 1) /\ Objects = 1..l /\ \A p \in Objects' : p \in Objects \/ p = l + 1
    BY <1>1 DEF Objects
<1> HIDE DEF l
<1>8. \A p \in Objects : owner[p] \in 0..(p - 1)
    BY DEF ArenaInv, Shape
<1>9. \A i \in 1..Len(nested) : nested[i].obj \in 1..l /\ nested[i].obj <= Running
    BY <1>7, RunningFacts DEF ArenaInv, Shape
<1>10. Shape'
    <2>1. \A p \in Objects' : owner'[p] \in 0..(p - 1)
        <3>1. ASSUME NEW p \in Objects PROVE owner'[p] \in 0..(p - 1)
            <4>1. owner'[p] = owner[p]
                BY <1>3, <1>7
            <4>. QED  BY <4>1, <1>8
        <3>2. owner'[l + 1] \in 0..((l + 1) - 1)
            <4>1. owner'[l + 1] = Running
                BY <1>3
            <4>2. Running \in 0..((l + 1) - 1)
                BY <1>1, <1>2
            <4>. QED  BY <4>1, <4>2
        <3>. QED  BY <3>1, <3>2, <1>7
    <2>2. \A i \in 1..Len(nested') : nested'[i].obj \in Objects'
        BY <1>1, <1>5, <1>6, <1>7, <1>9
    <2>3. Len(blocks') \in Nat /\ owner' \in Seq(Nat) /\ Len(owner') = Len(blocks')
        BY <1>1, <1>3
    <2>4. nested' \in Seq([op : {"ctor", "dtor"}, obj : Nat])
        BY <1>5
    <2>. QED  BY <2>1, <2>2, <2>3, <2>4 DEF Shape
<1>11. Nested'
    <2> SUFFICES ASSUME NEW p \in Objects', NEW q \in Objects', owner'[p] < q, q < p
                 PROVE  owner'[p] <= owner'[q]
        BY DEF Nested
    <2>1. q \in Objects /\ owner'[q] = owner[q]
        BY <1>1, <1>3, <1>7
    <2>2. CASE p = l + 1
        BY <1>2, <1>3, <2>1, <2>2
    <2>3. CASE p \in Objects
        BY <1>3, <1>7, <2>1, <2>3 DEF ArenaInv, Nested
    <2>. QED  BY <1>7, <2>2, <2>3
<1>12. Above'
    <2> SUFFICES ASSUME NEW i \in 1..Len(nested'), NEW p \in Objects', nested'[i].obj < p
                 PROVE  nested'[i].obj <= owner'[p]
        BY DEF Above
    <2>1. i \in 1..Len(nested) /\ nested'[i] = nested[i]
        BY <1>1, <1>5, <1>6, <1>7
    <2>2. CASE p = l + 1
        BY <1>3, <1>9, <2>1, <2>2
    <2>3. CASE p \in Objects
        BY <1>3, <1>7, <2>1, <2>3 DEF ArenaInv, Above
    <2>. QED  BY <1>7, <2>2, <2>3
<1>. QED  BY <1>5, <1>10, <1>11, <1>12 DEF ArenaInv

LEMMA DestroyBeginStep ==
    ASSUME ArenaInv, NEW o \in Objects, DestroyBegin(o)
    PROVE  ArenaInv'
<1> USE DEF ArenaInv
<1>1. /\ Objects' = Objects /\ owner' = owner /\ blocks' = blocks /\ Len(blocks) \in Nat
      /\ o \in 1..Len(blocks) /\ Objects = 1..Len(blocks) /\ o \in Nat
    BY DEF DestroyBegin, Objects, Shape
<1>2. /\ owner[o] = Running /\ Running \in 0..Len(blocks) /\ Running < o
      /\ \A p \in Objects : owner[p] = Running => p <= o
      /\ \A p \in Objects : Running < p => Running <= owner[p]
      /\ \A p \in Objects : owner[p] \in 0..(p - 1)
    <2>1. \A p \in Objects : owner[p] \in 0..(p - 1)
        BY DEF Shape
    <2>2. owner[o] = Running /\ \A p \in Objects : owner[p] = Running => p <= o
        BY DEF DestroyBegin, Owned
    <2>. QED  BY <1>1, <2>1, <2>2, RunningFacts
<1>3. /\ nested' \in Seq([op : {"ctor", "dtor"}, obj : Nat])
      /\ Len(nested') = Len(nested) + 1 /\ Len(nested) \in Nat
      /\ \A i \in 1..Len(nested) : nested'[i] = nested[i]
      /\ nested'[Len(nested) + 1].obj = o
      /\ Inward'
    BY <1>1, <1>2, PushedCalls DEF DestroyBegin
<1>4. \A i \in 1..Len(nested') : i \in 1..Len(nested) \/ i = Len(nested) + 1
    BY <1>3
<1>5. Shape' /\ Nested'
    <2>1. \A i \in 1..Len(nested') : nested'[i].obj \in Objects'
        BY <1>1, <1>3, <1>4 DEF Shape
    <2>. QED  BY <1>1, <1>3, <2>1 DEF Shape, Nested
<1>6. Above'
    <2> SUFFICES ASSUME NEW i \in 1..Len(nested'), NEW p \in Objects, nested'[i].obj < p
                 PROVE  nested'[i].obj <= owner[p]
        BY <1>1 DEF Above
    <2>1. CASE i \in 1..Len(nested)
        BY <1>3, <2>1 DEF Above
    <2>2. CASE i = Len(nested) + 1
        <3>1. o < p /\ Running <= owner[p] /\ owner[p] # Running
            BY <1>1, <1>2, <1>3, <2>2
        <3>2. owner[p] < o => owner[p] <= owner[o]
            BY <3>1 DEF Nested
        <3>. QED  BY <1>1, <1>2, <1>3, <2>2, <3>1, <3>2
    <2>. QED  BY <1>4, <2>1, <2>2
<1>. QED  BY <1>3, <1>5, <1>6

\* The newest object is gone, and the call that removed it has ended.
LEMMA RemovedStep ==
    ASSUME StackInv, ArenaInv, nested # <<>>, Owned(Innermost.obj) = {},
           Deallocate(Innermost.obj), Forget(Innermost.obj), Leave
    PROVE  ArenaInv'
<1> USE DEF ArenaInv
<1> DEFINE l == Len(blocks)
<1>1. /\ Innermost.obj = l /\ Len(blocks') = l - 1 /\ l \in Nat \ {0}
    BY NewestOwnsNothing, DropFacts DEF Deallocate, StackInv
<1>2. /\ nested' \in Seq([op : {"ctor", "dtor"}, obj : Nat])
      /\ Len(nested') = Len(nested) - 1 /\ Len(nested) \in Nat
      /\ \A i \in 1..Len(nested') : nested'[i] = nested[i] /\ i \in 1..Len(nested)
    BY PoppedCalls DEF Shape
<1>3. Objects' = 1..(l - 1) /\ Objects = 1..l /\ \A p \in Objects' : p \in Objects /\ p # l
    BY <1>1 DEF Objects
<1>4. \A p \in Objects : owner[p] \in 0..(p - 1)
    BY DEF Shape
<1> HIDE DEF l
<1>5. owner' = [k \in 1..(l - 1) |-> Renamed(owner[IF k < l THEN k ELSE k + 1], l)]
    BY <1>1 DEF Forget, l
<1>6. \A k \in 1..(l - 1) : Renamed(owner[IF k < l THEN k ELSE k + 1], l) = owner[k]
    BY <1>1, <1>3, <1>4 DEF Renamed
<1>7. owner' = [k \in 1..(l - 1) |-> owner[k]] /\ \A k \in 1..(l - 1) : owner[k] \in Nat
    BY <1>1, <1>3, <1>4, <1>5, <1>6
<1>8. owner' \in [1..(l - 1) -> Nat] /\ l - 1 \in Nat
    BY <1>1, <1>7
<1>9. owner' \in Seq(Nat) /\ Len(owner') = l - 1
    BY <1>8
<1>10. \A p \in Objects' : owner'[p] = owner[p]
    BY <1>3, <1>7
<1>11. Shape'
    <2>1. \A i \in 1..Len(nested') : nested'[i].obj \in Objects'
        <3> SUFFICES ASSUME NEW i \in 1..Len(nested') PROVE nested[i].obj \in 1..(l - 1)
            BY <1>2, <1>3
        <3>1. i \in 1..Len(nested) /\ Len(nested) \in 1..Len(nested) /\ i < Len(nested)
            BY <1>2
        <3>2. nested[i].obj \in Objects /\ nested[i].obj < Innermost.obj
            BY <3>1 DEF Shape, Inward, Innermost
        <3>. QED  BY <1>1, <1>3, <3>2
    <2>. QED  BY <1>1, <1>2, <1>3, <1>4, <1>8, <1>9, <1>10, <2>1 DEF Shape
<1>12. Nested'
    BY <1>3, <1>10 DEF Nested
<1>13. Inward' /\ Above'
    BY <1>2, <1>3, <1>10 DEF Inward, Above
<1>. QED  BY <1>11, <1>12, <1>13

\* Every step of the arena is one the store's client may make.
LEMMA ArenaStep ==
    ASSUME StackInv, NoWrap, ArenaInv, [ArenaNext]_arenaVars
    PROVE  StackInv' /\ ArenaInv' /\ [Next]_vars
<1>1. ASSUME NEW n \in Sizes, NEW a \in Alignments, Acquire(n, a)
      PROVE  ArenaInv' /\ [Next]_vars
    BY <1>1, AcquireStep DEF Acquire, Next
<1>2. ASSUME Constructed
      PROVE  ArenaInv' /\ [Next]_vars
    <2>1. nested # <<>> /\ Leave /\ UNCHANGED <<cursor, header, blocks, owner>>
        BY <1>2 DEF Constructed
    <2>2. /\ nested' \in Seq([op : {"ctor", "dtor"}, obj : Nat])
          /\ Len(nested') = Len(nested) - 1 /\ Len(nested) \in Nat
          /\ \A i \in 1..Len(nested') : nested'[i] = nested[i] /\ i \in 1..Len(nested)
        BY <2>1, PoppedCalls DEF ArenaInv, Shape
    <2>. QED  BY <2>1, <2>2 DEF ArenaInv, Shape, Nested, Inward, Above, Objects, vars
<1>3. ASSUME Throws \/ Destroyed
      PROVE  ArenaInv' /\ [Next]_vars
    <2>1. /\ nested # <<>> /\ Owned(Innermost.obj) = {}
          /\ Deallocate(Innermost.obj) /\ Forget(Innermost.obj) /\ Leave
        BY <1>3 DEF Throws, Destroyed
    <2>2. ArenaInv'
        BY <2>1, RemovedStep
    <2>3. blocks # <<>> /\ Deallocate(Len(blocks))
        BY <2>1, NewestOwnsNothing
    <2>. QED  BY <2>2, <2>3 DEF Next
<1>4. ASSUME NEW o \in Objects, DestroyBegin(o)
      PROVE  ArenaInv' /\ [Next]_vars
    BY <1>4, DestroyBeginStep DEF DestroyBegin, vars
<1>5. ASSUME UNCHANGED arenaVars
      PROVE  ArenaInv' /\ [Next]_vars
    BY <1>5 DEF arenaVars, vars, ArenaInv, Shape, Nested, Inward, Above, Objects
<1>6. ArenaInv' /\ [Next]_vars
    BY <1>1, <1>2, <1>3, <1>4, <1>5 DEF ArenaNext
<1>. QED  BY <1>6, NextStep

LEMMA InitArena == ArenaInit => Init /\ StackInv /\ ArenaInv
BY InitStack DEF ArenaInit, Init, ArenaInv, Shape, Nested, Inward, Above, Objects

LEMMA ArenaInvariant ==
    ASSUME NoWrap PROVE ArenaSpec => [](StackInv /\ ArenaInv)
BY InitArena, ArenaStep, PTL DEF ArenaSpec

\* The variables of the arena keep their types.
THEOREM ArenaTypeCorrect == ASSUME NoWrap PROVE ArenaSpec => []ArenaTypeOK
<1>1. StackInv /\ ArenaInv => ArenaTypeOK
    BY DEF StackInv, ArenaInv, Shape, ArenaTypeOK
<1>. QED  BY <1>1, ArenaInvariant, PTL

\* However constructors and destructors nest and throw, the arena frees the
\* newest block of its store and nothing else: it is a client as the stack
\* allocator needs one, and all that is proved of that one holds under it.
THEOREM ArenaInOrder == ASSUME NoWrap PROVE ArenaSpec => ArenaUsesStoreInOrder
<1>1. ArenaInit => Init
    BY InitArena
<1>2. StackInv /\ ArenaInv /\ [ArenaNext]_arenaVars => [Next]_vars
    BY ArenaStep
<1>. QED  BY <1>1, <1>2, ArenaInvariant, PTL DEF ArenaSpec, Spec, ArenaUsesStoreInOrder

\* Freeing the newest block moves the cursor to where its allocation found it.
LEMMA CursorReturns ==
    ASSUME StackInv, blocks # <<>>, Deallocate(Len(blocks))
    PROVE  cursor' = blocks[Len(blocks)].base
<1> DEFINE n == Len(blocks)
<1>1. n \in 1..n
    BY DEF StackInv, TypeOK
<1>2. /\ cursor = Stop(blocks[n])
      /\ header[blocks[n].ptr - Header] = blocks[n].ptr - blocks[n].base
      /\ cursor' = cursor - blocks[n].bytes - header[blocks[n].ptr - Header]
    BY <1>1 DEF StackInv, CursorExact, HeadersIntact, Deallocate
<1>3. blocks[n].ptr \in Nat /\ blocks[n].bytes \in Nat /\ blocks[n].base \in Nat
    BY <1>1, BlockFacts
<1>. QED  BY <1>2, <1>3 DEF Stop

\* A constructor that throws leaves the store as its acquire found it: the
\* cursor of that moment, and only the blocks that were there before.
THEOREM ThrowsRestore == ASSUME NoWrap PROVE ArenaSpec => ArenaThrowRestores
<1>1. ASSUME StackInv, ArenaInv, Throws
      PROVE  cursor' = blocks[Innermost.obj].base /\ Len(blocks') = Innermost.obj - 1
    <2>1. nested # <<>> /\ Owned(Innermost.obj) = {} /\ Deallocate(Innermost.obj)
        BY <1>1 DEF Throws
    <2>2. Innermost.obj = Len(blocks) /\ blocks # <<>>
        BY <1>1, <2>1, NewestOwnsNothing
    <2>3. cursor' = blocks[Innermost.obj].base
        BY <1>1, <2>1, <2>2, CursorReturns
    <2>4. Len(blocks') = Innermost.obj - 1
        BY <1>1, <2>1, <2>2, DropFacts DEF Deallocate, StackInv
    <2>. QED  BY <2>3, <2>4
<1>2. StackInv /\ ArenaInv /\ [ArenaNext]_arenaVars =>
        [Throws => cursor' = blocks[Innermost.obj].base /\ Len(blocks') = Innermost.obj - 1]_arenaVars
    BY <1>1
<1>. QED  BY <1>2, ArenaInvariant, PTL DEF ArenaSpec, ArenaThrowRestores

-----------------------------------------------------------------------------
(* The linear allocator.                                                   *)

\* No request wraps.
LinearNoWrap == \A n \in Sizes, a \in Alignments : End + a + n < Space

\* The cursor is behind the newest block, and so behind them all.
BehindNewest ==
    given # <<>> => given[Len(given)].ptr + given[Len(given)].bytes <= top

LinearInv == LinearTypeOK /\ BehindNewest

LinearRecords == [ptr : Begin..End, bytes : Sizes]

LEMMA LinearAllocateStep ==
    ASSUME LinearInv, LinearNoWrap, NEW n \in Sizes, NEW a \in Alignments,
           LinearAllocate(n, a)
    PROVE  LinearInv' /\ LinearAbs!Push
<1> USE SegmentAssumption
<1> DEFINE p == AlignUp(top, a)
           b == [ptr |-> p, bytes |-> n]
<1>1. /\ top \in Begin..End /\ given \in Seq(LinearRecords)
      /\ n \in Nat /\ a \in Nat \ {0} /\ End + a + n < Space
    BY DEF LinearInv, LinearTypeOK, LinearNoWrap, LinearRecords
<1>2. p \in Nat /\ p % a = 0 /\ top <= p /\ p < top + a
    <2>1. top \in Nat
        BY <1>1
    <2>2. /\ AlignUp(top, a) \in Nat /\ AlignUp(top, a) % a = 0
          /\ top <= AlignUp(top, a) /\ AlignUp(top, a) < top + a
        BY <1>1, <2>1, AlignUpCorrect
    <2>. QED  BY <2>2
<1>3. Add(p, n) <= End /\ top' = Add(p, n) /\ given' = Append(given, b)
    BY DEF LinearAllocate, Add, AlignUp
<1> HIDE DEF p
<1>4. Add(p, n) = p + n
    BY <1>1, <1>2 DEF Add
<1>5. p \in Begin..End /\ p + n <= End /\ top' = p + n
    BY <1>1, <1>2, <1>3, <1>4
<1>6. b \in LinearRecords
    BY <1>5 DEF LinearRecords
<1>7. /\ given' \in Seq(LinearRecords) /\ Len(given') = Len(given) + 1
      /\ given'[Len(given) + 1] = b /\ Len(given) \in Nat
    BY <1>1, <1>3, <1>6, AppendProperties
<1>8. LinearInv'
    BY <1>1, <1>5, <1>7 DEF LinearInv, LinearTypeOK, BehindNewest, LinearRecords
<1>9. given # <<>> => given[Len(given)].ptr + given[Len(given)].bytes <= p
    <2> SUFFICES ASSUME given # <<>>
                 PROVE  given[Len(given)].ptr + given[Len(given)].bytes <= p
        OBVIOUS
    <2>1. given[Len(given)] \in LinearRecords
        BY <1>1
    <2>2. given[Len(given)].ptr \in Nat /\ given[Len(given)].bytes \in Nat
        <3>1. \A r \in LinearRecords : r.ptr \in Nat /\ r.bytes \in Nat
            <4>1. \A k \in Begin..End : k \in Nat
                OBVIOUS
            <4>2. \A r \in LinearRecords : r.ptr \in Begin..End /\ r.bytes \in Sizes
                BY DEF LinearRecords
            <4>. QED  BY <4>1, <4>2
        <3>. QED  BY <2>1, <3>1
    <2>3. given[Len(given)].ptr + given[Len(given)].bytes <= top
        BY DEF LinearInv, BehindNewest
    <2>. QED  BY <1>1, <1>2, <2>2, <2>3
<1>10. LinearAbs!Push
    BY <1>2, <1>3, <1>5, <1>9 DEF LinearAbs!Push, LinearAbs!Stop, LinearAbs!Newest
<1>. QED  BY <1>8, <1>10

LEMMA InitLinear == LinearInit => LinearInv
BY SegmentAssumption DEF LinearInit, LinearInv, LinearTypeOK, BehindNewest

LEMMA LinearNextStep ==
    ASSUME LinearInv, LinearNoWrap, [LinearNext]_linearVars
    PROVE  LinearInv' /\ [LinearAbs!Push \/ LinearAbs!Clear]_given
<1>1. CASE \E n \in Sizes, a \in Alignments : LinearAllocate(n, a)
    BY <1>1, LinearAllocateStep
<1>2. CASE LinearDeallocate \/ UNCHANGED linearVars
    BY <1>2 DEF LinearDeallocate, linearVars, LinearInv, LinearTypeOK, BehindNewest
<1>3. CASE LinearReset
    BY <1>3, SegmentAssumption
       DEF LinearReset, LinearInv, LinearTypeOK, BehindNewest, LinearAbs!Clear
<1>. QED  BY <1>1, <1>2, <1>3 DEF LinearNext

\* Every variable keeps its type; the cursor never leaves the segment.
THEOREM LinearTypeCorrect ==
    ASSUME LinearNoWrap PROVE LinearSpec => []LinearTypeOK
<1>1. LinearInv => LinearTypeOK
    BY DEF LinearInv
<1>. QED  BY <1>1, InitLinear, LinearNextStep, PTL DEF LinearSpec

\* The linear allocator implements the abstract stack of blocks without ever
\* taking one back.
THEOREM LinearRefinesBlocks ==
    ASSUME LinearNoWrap PROVE LinearSpec => LinearImplementsBlocks
<1>1. LinearInit => LinearAbs!Init
    BY DEF LinearInit, LinearAbs!Init
<1>. QED  BY <1>1, InitLinear, LinearNextStep, PTL DEF LinearSpec, LinearImplementsBlocks

-----------------------------------------------------------------------------
(***************************************************************************)
(* The pool, for every capacity and nesting depth, when no constructor     *)
(* calls the pool it is built in: one that does is handed the very slot it *)
(* is building in (pool.ipp:98-116), and nothing below holds of it.        *)
(*                                                                         *)
(* FreeListSound is not inductive: it does not say what the calls in       *)
(* progress carry.  PoolInv adds FrameInv: only the innermost call may be  *)
(* a constructor, it builds in the head of the list and has saved the link *)
(* after it, and every destructor runs in an object of its own.            *)
(***************************************************************************)
FrameInv ==
    /\ \A i \in 1..Len(calls) :
          IF calls[i].op = "dtor" THEN calls[i].slot \in live
          ELSE /\ i = Len(calls)
               /\ free # <<>> /\ calls[i].slot = free[1]
               /\ calls[i].newnext = LinkAfter(1)
    /\ \A i, j \in 1..Len(calls) : calls[i].slot = calls[j].slot => i = j

PoolInv ==
    PoolTypeOK /\ FrameInv /\ FreeListSound /\ SizeCounts /\ ValuesRetained

-----------------------------------------------------------------------------
(* The call stack.                                                         *)

LEMMA PushFacts ==
    ASSUME PoolTypeOK, NEW op \in {"ctor", "dtor"}, NEW s \in Slots,
           NEW n \in Slots \cup {Null}, Push(op, s, n)
    PROVE  /\ calls' \in Seq(Frames)
           /\ Len(calls') = Len(calls) + 1
           /\ \A i \in 1..Len(calls) : calls'[i] = calls[i]
           /\ calls'[Len(calls) + 1] = [op |-> op, slot |-> s, newnext |-> n]
<1>1. [op |-> op, slot |-> s, newnext |-> n] \in Frames
    BY DEF Frames
<1>. QED  BY <1>1, AppendProperties DEF PoolTypeOK, Push

LEMMA PopFacts ==
    ASSUME PoolTypeOK, calls # <<>>, Pop
    PROVE  /\ calls' \in Seq(Frames)
           /\ Len(calls') = Len(calls) - 1
           /\ \A i \in 1..Len(calls') : calls'[i] = calls[i]
           /\ Top \in Frames
<1>1. Len(calls) \in Nat \ {0} /\ \A i \in 1..Len(calls) : calls[i] \in Frames
    BY DEF PoolTypeOK
<1> DEFINE n == Len(calls) - 1
<1>2. n \in Int /\ \A i \in 1..n : calls[i] \in Frames
    BY <1>1
<1> HIDE DEF n
<1>3. /\ SubSeq(calls, 1, n) \in Seq(Frames)
      /\ Len(SubSeq(calls, 1, n)) = IF 1 <= n THEN n - 1 + 1 ELSE 0
      /\ \A i \in 1..(n - 1 + 1) : SubSeq(calls, 1, n)[i] = calls[1 + i - 1]
    BY <1>2, SubSeqProperties
<1>4. calls' = SubSeq(calls, 1, n)
    BY DEF Pop, n
<1>5. Len(calls') = n
    <2>1. n \in Nat
        BY <1>1 DEF n
    <2>2. (IF 1 <= n THEN n - 1 + 1 ELSE 0) = n
        BY <2>1
    <2>. QED  BY <1>3, <1>4, <2>2
<1>6. \A i \in 1..Len(calls') : calls'[i] = calls[i]
    BY <1>2, <1>3, <1>4, <1>5
<1>. QED  BY <1>1, <1>3, <1>4, <1>5, <1>6 DEF Top, n

-----------------------------------------------------------------------------
(* The free list when its head is taken, and when a slot is put in front.  *)

LEMMA TailFacts ==
    ASSUME PoolTypeOK, free # <<>>, free' = Tail(free)
    PROVE  /\ free' \in Seq(Slots)
           /\ Len(free') = Len(free) - 1
           /\ \A i \in 1..Len(free') : free'[i] = free[i + 1]
           /\ \A i \in 0..Len(free') : LinkAfter(i)' = LinkAfter(i + 1)
<1>1. /\ free' \in Seq(Slots)
      /\ Len(free') = Len(free) - 1
      /\ \A i \in 1..Len(free') : free'[i] = free[i + 1]
    BY HeadTailProperties DEF PoolTypeOK
<1>. QED  BY <1>1 DEF LinkAfter, PoolTypeOK

LEMMA ConsFacts ==
    ASSUME PoolTypeOK, NEW s \in Slots, free' = <<s>> \o free
    PROVE  /\ free' \in Seq(Slots)
           /\ Len(free') = Len(free) + 1
           /\ free'[1] = s
           /\ \A i \in 1..Len(free) : free'[i + 1] = free[i]
           /\ \A i \in 0..Len(free) : LinkAfter(i + 1)' = LinkAfter(i)
<1>1. /\ free' \in Seq(Slots)
      /\ Len(free') = Len(free) + 1
      /\ free'[1] = s
      /\ \A i \in 1..Len(free) : free'[i + 1] = free[i]
    BY ConcatProperties DEF PoolTypeOK
<1>. QED  BY <1>1 DEF LinkAfter, PoolTypeOK

LEMMA EmptyFacts ==
    ASSUME free' \in Seq(Slots), next' = LinkAfter(0)'
    PROVE  next' = Null <=> Len(free') = 0
<1>1. Len(free') \in Nat /\ (0 < Len(free') => free'[1] \in Slots)
    OBVIOUS
<1>2. next' = IF 0 < Len(free') THEN free'[1] ELSE Null
    BY DEF LinkAfter
<1>. QED  BY <1>1, <1>2 DEF Slots, Null

LEMMA LiveIsFinite ==
    ASSUME PoolTypeOK
    PROVE  /\ IsFiniteSet(live)
           /\ Cardinality(live) \in Nat
           /\ Cardinality(live) <= Capacity
<1>1. IsFiniteSet(Slots) /\ Cardinality(Slots) = Capacity
    BY FS_Interval, PoolAssumption DEF Slots
<1>. QED  BY <1>1, FS_Subset, FS_CardinalityType DEF PoolTypeOK

-----------------------------------------------------------------------------
LEMMA InitPool == PoolInit => PoolInv
<1> SUFFICES ASSUME PoolInit PROVE PoolInv
    OBVIOUS
<1> USE PoolAssumption DEF PoolInit, Slots, Null, Data
<1>1. free \in Seq(Slots) /\ Len(free) = Capacity
    OBVIOUS
<1>2. PoolTypeOK
    BY <1>1 DEF PoolTypeOK
<1>3. FrameInv
    BY DEF FrameInv
<1>4. FreeListSound
    BY <1>1 DEF FreeListSound, LinkAfter
<1>5. SizeCounts
    BY <1>1, FS_EmptySet DEF SizeCounts
<1>. QED  BY <1>2, <1>3, <1>4, <1>5 DEF PoolInv, ValuesRetained

LEMMA AcquireBeginStep ==
    ASSUME PoolInv, AcquireBegin, ~CtorReenters
    PROVE  PoolInv'
<1> USE PoolAssumption DEF PoolInv, AcquireBegin
<1> DEFINE saved == mem[next]
<1>1. next = free[1] /\ free # <<>> /\ next \in Slots /\ Len(free) \in Nat \ {0}
    BY DEF FreeListSound, LinkAfter, PoolTypeOK, Slots, Null
<1>2. \A i \in 1..Len(calls) : calls[i].op = "dtor"
    BY DEF MayCall, Top, FrameInv, PoolTypeOK, Frames
<1>3. saved = LinkAfter(1) /\ saved \in Slots \cup {Null}
    <2>1. ~(calls # <<>> /\ Top.op = "ctor")
        BY <1>2 DEF Top, PoolTypeOK
    <2>2. mem[free[1]] = LinkAfter(1)
        BY <1>1, <2>1 DEF FreeListSound
    <2>. QED  BY <1>1, <2>2 DEF LinkAfter, PoolTypeOK
<1>4. /\ calls' \in Seq(Frames)
      /\ Len(calls') = Len(calls) + 1
      /\ \A i \in 1..Len(calls) : calls'[i] = calls[i]
      /\ calls'[Len(calls) + 1] = [op |-> "ctor", slot |-> next, newnext |-> saved]
    BY <1>1, <1>3, PushFacts
<1>5. Len(calls) \in Nat
    BY DEF PoolTypeOK
<1>6. PoolTypeOK'
    BY <1>1, <1>4 DEF PoolTypeOK
<1>7. next \notin live
    BY <1>1 DEF FreeListSound
<1>8. FrameInv'
    BY <1>1, <1>2, <1>3, <1>4, <1>5, <1>7 DEF FrameInv, LinkAfter
<1>9. calls' # <<>> /\ Top'.op = "ctor" /\ Top'.newnext = LinkAfter(1)
    BY <1>3, <1>4, <1>5 DEF Top
<1>10. FreeListSound'
    <2>1. \A i \in 2..Len(free) : mem'[free[i]] = mem[free[i]]
        BY <1>1 DEF FreeListSound, PoolTypeOK
    <2>. QED  BY <1>1, <1>9, <2>1 DEF FreeListSound, LinkAfter, PoolTypeOK
<1>11. ValuesRetained'
    BY <1>7 DEF ValuesRetained, PoolTypeOK
<1>. QED  BY <1>6, <1>8, <1>10, <1>11 DEF SizeCounts

\* What the innermost constructor knows, and what is left when it is gone.
LEMMA CtorFacts ==
    ASSUME PoolInv, calls # <<>>, Top.op = "ctor", Pop
    PROVE  /\ free # <<>> /\ Len(free) \in Nat \ {0}
           /\ Top.slot = free[1] /\ next = free[1] /\ free[1] \in Slots \ live
           /\ Top.newnext = LinkAfter(1) /\ LinkAfter(1) \in Slots \cup {Null}
           /\ calls' \in Seq(Frames)
           /\ \A i \in 1..Len(calls') : calls'[i].op = "dtor"
           /\ \A i \in 1..Len(calls') : calls'[i].slot \in live
           /\ \A i, j \in 1..Len(calls') : calls'[i].slot = calls'[j].slot => i = j
<1> USE DEF PoolInv
<1>1. /\ calls' \in Seq(Frames)
      /\ Len(calls') = Len(calls) - 1
      /\ \A i \in 1..Len(calls') : calls'[i] = calls[i]
    BY PopFacts
<1>2. Len(calls) \in Nat \ {0}
    BY DEF PoolTypeOK
<1>3. free # <<>> /\ Top.slot = free[1] /\ Top.newnext = LinkAfter(1)
    BY <1>2 DEF FrameInv, Top
<1>4. Len(free) \in Nat \ {0} /\ free[1] \in Slots
    BY <1>3 DEF PoolTypeOK
<1>5. next = free[1] /\ free[1] \notin live
    BY <1>4 DEF FreeListSound, LinkAfter
<1>6. LinkAfter(1) \in Slots \cup {Null}
    BY DEF LinkAfter, PoolTypeOK
<1>7. \A i \in 1..Len(calls') : i \in 1..Len(calls) /\ i # Len(calls)
    BY <1>1, <1>2
<1>8. \A i \in 1..Len(calls') : calls[i].op = "dtor" /\ calls[i].slot \in live
    BY <1>7 DEF FrameInv, PoolTypeOK, Frames
<1>9. \A i, j \in 1..Len(calls') : calls[i].slot = calls[j].slot => i = j
    BY <1>7 DEF FrameInv
<1>. QED  BY <1>1, <1>3, <1>4, <1>5, <1>6, <1>8, <1>9

LEMMA AcquireDoneStep ==
    ASSUME PoolInv, AcquireDone
    PROVE  PoolInv'
<1> USE PoolAssumption DEF PoolInv, AcquireDone
<1>1. /\ free # <<>> /\ Len(free) \in Nat \ {0}
      /\ Top.slot = free[1] /\ free[1] \in Slots \ live
      /\ Top.newnext = LinkAfter(1) /\ LinkAfter(1) \in Slots \cup {Null}
      /\ calls' \in Seq(Frames)
      /\ \A i \in 1..Len(calls') : calls'[i].op = "dtor"
      /\ \A i \in 1..Len(calls') : calls'[i].slot \in live
      /\ \A i, j \in 1..Len(calls') : calls'[i].slot = calls'[j].slot => i = j
    BY CtorFacts
<1>2. /\ free' \in Seq(Slots)
      /\ Len(free') = Len(free) - 1
      /\ \A i \in 1..Len(free') : free'[i] = free[i + 1]
      /\ \A i \in 0..Len(free') : LinkAfter(i)' = LinkAfter(i + 1)
    BY <1>1, TailFacts
<1>3. size' \in 0..Capacity /\ size' = Cardinality(live')
    <2>1. Cardinality(live') = Cardinality(live) + 1
        BY <1>1, LiveIsFinite, FS_AddElement
    <2>. QED  BY <1>1, <2>1 DEF SizeCounts, PoolTypeOK
<1>4. PoolTypeOK'
    BY <1>1, <1>2, <1>3 DEF PoolTypeOK
<1>5. FrameInv'
    BY <1>1 DEF FrameInv
<1>6. next' = LinkAfter(0)'
    BY <1>1, <1>2
<1>7. FreeListSound'
    <2>1. \A i, j \in 1..Len(free') : free'[i] = free'[j] => i = j
        BY <1>1, <1>2 DEF FreeListSound
    <2>2. \A i \in 1..Len(free') : free'[i] # free[1] /\ free'[i] \in Slots
        BY <1>1, <1>2 DEF FreeListSound
    <2>3. \A i \in 1..Len(free') : mem'[free'[i]] = LinkAfter(i)'
        <3> SUFFICES ASSUME NEW i \in 1..Len(free')
                     PROVE  mem'[free'[i]] = LinkAfter(i)'
            OBVIOUS
        <3>1. i + 1 \in 2..Len(free) /\ free'[i] = free[i + 1]
            BY <1>1, <1>2
        <3>2. mem[free[i + 1]] = LinkAfter(i + 1)
            BY <3>1 DEF FreeListSound
        <3>3. LinkAfter(i)' = LinkAfter(i + 1)
            BY <1>2
        <3>. QED  BY <1>1, <2>2, <3>1, <3>2, <3>3 DEF PoolTypeOK
    <2>4. \A s \in Slots : s \in live' <=> \A i \in 1..Len(free') : free'[i] # s
        <3>1. \A s \in Slots : (\A i \in 1..Len(free') : free'[i] # s)
                 <=> (s = free[1] \/ \A i \in 1..Len(free) : free[i] # s)
            <4>1. \A i \in 1..Len(free) : i = 1 \/ (i - 1 \in 1..Len(free') /\ free[i] = free'[i - 1])
                BY <1>1, <1>2
            <4>2. \A i \in 1..Len(free') : i + 1 \in 1..Len(free) /\ free'[i] = free[i + 1]
                BY <1>1, <1>2
            <4>. QED  BY <4>1, <4>2, <2>2
        <3>. QED  BY <1>1, <3>1 DEF FreeListSound
    <2>. QED  BY <1>6, <2>1, <2>3, <2>4 DEF FreeListSound
<1>8. SizeCounts'
    <2>1. size' + Len(free') = Capacity
        BY <1>1, <1>2 DEF SizeCounts, PoolTypeOK
    <2>2. next' = Null <=> Len(free') = 0
        BY <1>2, <1>6, EmptyFacts
    <2>. QED  BY <1>2, <1>3, <2>1, <2>2 DEF SizeCounts
<1>9. ValuesRetained'
    BY <1>1 DEF ValuesRetained, PoolTypeOK
<1>. QED  BY <1>4, <1>5, <1>7, <1>8, <1>9

LEMMA AcquireThrowsStep ==
    ASSUME PoolInv, AcquireThrows
    PROVE  PoolInv'
<1> USE PoolAssumption DEF PoolInv, AcquireThrows
<1>1. /\ free # <<>> /\ Len(free) \in Nat \ {0}
      /\ Top.slot = free[1] /\ next = free[1] /\ free[1] \in Slots \ live
      /\ Top.newnext = LinkAfter(1) /\ LinkAfter(1) \in Slots \cup {Null}
      /\ calls' \in Seq(Frames)
      /\ \A i \in 1..Len(calls') : calls'[i].op = "dtor"
      /\ \A i \in 1..Len(calls') : calls'[i].slot \in live
      /\ \A i, j \in 1..Len(calls') : calls'[i].slot = calls'[j].slot => i = j
    BY CtorFacts
<1>2. PoolTypeOK'
    BY <1>1 DEF PoolTypeOK
<1>3. FrameInv'
    BY <1>1 DEF FrameInv
<1>4. \A i \in 1..Len(free) : mem'[free[i]] = LinkAfter(i)
    BY <1>1 DEF FreeListSound, PoolTypeOK
<1>5. FreeListSound'
    BY <1>1, <1>4 DEF FreeListSound, LinkAfter
<1>6. ValuesRetained'
    BY <1>1 DEF ValuesRetained, PoolTypeOK
<1>. QED  BY <1>2, <1>3, <1>5, <1>6 DEF SizeCounts

LEMMA ReleaseBeginStep ==
    ASSUME PoolInv, NEW s \in Slots, ReleaseBegin(s), ~CtorReenters
    PROVE  PoolInv'
<1> USE PoolAssumption DEF PoolInv, ReleaseBegin
<1>1. /\ calls' \in Seq(Frames)
      /\ Len(calls') = Len(calls) + 1
      /\ \A i \in 1..Len(calls) : calls'[i] = calls[i]
      /\ calls'[Len(calls) + 1] = [op |-> "dtor", slot |-> s, newnext |-> Null]
    BY PushFacts
<1>2. Len(calls) \in Nat
    BY DEF PoolTypeOK
<1>3. \A i \in 1..Len(calls) : calls[i].op = "dtor"
    BY DEF MayCall, Top, FrameInv, PoolTypeOK, Frames
<1>4. PoolTypeOK'
    BY <1>1 DEF PoolTypeOK
<1>5. FrameInv'
    BY <1>1, <1>2, <1>3 DEF FrameInv
<1>6. ~(calls # <<>> /\ Top.op = "ctor")
    BY <1>3 DEF Top, PoolTypeOK
<1>7. FreeListSound'
    BY <1>6 DEF FreeListSound, LinkAfter
<1>. QED  BY <1>4, <1>5, <1>7 DEF SizeCounts, ValuesRetained

LEMMA ReleaseDoneStep ==
    ASSUME PoolInv, ReleaseDone
    PROVE  PoolInv'
<1> USE PoolAssumption DEF PoolInv, ReleaseDone
<1> DEFINE s == Top.slot
<1>1. /\ calls' \in Seq(Frames)
      /\ Len(calls') = Len(calls) - 1
      /\ \A i \in 1..Len(calls') : calls'[i] = calls[i]
      /\ s \in Slots
    BY PopFacts DEF Frames
<1>2. Len(calls) \in Nat \ {0} /\ Len(free) \in Nat
    BY DEF PoolTypeOK
<1>3. s \in live
    BY <1>2 DEF FrameInv, Top
<1>4. \A i \in 1..Len(calls') :
          calls[i].op = "dtor" /\ calls[i].slot \in live \ {s}
    <2> SUFFICES ASSUME NEW i \in 1..Len(calls')
                 PROVE  calls[i].op = "dtor" /\ calls[i].slot \in live \ {s}
        OBVIOUS
    <2>1. i \in 1..Len(calls) /\ i # Len(calls) /\ Len(calls) \in 1..Len(calls)
        BY <1>1, <1>2
    <2>. QED  BY <2>1 DEF FrameInv, Top, PoolTypeOK, Frames
<1>5. /\ free' \in Seq(Slots)
      /\ Len(free') = Len(free) + 1
      /\ free'[1] = s
      /\ \A i \in 1..Len(free) : free'[i + 1] = free[i]
      /\ \A i \in 0..Len(free) : LinkAfter(i + 1)' = LinkAfter(i)
    BY <1>1, ConsFacts
<1>6. \A i \in 1..Len(free) : free[i] # s /\ mem[free[i]] = LinkAfter(i)
    BY <1>1, <1>3 DEF FreeListSound
<1>7. size' \in 0..Capacity /\ size' = Cardinality(live')
    <2>1. Cardinality(live') = Cardinality(live) - 1 /\ IsFiniteSet(live')
        BY <1>3, LiveIsFinite, FS_RemoveElement
    <2>2. Cardinality(live') \in Nat
        BY <2>1, FS_CardinalityType
    <2>. QED  BY <2>1, <2>2, LiveIsFinite DEF SizeCounts
<1>8. PoolTypeOK'
    BY <1>1, <1>5, <1>7 DEF PoolTypeOK
<1>9. FrameInv'
    <2>1. \A i \in 1..Len(calls') : i \in 1..Len(calls)
        BY <1>1, <1>2
    <2>. QED  BY <1>1, <1>4, <2>1 DEF FrameInv
<1>10. next' = LinkAfter(0)'
    BY <1>2, <1>5 DEF LinkAfter
<1>11. FreeListSound'
    <2>1. \A i \in 1..Len(free') :
             i = 1 \/ (i - 1 \in 1..Len(free) /\ free'[i] = free[i - 1])
        BY <1>2, <1>5
    <2>2. \A i, j \in 1..Len(free') : free'[i] = free'[j] => i = j
        BY <1>2, <1>5, <1>6, <2>1 DEF FreeListSound
    <2>3. \A i \in 1..Len(free') : mem'[free'[i]] = LinkAfter(i)'
        <3> SUFFICES ASSUME NEW i \in 1..Len(free')
                     PROVE  mem'[free'[i]] = LinkAfter(i)'
            OBVIOUS
        <3>1. CASE i = 1
            <4>1. LinkAfter(0 + 1)' = LinkAfter(0)
                <5>1. 0 \in 0..Len(free)
                    BY <1>2
                <5>. QED  BY ONLY <5>1, <1>5
            <4>. QED  BY <3>1, <4>1, <1>1, <1>5 DEF FreeListSound, PoolTypeOK
        <3>2. CASE i # 1
            <4>1. i - 1 \in 1..Len(free) /\ free'[i] = free[i - 1]
                BY <2>1, <3>2
            <4>2. LinkAfter((i - 1) + 1)' = LinkAfter(i - 1)
                BY <4>1, <1>5
            <4>3. mem'[free[i - 1]] = LinkAfter(i - 1)
                BY <4>1, <1>6 DEF PoolTypeOK
            <4>. QED  BY <4>1, <4>2, <4>3
        <3>. QED  BY <3>1, <3>2
    <2>4. \A t \in Slots : t \in live' <=> \A i \in 1..Len(free') : free'[i] # t
        <3>1. \A t \in Slots : (\A i \in 1..Len(free') : free'[i] # t)
                 <=> (t # s /\ \A i \in 1..Len(free) : free[i] # t)
            BY <1>2, <1>5, <2>1
        <3>. QED  BY <3>1 DEF FreeListSound
    <2>. QED  BY <1>10, <2>2, <2>3, <2>4 DEF FreeListSound
<1>12. SizeCounts'
    <2>1. size' + Len(free') = Capacity
        BY <1>2, <1>5 DEF SizeCounts, PoolTypeOK
    <2>2. next' # Null /\ Len(free') # 0
        BY <1>1, <1>2, <1>5 DEF Slots, Null
    <2>. QED  BY <1>5, <1>7, <2>1, <2>2 DEF SizeCounts
<1>13. ValuesRetained'
    BY <1>1 DEF ValuesRetained, PoolTypeOK
<1>. QED  BY <1>8, <1>9, <1>11, <1>12, <1>13

LEMMA PoolStep ==
    ASSUME PoolInv, [PoolNext]_poolVars, ~CtorReenters
    PROVE  PoolInv'
<1>1. CASE UNCHANGED poolVars
    BY <1>1 DEF poolVars, PoolInv, PoolTypeOK, FrameInv, FreeListSound, SizeCounts,
                ValuesRetained, LinkAfter, Top
<1>2. CASE PoolNext
    BY <1>2, AcquireBeginStep, AcquireDoneStep, AcquireThrowsStep,
       ReleaseBeginStep, ReleaseDoneStep DEF PoolNext
<1>. QED  BY <1>1, <1>2

\* The strengthened invariant.
THEOREM PoolInvariance == ASSUME ~CtorReenters PROVE PoolSpec => []PoolInv
<1>. QED  BY InitPool, PoolStep, PTL DEF PoolSpec

\* Every variable keeps its type, whatever the capacity and the nesting.
THEOREM PoolTypeCorrect == ASSUME ~CtorReenters PROVE PoolSpec => []PoolTypeOK
<1>1. PoolInv => PoolTypeOK
    BY DEF PoolInv
<1>. QED  BY <1>1, PoolInvariance, PTL

\* The links thread exactly the free slots.
THEOREM FreeListCorrect == ASSUME ~CtorReenters PROVE PoolSpec => []FreeListSound
<1>1. PoolInv => FreeListSound
    BY DEF PoolInv
<1>. QED  BY <1>1, PoolInvariance, PTL

\* size () is the number of objects, and empty () is true exactly when
\* acquire would throw.
THEOREM SizeCorrect == ASSUME ~CtorReenters PROVE PoolSpec => []SizeCounts
<1>1. PoolInv => SizeCounts
    BY DEF PoolInv
<1>. QED  BY <1>1, PoolInvariance, PTL

\* The pool never writes into an object that exists.
THEOREM ValuesKept == ASSUME ~CtorReenters PROVE PoolSpec => []ValuesRetained
<1>1. PoolInv => ValuesRetained
    BY DEF PoolInv
<1>. QED  BY <1>1, PoolInvariance, PTL

\* The safety of the pool as one invariant: a whole free list, a count that
\* agrees, objects that keep their bytes, and, through every nesting of
\* destructors that acquire and release, one holder per slot.
THEOREM PoolSafety == ASSUME ~CtorReenters PROVE PoolSpec => []PoolSafe
<1>1. PoolInv => PoolSafe
    <2>1. PoolInv => AcquireIsFresh
        BY DEF PoolInv, AcquireIsFresh, FrameInv, FreeListSound, PoolTypeOK, Frames
    <2>. QED  BY <2>1 DEF PoolInv, PoolSafe
<1>. QED  BY <1>1, PoolInvariance, PTL

LEMMA PoolStepRefines ==
    ASSUME PoolInv, [PoolNext]_poolVars
    PROVE  [Store!Next]_<<live, size>>
<1>1. CASE UNCHANGED poolVars
    BY <1>1 DEF poolVars
<1>2. CASE AcquireDone
    <2>1. Top.slot \in Slots \ live
        BY <1>2, CtorFacts DEF AcquireDone
    <2>. QED  BY <1>2, <2>1 DEF AcquireDone, Store!Next, Store!Acquire
<1>3. CASE ReleaseDone
    <2>1. Len(calls) \in Nat \ {0}
        BY <1>3 DEF ReleaseDone, PoolInv, PoolTypeOK
    <2>2. Top.slot \in live
        BY <1>3, <2>1 DEF ReleaseDone, PoolInv, FrameInv, Top
    <2>. QED  BY <1>3, <2>2 DEF ReleaseDone, Store!Next, Store!Release
<1>4. CASE AcquireBegin \/ AcquireThrows \/ \E s \in Slots : ReleaseBegin(s)
    BY <1>4 DEF AcquireBegin, AcquireThrows, ReleaseBegin
<1>. QED  BY <1>1, <1>2, <1>3, <1>4 DEF PoolNext

\* The pool implements the abstract slot store.
THEOREM PoolRefinesStore == ASSUME ~CtorReenters PROVE PoolSpec => ImplementsStore
<1>1. PoolInit => Store!Init
    BY DEF PoolInit, Store!Init
<1>. QED  BY <1>1, PoolStepRefines, PoolInvariance, PTL DEF PoolSpec, ImplementsStore, Store!Spec
=============================================================================
