----------------------------- MODULE Allocators -----------------------------
(***************************************************************************)
(* util::alloc::raw::stack (src/alloc/raw/stack.cpp): blocks are cut from  *)
(* one segment by a cursor.  The distance from the cursor to the returned  *)
(* pointer is written into the bytes in front of the block, inside the     *)
(* segment the client writes to, and is all deallocate has to move the     *)
(* cursor back with.                                                       *)
(***************************************************************************)
EXTENDS Naturals, Sequences, Pointer

CONSTANTS
    Begin, End,     \* m_begin, m_end
    Sizes,          \* block sizes a client asks for
    Alignments,     \* alignments a client asks for
    Space,          \* addresses are computed modulo this
    Header          \* sizeof (record::offset_t), also MIN_ALIGNMENT

ASSUME SegmentAssumption ==
    /\ Begin \in Nat /\ End \in Nat /\ Begin <= End
    /\ Space \in Nat \ {0}
    /\ Sizes \subseteq Nat
    /\ Alignments \subseteq Nat \ {0}
ASSUME StackAssumption == Header \in Nat \ {0}

VARIABLES
    cursor,     \* m_cursor
    header,     \* the offset a header at each address holds, or Garbage
    blocks      \* history: the live blocks, oldest first

vars == <<cursor, header, blocks>>

Addresses == 0..(End + Header)
Garbage == Space    \* no offset: bytes somebody else wrote

Add(p, n) == (p + n) % Space
Max2(a, b) == IF a > b THEN a ELSE b

Stop(b) == b.ptr + b.bytes

\* Memory after somebody writes from lo to hi: no header in there survives.
Written(lo, hi) ==
    [k \in Addresses |-> IF lo < k + Header /\ k < hi THEN Garbage ELSE header[k]]

Init ==
    /\ cursor = Begin
    /\ header = [k \in Addresses |-> Garbage]
    /\ blocks = <<>>

-----------------------------------------------------------------------------
\* Where an allocation would go.
Placed(alignment) == AlignUp(Add(cursor, Header), Max2(Header, alignment))

Fits(n, alignment) == Add(Placed(alignment), n) <= End

\* allocate; it throws bad_alloc and changes nothing when the block does not
\* fit.
Allocate(n, alignment) ==
    /\ Fits(n, alignment)
    /\ LET p == Placed(alignment) IN
       /\ cursor' = Add(p, n)
       /\ header' = [Written(p - Header, p) EXCEPT ![p - Header] = p - cursor]
       /\ blocks' = Append(blocks, [ptr |-> p, bytes |-> n,
                                    align |-> alignment, base |-> cursor])

Without(i) == [k \in 1..(Len(blocks) - 1) |-> blocks[IF k < i THEN k ELSE k + 1]]

Deallocate_KeepsOffset(i) ==
    /\ cursor' = cursor - blocks[i].bytes
    /\ blocks' = Without(i)
    /\ UNCHANGED header

\* deallocate of the i-th block, whatever its place: the cursor goes back by
\* the size the caller passes and by what the header holds.
Deallocate(i) ==
    /\ cursor' = cursor - blocks[i].bytes - header[blocks[i].ptr - Header]
    /\ blocks' = Without(i)
    /\ UNCHANGED header

\* The client writes every byte of a block it holds.
ClientWrites(i) ==
    /\ header' = Written(blocks[i].ptr, Stop(blocks[i]))
    /\ UNCHANGED <<cursor, blocks>>

\* reset: everything is given up at once.
Reset == cursor' = Begin /\ blocks' = <<>> /\ UNCHANGED header

\* Clients free the newest block first: "deallocation that is not correctly
\* ordered has undefined (read 'bad') results" (stack.hpp:24-25).
Next ==
    \/ \E n \in Sizes, a \in Alignments : Allocate(n, a)
    \/ blocks # <<>> /\ Deallocate(Len(blocks))
    \/ \E i \in 1..Len(blocks) : ClientWrites(i)
    \/ Reset

Spec == Init /\ [][Next]_vars

-----------------------------------------------------------------------------
(* Properties.                                                             *)

BlockRecords == [ptr : Nat, bytes : Sizes, align : Alignments, base : Nat]

\* Type invariant.
TypeOK ==
    /\ cursor \in Begin..End
    /\ header \in [Addresses -> 0..Space]
    /\ blocks \in Seq(BlockRecords)

\* Every block lies in the segment behind its own header, and no block
\* overlaps the header or the bytes of a later one: "ensure we haven't
\* overrun our allocated segment" (stack.cpp:69).
BlocksDisjoint ==
    \A i \in 1..Len(blocks) :
        /\ Begin + Header <= blocks[i].ptr /\ Stop(blocks[i]) <= End
        /\ \A j \in (i + 1)..Len(blocks) : Stop(blocks[i]) + Header <= blocks[j].ptr

\* Every block has the alignment that was asked for (aligned.hpp:26: "wraps a
\* child allocator and enforces a fixed alignment").
BlocksAligned == \A i \in 1..Len(blocks) : blocks[i].ptr % blocks[i].align = 0

\* Every header survives what the clients write and what is allocated after
\* it, and holds the way back to the cursor of its allocation.
HeadersIntact ==
    \A i \in 1..Len(blocks) :
        header[blocks[i].ptr - Header] = blocks[i].ptr - blocks[i].base

\* The cursor is exactly where it was before the blocks that are gone were
\* allocated: it follows the newest live block, and each block starts where
\* the one before it ended, so no space is lost to padding (stack.cpp:109-110).
CursorExact ==
    LET EndOf(i) == IF i = 0 THEN Begin ELSE Stop(blocks[i]) IN
    /\ cursor = EndOf(Len(blocks))
    /\ \A i \in 1..Len(blocks) : blocks[i].base = EndOf(i - 1)

\* What the stack allocator keeps between the blocks of its clients is whole:
\* every header, and with it the way back for the cursor (stack.cpp:73-111).
StackWhole == HeadersIntact /\ CursorExact

\* The allocator implements the abstract stack of blocks.
Handed(bs) == [i \in 1..Len(bs) |-> [ptr |-> bs[i].ptr, bytes |-> bs[i].bytes]]
Abs == INSTANCE BlockStack WITH blocks <- Handed(blocks)
ImplementsBlocks == Abs!Spec

-----------------------------------------------------------------------------
(***************************************************************************)
(* util::alloc::raw::linear (src/alloc/raw/linear.cpp): a cursor that only *)
(* moves up; deallocate does nothing and reset gives everything back.  The *)
(* segment, what clients ask for and the arithmetic on addresses are those *)
(* of the stack, whose cursor and blocks this allocator knows nothing of.  *)
(***************************************************************************)

VARIABLES
    top,        \* m_cursor
    given       \* history: what was handed out since the last reset

linearVars == <<top, given>>

LinearInit == top = Begin /\ given = <<>>

LinearAllocate_Rounded(n, alignment) ==
    LET p == AlignUp(top, alignment) IN
    /\ Add(p, n) <= End
    /\ top' = p
    /\ given' = Append(given, [ptr |-> p, bytes |-> n])

\* allocate; it throws bad_alloc and changes nothing when the block does not
\* fit.
LinearAllocate(n, alignment) ==
    LET p == AlignUp(top, alignment) IN
    /\ Add(p, n) <= End
    /\ top' = Add(p, n)
    /\ given' = Append(given, [ptr |-> p, bytes |-> n])

\* deallocate: whatever the block, in whatever order.
LinearDeallocate == given # <<>> /\ UNCHANGED linearVars

LinearReset == top' = Begin /\ given' = <<>>

LinearNext ==
    \/ \E n \in Sizes, a \in Alignments : LinearAllocate(n, a)
    \/ LinearDeallocate
    \/ LinearReset

LinearSpec == LinearInit /\ [][LinearNext]_linearVars

-----------------------------------------------------------------------------
(* Properties.                                                             *)

\* Type invariant; the cursor stays in the segment, so that remain () does
\* not wrap (linear.cpp:121-134).
LinearTypeOK ==
    /\ top \in Begin..End
    /\ given \in Seq([ptr : Begin..End, bytes : Sizes])

\* The linear allocator implements the abstract stack of blocks, and never
\* takes a single block back (linear.cpp:37-75).
LinearAbs == INSTANCE BlockStack WITH blocks <- given
LinearImplementsBlocks ==
    LinearAbs!Init /\ [][LinearAbs!Push \/ LinearAbs!Clear]_given

-----------------------------------------------------------------------------
(***************************************************************************)
(* util::alloc::arena (src/alloc/arena.ipp) over a stack allocator.        *)
(* acquire allocates and then constructs, release destroys and then        *)
(* deallocates, so the objects a constructor acquires lie above the object *)
(* it builds, and a stack allocator is used in order only because they are *)
(* gone again - released by the destructor, or by the unwinding of a       *)
(* constructor that throws - before their owner is deallocated.            *)
(***************************************************************************)

CONSTANT Nesting    \* bound: nesting of constructors and destructors

VARIABLES           \* beside those of the store
    owner,      \* history: for each block, the position of the block whose
                \* constructor or destructor acquired it; 0 is outside code
    nested      \* acquire and release calls in progress, innermost last

arenaVars == <<vars, owner, nested>>

\* Objects are named by the place of their block.
Objects == 1..Len(blocks)
Innermost == nested[Len(nested)]
Running == IF nested = <<>> THEN 0 ELSE Innermost.obj
Owned(o) == {p \in Objects : owner[p] = o}
Leave == nested' = SubSeq(nested, 1, Len(nested) - 1)

\* The names of the objects after block o is gone.
Renamed(p, o) == IF p > o THEN p - 1 ELSE p
Forget(o) ==
    owner' = [k \in 1..(Len(blocks) - 1) |->
                 Renamed(owner[IF k < o THEN k ELSE k + 1], o)]

ArenaInit == Init /\ owner = <<>> /\ nested = <<>>

-----------------------------------------------------------------------------
\* acquire: memory first; bad_alloc passes through and changes nothing.
Acquire(n, a) ==
    /\ Len(nested) < Nesting
    /\ Allocate(n, a)
    /\ owner' = Append(owner, Running)
    /\ nested' = Append(nested, [op |-> "ctor", obj |-> Len(blocks) + 1])

\* The constructor returns.
Constructed ==
    /\ nested # <<>> /\ Innermost.op = "ctor"
    /\ Leave
    /\ UNCHANGED <<cursor, header, blocks, owner>>

Throws_Leaks ==
    /\ nested # <<>> /\ Innermost.op = "ctor" /\ Owned(Innermost.obj) = {}
    /\ Leave
    /\ UNCHANGED <<cursor, header, blocks, owner>>

\* The constructor throws: what it acquired has been released by unwinding,
\* and the memory goes back before the exception goes on.
Throws ==
    /\ nested # <<>> /\ Innermost.op = "ctor" /\ Owned(Innermost.obj) = {}
    /\ Deallocate(Innermost.obj)
    /\ Forget(Innermost.obj)
    /\ Leave

\* release: the destructor first.  Owners release what they own newest
\* first, as members and locals are.
DestroyBegin(o) ==
    /\ Len(nested) < Nesting
    /\ o \in Owned(Running)
    /\ \A p \in Owned(Running) : p <= o
    /\ nested' = Append(nested, [op |-> "dtor", obj |-> o])
    /\ UNCHANGED <<cursor, header, blocks, owner>>

Destroyed_FreesEarly ==
    /\ nested # <<>> /\ Innermost.op = "dtor"
    /\ Deallocate(Innermost.obj)
    /\ Forget(Innermost.obj)
    /\ Leave

\* The destructor has returned, and has released what its object owned.
Destroyed ==
    /\ nested # <<>> /\ Innermost.op = "dtor" /\ Owned(Innermost.obj) = {}
    /\ Deallocate(Innermost.obj)
    /\ Forget(Innermost.obj)
    /\ Leave

ArenaNext ==
    \/ \E n \in Sizes, a \in Alignments : Acquire(n, a)
    \/ Constructed \/ Throws
    \/ \E o \in Objects : DestroyBegin(o)
    \/ Destroyed

ArenaSpec == ArenaInit /\ [][ArenaNext]_arenaVars

-----------------------------------------------------------------------------
(* Properties.                                                             *)

\* Type invariant.
ArenaTypeOK ==
    /\ TypeOK
    /\ owner \in Seq(Nat) /\ Len(owner) = Len(blocks)
    /\ \A p \in Objects : owner[p] \in 0..(p - 1)
    /\ nested \in Seq([op : {"ctor", "dtor"}, obj : Nat])
    /\ \A i \in 1..Len(nested) : nested[i].obj \in Objects

\* The arena uses its store as the store demands: whatever is deallocated is
\* the newest block, although acquire and release run user code half way and
\* may end in an exception (arena.ipp:41-46, 58-59; stack.hpp:24-25).
ArenaUsesStoreInOrder == Spec

\* An acquire that throws leaves the store as it found it (arena.ipp:43-45).
ArenaThrowRestores ==
    [][Throws => /\ cursor' = blocks[Innermost.obj].base
                 /\ Len(blocks') = Innermost.obj - 1]_arenaVars
=============================================================================
