-------------------------------- MODULE Pool --------------------------------
(***************************************************************************)
(* util::pool (src/pool.hpp, src/pool.ipp): a free list threaded through   *)
(* the unused slots of one array.  A slot holds either a link or the bytes *)
(* of an object, never both, and acquire and release run user code - the   *)
(* constructor and the destructor of T - half way through.                 *)
(***************************************************************************)
EXTENDS Naturals, Sequences, FiniteSets

CONSTANTS
    Capacity,       \* m_capacity
    MaxCalls,       \* bound: calls nested in constructors and destructors
    CtorReenters    \* whether a constructor may call the pool it is built in

Slots == 1..Capacity
Null == 0               \* nullptr
Data == Capacity + 1    \* a slot that holds object bytes instead of a link

\* Capacity 0 makes the loop bound of the constructor wrap (pool.ipp:44).
ASSUME PoolAssumption ==
    /\ Capacity \in Nat \ {0} /\ MaxCalls \in Nat \ {0}
    /\ CtorReenters \in BOOLEAN

VARIABLES
    mem,    \* what each slot holds: a link (_node) or Data
    next,   \* m_next
    size,   \* m_size
    live,   \* history: the slots of the objects that exist
    free,   \* history: the free slots in list order
    calls   \* acquire and release calls in progress, innermost last

poolVars == <<mem, next, size, live, free, calls>>

Top == calls[Len(calls)]
Push(op, s, saved) ==
    calls' = Append(calls, [op |-> op, slot |-> s, newnext |-> saved])
Pop == calls' = SubSeq(calls, 1, Len(calls) - 1)

\* The pool is not inside acquire or release, or it runs a destructor, or a
\* constructor that is allowed to come back.
MayCall ==
    /\ Len(calls) < MaxCalls
    /\ calls # <<>> /\ ~CtorReenters => Top.op = "dtor"

PoolInit ==
    /\ mem = [s \in Slots |-> IF s = Capacity THEN Null ELSE s + 1]
    /\ next = 1
    /\ size = 0
    /\ live = {}
    /\ free = [i \in 1..Capacity |-> i]
    /\ calls = <<>>

-----------------------------------------------------------------------------
\* acquire: save the link of the head and start to construct over it.  With
\* the list empty it throws bad_alloc and changes nothing.
AcquireBegin ==
    /\ MayCall /\ next # Null
    /\ Push("ctor", next, mem[next])
    /\ mem' \in {mem, [mem EXCEPT ![next] = Data]}
    /\ UNCHANGED <<next, size, live, free>>

AcquireDone_NoAdvance ==
    /\ calls # <<>> /\ Top.op = "ctor"
    /\ mem' = [mem EXCEPT ![Top.slot] = Data]
    /\ size' = size + 1
    /\ live' = live \cup {Top.slot}
    /\ free' = Tail(free)
    /\ Pop
    /\ UNCHANGED next

\* The constructor returned: the saved link becomes the head.
AcquireDone ==
    /\ calls # <<>> /\ Top.op = "ctor"
    /\ mem' = [mem EXCEPT ![Top.slot] = Data]
    /\ next' = Top.newnext
    /\ size' = size + 1
    /\ live' = live \cup {Top.slot}
    /\ free' = Tail(free)
    /\ Pop

AcquireThrows_NoRestore ==
    /\ calls # <<>> /\ Top.op = "ctor"
    /\ Pop
    /\ UNCHANGED <<mem, next, size, live, free>>

\* The constructor threw: the link it may have overwritten is put back.
AcquireThrows ==
    /\ calls # <<>> /\ Top.op = "ctor"
    /\ mem' = [mem EXCEPT ![next] = Top.newnext]
    /\ Pop
    /\ UNCHANGED <<next, size, live, free>>

\* release of an object that exists and is not being released: the
\* destructor runs first.
ReleaseBegin(s) ==
    /\ MayCall /\ s \in live
    /\ \A i \in 1..Len(calls) : calls[i].slot # s
    /\ Push("dtor", s, Null)
    /\ UNCHANGED <<mem, next, size, live, free>>

\* The slot becomes the head of the list as it is after the destructor.
ReleaseDone ==
    /\ calls # <<>> /\ Top.op = "dtor"
    /\ mem' = [mem EXCEPT ![Top.slot] = next]
    /\ next' = Top.slot
    /\ size' = size - 1
    /\ live' = live \ {Top.slot}
    /\ free' = <<Top.slot>> \o free
    /\ Pop

PoolNext ==
    \/ AcquireBegin \/ AcquireDone \/ AcquireThrows
    \/ \E s \in Slots : ReleaseBegin(s)
    \/ ReleaseDone

PoolSpec == PoolInit /\ [][PoolNext]_poolVars

-----------------------------------------------------------------------------
(* Properties.                                                             *)

Frames == [op : {"ctor", "dtor"}, slot : Slots, newnext : Slots \cup {Null}]

\* Type invariant: links stay links and the size stays within the capacity.
PoolTypeOK ==
    /\ mem \in [Slots -> Slots \cup {Null, Data}]
    /\ next \in Slots \cup {Null}
    /\ size \in 0..Capacity
    /\ live \subseteq Slots
    /\ free \in Seq(Slots)
    /\ calls \in Seq(Frames)

\* A slot under construction belongs to nobody else: no object lives in it
\* and no other call builds in it.  "Take all pointers out, checking they are
\* unique" (test/pool.cpp:29).
AcquireIsFresh ==
    \A i \in 1..Len(calls) : calls[i].op = "ctor" =>
        /\ calls[i].slot \notin live
        /\ \A j \in 1..Len(calls) : calls[j].slot = calls[i].slot => i = j

\* The link after position i of the free list.
LinkAfter(i) == IF i < Len(free) THEN free[i + 1] ELSE Null

\* The links thread exactly the free slots, each once, from m_next to
\* nullptr - through destructors that call the pool and constructors that
\* throw; only the head's link may be lost, while acquire keeps a copy
\* (pool.ipp:98-116).
FreeListSound ==
    /\ next = LinkAfter(0)
    /\ \A i \in 1..Len(free) :
          \/ mem[free[i]] = LinkAfter(i)
          \/ i = 1 /\ calls # <<>> /\ Top.op = "ctor" /\ Top.newnext = LinkAfter(1)
    /\ \A i, j \in 1..Len(free) : free[i] = free[j] => i = j
    /\ \A s \in Slots : s \in live <=> \A i \in 1..Len(free) : free[i] # s

\* size () counts the objects, and empty () - "none left" - is true exactly
\* when acquire would throw (pool.ipp:70-82, 94).
SizeCounts ==
    /\ size = Cardinality(live) /\ size + Len(free) = Capacity
    /\ size = Capacity <=> next = Null

\* The pool never writes a link into an object that exists ("Ensure that
\* items keep their values", test/pool.cpp:52).
ValuesRetained == \A s \in live : mem[s] = Data

\* The four together: no slot has two holders, the links thread exactly the
\* free slots, the count agrees with both, and objects keep their bytes,
\* whatever destructors and throwing constructors do half way through
\* (pool.ipp:87-135).  Of constructors that call the pool they are built in it
\* does not hold: such a call is handed the slot under construction.
PoolSafe == AcquireIsFresh /\ FreeListSound /\ SizeCounts /\ ValuesRetained

\* The pool implements the abstract slot store.
Store == INSTANCE SlotStore WITH count <- size
ImplementsStore == Store!Spec
=============================================================================
