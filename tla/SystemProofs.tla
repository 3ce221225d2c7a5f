---------------------------- MODULE SystemProofs ----------------------------
(***************************************************************************)
(* Proofs about System: whatever descriptors, pages, files, levels and     *)
(* names there are, what the library holds of the system is held by one    *)
(* object, files are whole, and clocks, tests, the log and names tell what *)
(* was.  Each task has an invariant of its own; the state of one means     *)
(* nothing to the others.                                                  *)
(***************************************************************************)
EXTENDS System, TLAPS, FiniteSetTheorems, SequenceTheorems, WellFoundedInduction

\* A set of natural numbers has a least element.
LEMMA LeastIn ==
    ASSUME NEW S \in SUBSET Nat, S # {}
    PROVE  Min(S) \in S
<1>1. PICK e \in S : \A d \in S : ~(<<d, e>> \in OpToRel(<, Nat))
  BY NatLessThanWellFounded, WFMin
<1>2. \A d \in S : e <= d
  <2> SUFFICES ASSUME NEW d \in S, ~(e <= d) PROVE FALSE
    OBVIOUS
  <2>1. d \in Nat /\ e \in Nat /\ d < e
    OBVIOUS
  <2> QED
    BY <1>1, <2>1 DEF OpToRel
<1> QED
  BY <1>2 DEF Min

-----------------------------------------------------------------------------
(* Descriptors.                                                            *)

Range0 == 0 .. Descriptors - 1
HeldNow == {objects[o] : o \in {p \in Objects : Held(p)}}

\* What is open is held or was released, never both, and held once.
FdInv ==
    /\ objects \in [Objects -> Range0 \union {-1}]
    /\ kernel \subseteq Range0
    /\ story \subseteq kernel
    /\ \A fd \in kernel : fd \in story \/ \E o \in Objects : objects[o] = fd
    /\ \A o \in Objects : Held(o) => objects[o] \in kernel \ story
    /\ \A o, p \in Objects : Held(o) /\ o # p => objects[o] # objects[p]

LEMMA FreeIsNew ==
    ASSUME NEW S, Free(S) # {}
    PROVE  Min(Free(S)) \in Range0 \ S
<1>1. Free(S) \subseteq Nat
  BY SystemAssumption DEF Free
<1> QED
  BY <1>1, LeastIn DEF Free, Range0

\* A number that was free goes to an object that had none.
LEMMA TakeNew ==
    ASSUME FdInv, NEW o \in Objects, ~Held(o), NEW fd \in Range0 \ kernel,
           objects' = [objects EXCEPT ![o] = fd], kernel' = kernel \union {fd}, UNCHANGED story
    PROVE  FdInv'
BY SystemAssumption DEF FdInv, Held, Range0

LEMMA OpenStep ==
    ASSUME FdInv, NEW o \in Objects, open(o)
    PROVE  FdInv'
<1> DEFINE fd == Min(Free(kernel))
<1>1. fd \in Range0 \ kernel
  BY FreeIsNew DEF open
<1>2. /\ ~Held(o) /\ objects' = [objects EXCEPT ![o] = fd]
      /\ kernel' = kernel \union {fd} /\ UNCHANGED story
  BY DEF open
<1> QED
  BY <1>1, <1>2, TakeNew

\* Only the socket that is connected is left open.
LEMMA ConnectStep ==
    ASSUME FdInv, NEW o \in Objects, NEW a, NEW b, connect_host(o, a, b)
    PROVE  FdInv'
<1> DEFINE Try(s, attempt) ==
               IF s.sock # -1 \/ attempt = "no socket" \/ Free(s.open) = {} THEN s
               ELSE LET sock == Min(Free(s.open)) IN
                    IF attempt = "refused" THEN s
                    ELSE [sock |-> sock, open |-> s.open \union {sock}]
           none == [sock |-> -1, open |-> kernel]
           one == Try(none, a)
           s == Try(one, b)
           fd == Min(Free(kernel))
           took == [sock |-> fd, open |-> kernel \union {fd}]
<1>1. one = none \/ (one = took /\ Free(kernel) # {})
  OBVIOUS
<1>2. s = none \/ (s = took /\ Free(kernel) # {})
  <2>1. CASE one = none
    BY <2>1
  <2>2. CASE one = took /\ Free(kernel) # {}
    <3>1. fd \in Range0
      BY <2>2, FreeIsNew
    <3>2. fd # -1
      BY <3>1, SystemAssumption DEF Range0
    <3> QED
      BY <2>2, <3>2
  <2> QED
    BY <1>1, <2>1, <2>2
<1>3. /\ ~Held(o) /\ s.sock # -1
      /\ objects' = [objects EXCEPT ![o] = s.sock] /\ kernel' = s.open /\ UNCHANGED story
  BY DEF connect_host
<1> HIDE DEF s
<1>4. s = took /\ Free(kernel) # {}
  BY <1>2, <1>3
<1>5. fd \in Range0 \ kernel
  BY <1>4, FreeIsNew
<1>6. objects' = [objects EXCEPT ![o] = fd] /\ kernel' = kernel \union {fd}
  BY <1>3, <1>4
<1> QED
  BY <1>3, <1>5, <1>6, TakeNew

LEMMA MoveConstructStep ==
    ASSUME FdInv, NEW o \in Objects, NEW p \in Objects, move_construct(o, p)
    PROVE  FdInv'
BY SystemAssumption DEF FdInv, Held, Range0, move_construct

\* An object lets go of its descriptor, which is closed or released.
LEMMA LetGo ==
    ASSUME FdInv, NEW o \in Objects, Held(o),
           objects' = [objects EXCEPT ![o] = -1],
           \/ kernel' = kernel \ {objects[o]} /\ story' = story
           \/ kernel' = kernel /\ story' = story \union {objects[o]}
    PROVE  FdInv'
<1>1. objects[o] \in kernel \ story /\ objects[o] >= 0 /\ objects[o] \in Range0
  BY DEF FdInv, Held
<1>2. objects' \in [Objects -> Range0 \union {-1}] /\ kernel' \subseteq Range0 /\ story' \subseteq kernel'
  BY <1>1 DEF FdInv
<1>3. \A q \in Objects : objects'[q] = IF q = o THEN -1 ELSE objects[q]
  BY DEF FdInv
<1>4. \A q \in Objects : Held(q)' => q # o /\ Held(q) /\ objects'[q] = objects[q]
  BY <1>3 DEF Held
<1>5. \A q \in Objects : Held(q)' => objects'[q] \in kernel' \ story'
  BY <1>1, <1>4 DEF FdInv
<1>6. \A q, r \in Objects : Held(q)' /\ q # r => objects'[q] # objects'[r]
  BY <1>3, <1>4 DEF FdInv, Held
<1>7. ASSUME NEW fd \in kernel'
      PROVE  fd \in story' \/ \E q \in Objects : objects'[q] = fd
  <2>1. CASE fd = objects[o]
    BY <2>1
  <2>2. CASE fd # objects[o] /\ fd \notin story
    <3>1. PICK q \in Objects : objects[q] = fd
      BY <2>2 DEF FdInv
    <3> QED
      BY <1>3, <2>2, <3>1
  <2> QED
    BY <2>1, <2>2
<1> QED
  BY <1>2, <1>5, <1>6, <1>7 DEF FdInv

\* What rhs holds goes to o, whose own is closed.
LEMMA MoveAssignStep ==
    ASSUME FdInv, NEW o \in Objects, NEW p \in Objects, move_assign(o, p)
    PROVE  FdInv'
<1>1. CASE o = p
  <2>1. objects' = [objects EXCEPT ![o] = -1]
    BY <1>1 DEF move_assign, FdInv
  <2> QED
    BY <2>1, LetGo DEF move_assign, Closed
<1>2. CASE o # p
  <2>1. \A q \in Objects : objects'[q] = IF q = o THEN objects[p] ELSE IF q = p THEN -1 ELSE objects[q]
    BY <1>2 DEF move_assign
  <2>2. kernel' = kernel \ {objects[o]} /\ story' = story /\ Held(o) /\ objects[o] \in kernel \ story
    BY DEF move_assign, Closed, FdInv
  <2>3. objects' \in [Objects -> Range0 \union {-1}]
    BY <1>2 DEF move_assign, FdInv
  <2>4. \A q \in Objects : Held(q)' => objects'[q] \in kernel' \ story'
    BY <1>2, <2>1, <2>2 DEF FdInv, Held
  <2>5. \A q, r \in Objects : Held(q)' /\ q # r => objects'[q] # objects'[r]
    BY <1>2, <2>1, <2>2 DEF FdInv, Held
  <2>6. ASSUME NEW fd \in kernel', fd \notin story'
        PROVE  \E q \in Objects : objects'[q] = fd
    <3>1. PICK q \in Objects : objects[q] = fd
      BY <2>2, <2>6 DEF FdInv
    <3>2. q # o
      BY <2>2, <2>6, <3>1
    <3>3. CASE q = p
      BY <2>1, <3>1, <3>3
    <3>4. CASE q # p
      BY <2>1, <3>1, <3>2, <3>4
    <3> QED
      BY <3>3, <3>4
  <2> QED
    BY <2>2, <2>3, <2>4, <2>5, <2>6 DEF FdInv
<1> QED
  BY <1>1, <1>2

\* A released descriptor comes back; what o had is closed.
LEMMA AdoptStep ==
    ASSUME FdInv, NEW o \in Objects, NEW fd \in story, adopt(o, fd)
    PROVE  FdInv'
<1>1. \A q \in Objects : objects'[q] = IF q = o THEN fd ELSE objects[q]
  BY DEF adopt, FdInv
<1>2. /\ kernel' = IF Held(o) THEN kernel \ {objects[o]} ELSE kernel
      /\ story' = story \ {fd} /\ fd \in kernel /\ fd \in Range0
  BY DEF adopt, Closed, FdInv
<1>3. \A q \in Objects : Held(q) => objects[q] # fd
  BY DEF FdInv
<1>4. objects' \in [Objects -> Range0 \union {-1}] /\ kernel' \subseteq Range0
  BY <1>2 DEF adopt, FdInv
<1>5. story' \subseteq kernel'
  BY <1>2 DEF FdInv, Held
<1>6. \A q \in Objects : Held(q)' => objects'[q] \in kernel' \ story'
  BY <1>1, <1>2, <1>3 DEF FdInv, Held
<1>7. fd >= 0
  BY <1>2, SystemAssumption DEF Range0
<1>8. \A q, r \in Objects : Held(q)' /\ q # r => objects'[q] # objects'[r]
  BY <1>1, <1>3, <1>7 DEF FdInv, Held
<1>9. ASSUME NEW f \in kernel', f \notin story'
      PROVE  \E q \in Objects : objects'[q] = f
  <2>1. CASE f = fd
    BY <1>1, <2>1
  <2>2. CASE f # fd
    <3>1. PICK q \in Objects : objects[q] = f
      BY <1>2, <1>9, <2>2 DEF FdInv
    <3>2. f \in Range0 /\ f >= 0
      BY <1>4, <1>9, SystemAssumption DEF Range0
    <3>3. q # o
      BY <1>2, <1>9, <3>1, <3>2 DEF Held
    <3> QED
      BY <1>1, <3>1, <3>3
  <2> QED
    BY <2>1, <2>2
<1> QED
  BY <1>4, <1>5, <1>6, <1>8, <1>9 DEF FdInv

LEMMA DescriptorStep ==
    ASSUME FdInv, Descriptor
    PROVE  FdInv'
<1>1. PICK o \in Objects, p \in Objects :
        \/ open(o) \/ dup(o, p) \/ move_construct(o, p) \/ move_assign(o, p)
        \/ reset(o) \/ release(o)
        \/ \E fd \in story : adopt(o, fd)
        \/ \E a, b \in {"no socket", "refused", "connected"} : connect_host(o, a, b)
  BY DEF Descriptor
<1>2. CASE open(o)
  BY <1>2, OpenStep
<1>3. CASE dup(o, p)
  BY <1>3, OpenStep DEF dup
<1>4. CASE move_construct(o, p)
  BY <1>4, MoveConstructStep
<1>5. CASE move_assign(o, p)
  BY <1>5, MoveAssignStep
<1>6. CASE reset(o)
  BY <1>6, LetGo DEF reset, Closed
<1>7. CASE release(o)
  BY <1>7, LetGo DEF release
<1>8. CASE \E fd \in story : adopt(o, fd)
  BY <1>8, AdoptStep
<1>9. CASE \E a, b \in {"no socket", "refused", "connected"} : connect_host(o, a, b)
  BY <1>9, ConnectStep
<1> QED
  BY <1>1, <1>2, <1>3, <1>4, <1>5, <1>6, <1>7, <1>8, <1>9

LEMMA DescriptorMeaning ==
    ASSUME FdInv
    PROVE  DescriptorsSound
<1>1. kernel = HeldNow \union story
  <2>1. ASSUME NEW fd \in kernel, fd \notin story
        PROVE  fd \in HeldNow
    <3>1. PICK o \in Objects : objects[o] = fd
      BY <2>1 DEF FdInv
    <3>2. Held(o)
      BY <3>1, SystemAssumption DEF Held, FdInv, Range0
    <3> QED
      BY <3>1, <3>2 DEF HeldNow
  <2> QED
    BY <2>1 DEF FdInv, HeldNow
<1>2. HeldNow \intersect story = {}
  BY DEF FdInv, HeldNow
<1> QED
  BY <1>1, <1>2 DEF FdInv, DescriptorsSound, HeldNow

-----------------------------------------------------------------------------
(* Maps.                                                                   *)

PagesOf(o) == MapPages(objects[o])
MapRecords == [addr : Nat \union {FAILED}, size : Nat]

\* Until one is resized, every mapped page is one of exactly one object.
MapInv ==
    story = "as made" =>
        /\ objects \in [Objects -> MapRecords]
        /\ \A x \in kernel : \E o \in Objects : x \in PagesOf(o)
        /\ \A o \in Objects : PagesOf(o) \subseteq kernel
        /\ \A o, p \in Objects : o # p => PagesOf(o) \intersect PagesOf(p) = {}

LEMMA NoPages ==
    ASSUME NEW m, m.addr = FAILED
    PROVE  MapPages(m) = {}
BY DEF MapPages

LEMMA MapConstructStep ==
    ASSUME MapInv, story = "as made", NEW o \in Objects,
           NEW addr \in 1 .. Pages, NEW n \in 1 .. MaxPages, map_construct(o, addr, n)
    PROVE  MapInv'
<1> DEFINE fresh == addr .. addr + n - 1
<1>0. addr \in Nat \ {0} /\ n \in Nat
  <2>1. Pages \in Nat /\ MaxPages \in Nat
    BY SystemAssumption
  <2> QED
    BY ONLY <2>1, addr \in 1 .. Pages, n \in 1 .. MaxPages
<1>1. objects' \in [Objects -> MapRecords]
  BY <1>0 DEF MapInv, map_construct, MapRecords
<1>2. MapPages([addr |-> addr, size |-> n]) = fresh
  BY ONLY <1>0 DEF MapPages, FAILED
<1>3. \A q \in Objects : PagesOf(q)' = IF q = o THEN fresh ELSE PagesOf(q)
  BY <1>2 DEF map_construct, PagesOf, MapInv
<1>4. PagesOf(o) = {} /\ fresh \intersect kernel = {} /\ kernel' = kernel \union fresh
  BY NoPages DEF map_construct, PagesOf
<1>5. \A q \in Objects : PagesOf(q) \subseteq kernel
  BY DEF MapInv
<1> HIDE DEF fresh
<1>6. ASSUME NEW x \in kernel'
      PROVE  \E q \in Objects : x \in PagesOf(q)'
  <2>1. CASE x \in fresh
    BY <1>3, <2>1
  <2>2. CASE x \in kernel
    <3>1. PICK q \in Objects : x \in PagesOf(q)
      BY <2>2 DEF MapInv
    <3> QED
      BY <1>3, <1>4, <3>1
  <2> QED
    BY <1>4, <2>1, <2>2
<1>7. \A q \in Objects : PagesOf(q)' \subseteq kernel'
  BY <1>3, <1>4, <1>5
<1>8. \A q, r \in Objects : q # r => PagesOf(q)' \intersect PagesOf(r)' = {}
  <2> SUFFICES ASSUME NEW q \in Objects, NEW r \in Objects, q # r
               PROVE  PagesOf(q)' \intersect PagesOf(r)' = {}
    OBVIOUS
  <2>1. PagesOf(q) \intersect PagesOf(r) = {} /\ PagesOf(q) \subseteq kernel /\ PagesOf(r) \subseteq kernel
    BY DEF MapInv
  <2> QED
    BY <1>3, <1>4, <2>1
<1>9. UNCHANGED story
  BY DEF map_construct
<1> QED
  BY <1>1, <1>6, <1>7, <1>8, <1>9 DEF MapInv

LEMMA MapMoveConstructStep ==
    ASSUME MapInv, story = "as made", NEW o \in Objects, NEW p \in Objects, map_move_construct(o, p)
    PROVE  MapInv'
<1>1. objects' \in [Objects -> MapRecords]
  BY DEF MapInv, map_move_construct, MapRecords, FAILED
<1>2. objects'[p].addr = FAILED /\ objects'[o] = objects[p]
      /\ \A q \in Objects \ {o, p} : objects'[q] = objects[q]
  BY DEF MapInv, map_move_construct, MapRecords
<1>3. PagesOf(p)' = {} /\ PagesOf(o)' = PagesOf(p) /\ PagesOf(o) = {}
      /\ \A q \in Objects \ {o, p} : PagesOf(q)' = PagesOf(q)
  BY <1>2, NoPages DEF PagesOf, map_move_construct
<1>4. kernel' = kernel /\ story' = story
  BY DEF map_move_construct
<1>5. /\ \A x \in kernel' : \E q \in Objects : x \in PagesOf(q)'
      /\ \A q \in Objects : PagesOf(q)' \subseteq kernel'
  <2>1. ASSUME NEW x \in kernel
        PROVE  \E q \in Objects : x \in PagesOf(q)'
    <3>1. PICK q \in Objects : x \in PagesOf(q)
      BY DEF MapInv
    <3> QED
      BY <1>3, <3>1
  <2>2. ASSUME NEW q \in Objects
        PROVE  PagesOf(q)' \subseteq kernel
    <3>1. \A r \in Objects : PagesOf(r) \subseteq kernel
      BY DEF MapInv
    <3> QED
      BY ONLY <1>3, <3>1, q \in Objects, o \in Objects, p \in Objects
  <2> QED
    BY <1>4, <2>1, <2>2
<1>6. ASSUME NEW q \in Objects, NEW r \in Objects, q # r
      PROVE  PagesOf(q)' \intersect PagesOf(r)' = {}
  <2>1. \A x, y \in Objects : x # y => PagesOf(x) \intersect PagesOf(y) = {}
    BY DEF MapInv
  <2>2. CASE q = p
    BY ONLY <1>3, <2>2
  <2>3. CASE r = p
    BY ONLY <1>3, <2>3
  <2>4. CASE q = o /\ r # p
    BY ONLY <1>3, <1>6, <2>1, <2>4, o \in Objects, p \in Objects
  <2>5. CASE r = o /\ q # p
    BY ONLY <1>3, <1>6, <2>1, <2>5, o \in Objects, p \in Objects
  <2>6. CASE q \notin {o, p} /\ r \notin {o, p}
    BY ONLY <1>3, <1>6, <2>1, <2>6
  <2> QED
    BY <1>6, <2>2, <2>3, <2>4, <2>5, <2>6
<1> QED
  BY <1>1, <1>4, <1>5, <1>6 DEF MapInv

LEMMA MapMoveAssignStep ==
    ASSUME MapInv, story = "as made", NEW o \in Objects, NEW p \in Objects, map_move_assign(o, p)
    PROVE  MapInv'
<1>1. objects' \in [Objects -> MapRecords]
  BY DEF MapInv, map_move_assign
<1>2. objects'[p] = objects[o] /\ objects'[o] = objects[p]
      /\ \A q \in Objects \ {o, p} : objects'[q] = objects[q]
  BY DEF MapInv, map_move_assign
<1>3. PagesOf(p)' = PagesOf(o) /\ PagesOf(o)' = PagesOf(p)
      /\ \A q \in Objects \ {o, p} : PagesOf(q)' = PagesOf(q)
  BY <1>2 DEF PagesOf
<1>4. kernel' = kernel /\ story' = story
  BY DEF map_move_assign
<1>5. /\ \A x \in kernel' : \E q \in Objects : x \in PagesOf(q)'
      /\ \A q \in Objects : PagesOf(q)' \subseteq kernel'
  <2>1. ASSUME NEW x \in kernel
        PROVE  \E q \in Objects : x \in PagesOf(q)'
    <3>1. PICK q \in Objects : x \in PagesOf(q)
      BY DEF MapInv
    <3> QED
      BY <1>3, <3>1
  <2>2. ASSUME NEW q \in Objects
        PROVE  PagesOf(q)' \subseteq kernel
    <3>1. \A r \in Objects : PagesOf(r) \subseteq kernel
      BY DEF MapInv
    <3> QED
      BY ONLY <1>3, <3>1, q \in Objects, o \in Objects, p \in Objects
  <2> QED
    BY <1>4, <2>1, <2>2
<1>6. ASSUME NEW q \in Objects, NEW r \in Objects, q # r
      PROVE  PagesOf(q)' \intersect PagesOf(r)' = {}
  <2> DEFINE Was(x) == IF x = o THEN p ELSE IF x = p THEN o ELSE x
  <2>1. \A x, y \in Objects : x # y => PagesOf(x) \intersect PagesOf(y) = {}
    BY DEF MapInv
  <2>2. \A x \in Objects : PagesOf(x)' = PagesOf(Was(x))
    BY ONLY <1>3, o \in Objects, p \in Objects
  <2>3. Was(q) \in Objects /\ Was(r) \in Objects /\ Was(q) # Was(r)
    BY <1>6
  <2> QED
    BY ONLY <1>6, <2>1, <2>2, <2>3
<1> QED
  BY <1>1, <1>4, <1>5, <1>6 DEF MapInv

LEMMA MapDestroyStep ==
    ASSUME MapInv, story = "as made", NEW o \in Objects, map_destroy(o)
    PROVE  MapInv'
<1>1. objects' \in [Objects -> MapRecords]
  BY DEF MapInv, map_destroy, MapRecords, FAILED
<1>2. objects'[o].addr = FAILED /\ \A q \in Objects \ {o} : objects'[q] = objects[q]
  BY DEF MapInv, map_destroy, MapRecords
<1>3. PagesOf(o)' = {} /\ \A q \in Objects \ {o} : PagesOf(q)' = PagesOf(q)
  BY <1>2, NoPages DEF PagesOf
<1>4. kernel' = kernel \ PagesOf(o) /\ story' = story
  BY DEF map_destroy, PagesOf
<1>5. /\ \A x \in kernel' : \E q \in Objects : x \in PagesOf(q)'
      /\ \A q \in Objects : PagesOf(q)' \subseteq kernel'
  <2>1. ASSUME NEW x \in kernel, x \notin PagesOf(o)
        PROVE  \E q \in Objects : x \in PagesOf(q)'
    <3>1. PICK q \in Objects : x \in PagesOf(q)
      BY DEF MapInv
    <3> QED
      BY <1>3, <2>1, <3>1
  <2>2. ASSUME NEW q \in Objects, NEW x \in PagesOf(q)'
        PROVE  x \in kernel /\ x \notin PagesOf(o)
    <3>1. /\ \A y \in Objects : PagesOf(y) \subseteq kernel
          /\ \A y, z \in Objects : y # z => PagesOf(y) \intersect PagesOf(z) = {}
      BY DEF MapInv
    <3>2. q # o
      BY <1>3, <2>2
    <3>3. x \in PagesOf(q)
      BY <1>3, <2>2, <3>2
    <3> QED
      BY ONLY <3>1, <3>2, <3>3, q \in Objects, o \in Objects
  <2> QED
    BY <1>4, <2>1, <2>2
<1>6. \A q, r \in Objects : q # r => PagesOf(q)' \intersect PagesOf(r)' = {}
  BY <1>3 DEF MapInv
<1> QED
  BY <1>1, <1>4, <1>5, <1>6 DEF MapInv

LEMMA MapStep ==
    ASSUME MapInv, Map
    PROVE  MapInv'
<1>1. PICK o \in Objects, p \in Objects :
        \/ \E addr \in 1 .. Pages, n \in 1 .. MaxPages :
            story = "as made" /\ (map_construct(o, addr, n) \/ map_resize(o, n, addr))
        \/ map_move_construct(o, p) \/ map_move_assign(o, p) \/ map_destroy(o)
  BY DEF Map
<1>2. CASE story = "as made"
  <2>1. CASE \E addr \in 1 .. Pages, n \in 1 .. MaxPages : map_construct(o, addr, n)
    BY <1>2, <2>1, MapConstructStep
  <2>2. CASE \E addr \in 1 .. Pages, n \in 1 .. MaxPages : map_resize(o, n, addr)
    BY <2>2 DEF map_resize, MapInv
  <2> QED
    BY <1>1, <1>2, <2>1, <2>2, MapMoveConstructStep, MapMoveAssignStep, MapDestroyStep
<1>3. CASE story # "as made"
  <2>1. story' = story
    BY <1>1, <1>3 DEF map_move_construct, map_move_assign, map_destroy
  <2> QED
    BY <1>3, <2>1 DEF MapInv
<1> QED
  BY <1>2, <1>3

LEMMA MapMeaning ==
    ASSUME MapInv
    PROVE  MapsSound
<1> SUFFICES ASSUME story = "as made"
             PROVE  /\ kernel = UNION {PagesOf(o) : o \in Objects}
                    /\ \A o, p \in Objects : o # p => PagesOf(o) \intersect PagesOf(p) = {}
  BY DEF MapsSound, PagesOf
<1>1. \A x \in kernel : x \in UNION {PagesOf(o) : o \in Objects}
  BY DEF MapInv
<1>2. \A x \in UNION {PagesOf(o) : o \in Objects} : x \in kernel
  BY DEF MapInv
<1> QED
  BY <1>1, <1>2 DEF MapInv

-----------------------------------------------------------------------------
(* Files.                                                                  *)

\* A function on 1 .. n is a sequence of that length.
LEMMA IsSequence ==
    ASSUME NEW S, NEW n \in Nat, NEW f \in [1 .. n -> S]
    PROVE  f \in Seq(S) /\ Len(f) = n /\ DOMAIN f = 1 .. n
OBVIOUS

LEMMA FileIs ==
    ASSUME NEW n \in Nat
    PROVE  /\ File(n) \in Seq(Nat) /\ Len(File(n)) = n /\ \A i \in 1 .. n : File(n)[i] = i
           /\ Zeros(n) \in Seq(Nat) /\ Len(Zeros(n)) = n /\ \A i \in 1 .. n : Zeros(n)[i] = 0
<1>1. File(n) \in [1 .. n -> Nat] /\ Zeros(n) \in [1 .. n -> Nat]
  BY DEF File, Zeros
<1>2. (\A i \in 1 .. n : File(n)[i] = i) /\ (\A i \in 1 .. n : Zeros(n)[i] = 0)
  BY DEF File, Zeros
<1> QED
  BY ONLY <1>1, <1>2, IsSequence, n \in Nat

LEMMA SameSequence ==
    ASSUME NEW S, NEW s \in Seq(S), NEW t \in Seq(S), Len(s) = Len(t),
           \A i \in 1 .. Len(s) : s[i] = t[i]
    PROVE  s = t
BY SeqEqual

LEMMA Joined ==
    ASSUME NEW S, NEW s \in Seq(S), NEW t \in Seq(S)
    PROVE  /\ s \o t \in Seq(S) /\ Len(s \o t) = Len(s) + Len(t)
           /\ \A i \in 1 .. Len(s) : (s \o t)[i] = s[i]
           /\ \A i \in Len(s) + 1 .. Len(s) + Len(t) : (s \o t)[i] = t[i - Len(s)]
<1>1. /\ s \o t \in Seq(S) /\ Len(s \o t) = Len(s) + Len(t)
      /\ \A i \in 1 .. Len(s) + Len(t) : (s \o t)[i] = IF i <= Len(s) THEN s[i] ELSE t[i - Len(s)]
  BY ConcatProperties
<1>2. Len(s) \in Nat /\ Len(t) \in Nat
  OBVIOUS
<1> QED
  BY ONLY <1>1, <1>2

\* The bytes in front of the cursor are read, the others are not.
SlurpInv ==
    /\ story \in Nat /\ kernel = File(story)
    /\ objects.remaining \in Nat /\ objects.cursor \in Nat
    /\ objects.cursor + objects.remaining = story
    /\ objects.buffer = [i \in 1 .. story |-> IF i <= objects.cursor THEN i ELSE 0]

LEMMA SlurpStep ==
    ASSUME SlurpInv, NEW n, slurp_read(n)
    PROVE  SlurpInv'
<1> DEFINE c == objects.cursor
<1>1. n \in 1 .. objects.remaining /\ UNCHANGED <<kernel, story>>
  BY DEF slurp_read
<1>2. /\ objects.remaining' = objects.remaining - n /\ objects.cursor' = c + n
      /\ objects.buffer' = Stored(objects.buffer, c, n, c)
  BY DEF slurp_read
<1>3. c \in Nat /\ objects.remaining \in Nat /\ c + objects.remaining = story /\ story \in Nat
  BY DEF SlurpInv
<1>4. Stored(objects.buffer, c, n, c) = [i \in 1 .. story |-> IF i <= c + n THEN i ELSE 0]
  <2>1. DOMAIN objects.buffer = 1 .. story
    BY DEF SlurpInv
  <2>2. \A i \in 1 .. story : objects.buffer[i] = IF i <= c THEN i ELSE 0
    BY DEF SlurpInv
  <2>3. \A i \in c + 1 .. c + n : i \in 1 .. story /\ c + i - c = i /\ kernel[i] = i
    BY <1>1, <1>3 DEF SlurpInv, File
  <2> QED
    BY <1>1, <1>3, <2>1, <2>2, <2>3 DEF Stored
<1> QED
  BY <1>1, <1>2, <1>3, <1>4 DEF SlurpInv

LEMMA SlurpMeaning ==
    ASSUME SlurpInv
    PROVE  objects.buffer = SubSeq(kernel, 1, objects.cursor) \o Zeros(objects.remaining)
<1> DEFINE c == objects.cursor
           r == objects.remaining
           front == SubSeq(kernel, 1, c)
<1>1. c \in Nat /\ r \in Nat /\ c + r = story /\ story \in Nat
  BY DEF SlurpInv
<1>2. objects.buffer \in Seq(Nat) /\ Len(objects.buffer) = story
      /\ \A i \in 1 .. story : objects.buffer[i] = IF i <= c THEN i ELSE 0
  BY <1>1, IsSequence DEF SlurpInv
<1>3. kernel \in Seq(Nat) /\ Len(kernel) = story /\ \A i \in 1 .. story : kernel[i] = i
  BY <1>1, FileIs DEF SlurpInv
<1>4. front \in Seq(Nat) /\ Len(front) = c /\ \A i \in 1 .. c : front[i] = i
  BY <1>1, <1>3, SubSeqProperties
<1>5. Zeros(r) \in Seq(Nat) /\ Len(Zeros(r)) = r /\ \A i \in 1 .. r : Zeros(r)[i] = 0
  BY <1>1, FileIs
<1> HIDE DEF front, c, r
<1>6. front \o Zeros(r) \in Seq(Nat) /\ Len(front \o Zeros(r)) = story
      /\ \A i \in 1 .. story : (front \o Zeros(r))[i] = IF i <= c THEN i ELSE 0
  <2>1. /\ front \o Zeros(r) \in Seq(Nat) /\ Len(front \o Zeros(r)) = c + r
        /\ \A i \in 1 .. c : (front \o Zeros(r))[i] = front[i]
        /\ \A i \in c + 1 .. c + r : (front \o Zeros(r))[i] = Zeros(r)[i - c]
    <3>1. /\ front \o Zeros(r) \in Seq(Nat) /\ Len(front \o Zeros(r)) = Len(front) + Len(Zeros(r))
          /\ \A i \in 1 .. Len(front) : (front \o Zeros(r))[i] = front[i]
          /\ \A i \in Len(front) + 1 .. Len(front) + Len(Zeros(r)) :
                (front \o Zeros(r))[i] = Zeros(r)[i - Len(front)]
      BY ONLY <1>4, <1>5, Joined
    <3> QED
      BY ONLY <3>1, <1>4, <1>5
  <2>2. \A i \in c + 1 .. c + r : i - c \in 1 .. r
    BY ONLY <1>1
  <2> QED
    BY ONLY <1>1, <1>4, <1>5, <2>1, <2>2
<1> DEFINE whole == front \o Zeros(r)
<1> HIDE DEF whole
<1>7. objects.buffer = whole
  <2>1. whole \in Seq(Nat) /\ Len(whole) = story
        /\ \A i \in 1 .. story : whole[i] = IF i <= c THEN i ELSE 0
    BY <1>6 DEF whole
  <2> QED
    <3>1. Len(objects.buffer) = Len(whole) /\ \A i \in 1 .. Len(whole) : objects.buffer[i] = whole[i]
      BY ONLY <1>2, <2>1
    <3> QED
      BY ONLY <1>2, <2>1, <3>1, SeqEqual
<1> QED
  BY <1>7 DEF whole, front, c, r

\* What is written is what is in front of the cursor.
WriteInv ==
    /\ story \in Nat /\ objects.remaining \in Nat /\ objects.cursor \in Nat
    /\ objects.cursor + objects.remaining = story
    /\ kernel = File(objects.cursor)

LEMMA FileGrows ==
    ASSUME NEW c \in Nat, NEW n \in Nat
    PROVE  File(c) \o [i \in 1 .. n |-> c + i] = File(c + n)
<1> DEFINE more == [i \in 1 .. n |-> c + i]
<1>1. File(c) \in Seq(Nat) /\ Len(File(c)) = c /\ \A i \in 1 .. c : File(c)[i] = i
  BY FileIs
<1>2. more \in Seq(Nat) /\ Len(more) = n /\ \A i \in 1 .. n : more[i] = c + i
  <2>1. more \in [1 .. n -> Nat]
    OBVIOUS
  <2> QED
    BY <2>1, IsSequence
<1>3. File(c + n) \in Seq(Nat) /\ Len(File(c + n)) = c + n /\ \A i \in 1 .. c + n : File(c + n)[i] = i
  BY FileIs
<1> HIDE DEF more
<1>4. File(c) \o more \in Seq(Nat) /\ Len(File(c) \o more) = c + n
      /\ \A i \in 1 .. c + n : (File(c) \o more)[i] = i
  <2>1. /\ File(c) \o more \in Seq(Nat) /\ Len(File(c) \o more) = c + n
        /\ \A i \in 1 .. c : (File(c) \o more)[i] = File(c)[i]
        /\ \A i \in c + 1 .. c + n : (File(c) \o more)[i] = more[i - c]
    <3>1. /\ File(c) \o more \in Seq(Nat) /\ Len(File(c) \o more) = Len(File(c)) + Len(more)
          /\ \A i \in 1 .. Len(File(c)) : (File(c) \o more)[i] = File(c)[i]
          /\ \A i \in Len(File(c)) + 1 .. Len(File(c)) + Len(more) :
                (File(c) \o more)[i] = more[i - Len(File(c))]
      BY ONLY <1>1, <1>2, Joined
    <3> QED
      BY ONLY <3>1, <1>1, <1>2
  <2>2. \A i \in c + 1 .. c + n : i - c \in 1 .. n /\ c + (i - c) = i
    OBVIOUS
  <2> QED
    BY ONLY <1>1, <1>2, <2>1, <2>2, c \in Nat, n \in Nat
<1>5. File(c) \o more = File(c + n)
  BY <1>3, <1>4, SameSequence
<1> QED
  BY <1>5 DEF more

LEMMA WriteStep ==
    ASSUME WriteInv, NEW n, write(n)
    PROVE  WriteInv'
<1>1. n \in 1 .. objects.remaining /\ story' = story
      /\ objects.remaining' = objects.remaining - n /\ objects.cursor' = objects.cursor + n
      /\ kernel' = kernel \o [i \in 1 .. n |-> objects.cursor + i]
  BY DEF write
<1>2. n \in Nat
  BY <1>1 DEF WriteInv
<1>3. kernel' = File(objects.cursor + n)
  BY <1>1, <1>2, FileGrows DEF WriteInv
<1>4. kernel' = File(objects.cursor')
  BY <1>1, <1>3
<1>5. objects.cursor' \in Nat /\ objects.remaining' \in Nat
      /\ objects.cursor' + objects.remaining' = story' /\ story' \in Nat
  BY <1>1, <1>2 DEF WriteInv
<1> QED
  BY <1>4, <1>5 DEF WriteInv

\* A stream is a file read up to at.  One chunk is behind the cursor once
\* something is, and is right if it was the only one.
StreamInv ==
    /\ kernel \in Seq(Nat) /\ \A i \in 1 .. Len(kernel) : kernel[i] = i
    /\ story \in Nat
    /\ objects.cursor = -1 \/ objects.cursor \in Nat
    /\ objects.at \in 0 .. Len(kernel) /\ objects.eof \in BOOLEAN
    /\ objects.buf \in Seq(Nat) /\ Len(objects.buf) = objects.at
    /\ objects.cursor = -1 => objects.at = 0 /\ ~objects.eof
    /\ objects.cursor # -1 =>
        /\ objects.cursor <= objects.at
        /\ objects.eof => objects.at = Len(kernel)
        /\ \/ objects.at \in {objects.cursor, Len(kernel)}
           \/ objects.at >= objects.cursor + CHUNK_SIZE
        /\ Len(kernel) - objects.cursor <= CHUNK_SIZE =>
                \A i \in 1 .. objects.at : objects.buf[i] = i

LEMMA FreadIs ==
    ASSUME NEW s, NEW count \in Nat, Len(kernel) \in Nat, s.at \in 0 .. Len(kernel)
    PROVE  LET r == fread(s, count) IN
           /\ r.res \in 0 .. count /\ s.at + r.res <= Len(kernel) /\ r.eof \in BOOLEAN
           /\ r.eof => s.at + r.res = Len(kernel)
           /\ r.res < count => s.at + r.res = Len(kernel)
<1> DEFINE left == Len(kernel) - s.at
           r == fread(s, count)
<1>1. left \in Nat /\ s.at + left = Len(kernel) /\ s.at \in Nat
  OBVIOUS
<1>2. r.res = (IF count < left THEN count ELSE left) /\ r.eof = (count > left)
  BY DEF fread
<1> HIDE DEF left, r
<1>3. /\ r.res \in 0 .. count /\ s.at + r.res <= Len(kernel)
      /\ count > left => s.at + r.res = Len(kernel)
      /\ r.res < count => s.at + r.res = Len(kernel)
  BY ONLY <1>1, <1>2, count \in Nat, Len(kernel) \in Nat
<1>4. r.eof \in BOOLEAN /\ (r.eof => count > left)
  <2>1. r.eof = (count > left)
    BY <1>2
  <2>2. (count > left) \in BOOLEAN
    OBVIOUS
  <2> QED
    BY ONLY <2>1, <2>2
<1> QED
  BY <1>3, <1>4 DEF r

\* The first read stores what it read from the beginning.
LEMMA KnownStep ==
    ASSUME StreamInv, slurp_known
    PROVE  StreamInv'
<1> DEFINE r == IF story = 0 THEN [res |-> 0, eof |-> FALSE] ELSE fread(objects, story)
           m == r.res
           t == Stored(Zeros(m), 0, m, 0)
<1>1. /\ objects' = [at |-> r.res, eof |-> r.eof, cursor |-> r.res, buf |-> t]
      /\ kernel' = kernel /\ story' = story /\ objects.cursor = -1
  BY DEF slurp_known
<1>2. kernel \in Seq(Nat) /\ Len(kernel) \in Nat /\ objects.at = 0 /\ story \in Nat
  BY <1>1 DEF StreamInv
<1>3. m \in 0 .. Len(kernel) /\ r.eof \in BOOLEAN /\ (r.eof => m = Len(kernel))
  <2>1. CASE story = 0
    BY <1>2, <2>1
  <2>2. CASE story # 0
    <3>1. objects.at \in 0 .. Len(kernel)
      BY <1>2
    <3>2. r = fread(objects, story)
      BY <2>2
    <3> HIDE DEF r
    <3>3. /\ r.res \in 0 .. story /\ objects.at + r.res <= Len(kernel) /\ r.eof \in BOOLEAN
          /\ r.eof => objects.at + r.res = Len(kernel)
      BY <1>2, <3>1, <3>2, FreadIs
    <3> QED
      BY <1>2, <3>3
  <2> QED
    BY <2>1, <2>2
<1> HIDE DEF r
<1>4. m \in Nat /\ Zeros(m) \in Seq(Nat) /\ Len(Zeros(m)) = m
  <2>1. m \in Nat
    BY <1>2, <1>3
  <2> QED
    BY <2>1, FileIs
<1> HIDE DEF m
<1>5. t = [i \in 1 .. m |-> i]
  <2>1. DOMAIN Zeros(m) = 1 .. m
    BY DEF Zeros
  <2>2. \A i \in 1 .. m : i \in 0 + 1 .. 0 + m /\ 0 + i - 0 = i /\ i \in 1 .. Len(kernel)
    BY <1>2, <1>3, <1>4
  <2>3. \A i \in 1 .. m : kernel[0 + i - 0] = i
    BY <2>2 DEF StreamInv
  <2> QED
    BY ONLY <2>1, <2>2, <2>3 DEF Stored
<1> HIDE DEF t
<1>6. t \in Seq(Nat) /\ Len(t) = m /\ \A i \in 1 .. m : t[i] = i
  <2>1. t \in [1 .. m -> Nat]
    BY ONLY <1>4, <1>5
  <2> QED
    BY <1>4, <1>5, <2>1, IsSequence
<1>7. objects'.at = m /\ objects'.eof = r.eof /\ objects'.cursor = m /\ objects'.buf = t
  BY <1>1 DEF m
<1>8. m # -1
  BY <1>4
<1> QED
  BY <1>1, <1>2, <1>3, <1>4, <1>5, <1>6, <1>7, <1>8 DEF StreamInv

\* Whatever is read goes to the cursor.
LEMMA ChunkStep ==
    ASSUME StreamInv, slurp_chunk
    PROVE  StreamInv'
<1> DEFINE a == objects.at
           c == objects.cursor
           r == fread(objects, CHUNK_SIZE)
           m == r.res
           wide == objects.buf \o Zeros(CHUNK_SIZE)
           read == Stored(wide, c, m, a)
           t == SubSeq(read, 1, Len(objects.buf) + m)
<1>0. CHUNK_SIZE \in Nat \ {0}
  BY SystemAssumption
<1>1. /\ objects' = [objects EXCEPT !.at = a + m, !.eof = r.eof, !.buf = t]
      /\ kernel' = kernel /\ story' = story /\ c # -1
  BY DEF slurp_chunk
<1>2. /\ kernel \in Seq(Nat) /\ Len(kernel) \in Nat /\ a \in 0 .. Len(kernel)
      /\ c \in Nat /\ c <= a /\ objects.buf \in Seq(Nat) /\ Len(objects.buf) = a
  BY <1>1 DEF StreamInv
<1>3. /\ m \in 0 .. CHUNK_SIZE /\ a + m <= Len(kernel) /\ r.eof \in BOOLEAN
      /\ r.eof => a + m = Len(kernel)
      /\ m < CHUNK_SIZE => a + m = Len(kernel)
  BY <1>0, <1>2, FreadIs
<1> HIDE DEF r
<1>4. m \in Nat /\ m <= CHUNK_SIZE /\ a \in Nat
  BY <1>0, <1>2, <1>3
<1>5. Zeros(CHUNK_SIZE) \in Seq(Nat) /\ Len(Zeros(CHUNK_SIZE)) = CHUNK_SIZE
  BY <1>0, FileIs
<1>6. wide \in Seq(Nat) /\ Len(wide) = a + CHUNK_SIZE /\ \A i \in 1 .. a : wide[i] = objects.buf[i]
  <2>1. /\ wide \in Seq(Nat) /\ Len(wide) = Len(objects.buf) + Len(Zeros(CHUNK_SIZE))
        /\ \A i \in 1 .. Len(objects.buf) : wide[i] = objects.buf[i]
    BY <1>2, <1>5, Joined
  <2> QED
    BY <1>2, <1>5, <2>1
<1> HIDE DEF m, wide
<1>7. /\ read \in Seq(Nat) /\ Len(read) = Len(wide)
      /\ \A i \in 1 .. Len(wide) : read[i] = IF i \in c + 1 .. c + m THEN kernel[a + i - c] ELSE wide[i]
  <2>1. DOMAIN wide = 1 .. Len(wide) /\ Len(wide) \in Nat
    BY <1>6
  <2>2. read = [i \in 1 .. Len(wide) |-> IF i \in c + 1 .. c + m THEN kernel[a + i - c] ELSE wide[i]]
    BY <2>1 DEF Stored
  <2>3. \A i \in c + 1 .. c + m : a + i - c \in 1 .. Len(kernel)
    <3> HIDE DEF a, c
    <3>1. a \in Nat /\ c \in Nat /\ m \in Nat /\ a + m <= Len(kernel) /\ Len(kernel) \in Nat
      BY <1>2, <1>3, <1>4
    <3> QED
      BY ONLY <3>1
  <2>4. \A i \in c + 1 .. c + m : kernel[a + i - c] \in Nat
    BY <1>2, <2>3
  <2>5. \A i \in 1 .. Len(wide) : wide[i] \in Nat
    BY <1>6
  <2> HIDE DEF read, a, c
  <2>6. read \in [1 .. Len(wide) -> Nat]
    BY ONLY <2>2, <2>4, <2>5
  <2>7. read \in Seq(Nat) /\ Len(read) = Len(wide)
    BY ONLY <2>1, <2>6, IsSequence
  <2> QED
    BY ONLY <2>2, <2>7
<1> HIDE DEF read, a, c
<1>8. /\ t \in Seq(Nat) /\ Len(t) = a + m
      /\ \A i \in 1 .. a + m : t[i] = read[i]
  <2>1. Len(objects.buf) + m = a + m /\ a + m \in Nat /\ a + m <= Len(read)
    BY <1>0, <1>2, <1>4, <1>6, <1>7
  <2>2. \A i \in 1 .. a + m : read[i] \in Nat
    BY <1>7, <2>1
  <2>3. t = SubSeq(read, 1, a + m)
    BY <2>1
  <2> HIDE DEF t
  <2> DEFINE k == a + m
  <2> HIDE DEF k
  <2>4. k \in Nat /\ t = SubSeq(read, 1, k) /\ \A i \in 1 .. k : read[i] \in Nat
    BY <2>1, <2>2, <2>3 DEF k
  <2>5. t \in Seq(Nat) /\ Len(t) = k /\ \A i \in 1 .. k : t[i] = read[i]
    <3>1. /\ t \in Seq(Nat) /\ Len(t) = (IF 1 <= k THEN k - 1 + 1 ELSE 0)
          /\ \A i \in 1 .. k - 1 + 1 : t[i] = read[1 + i - 1]
      <4>1. k \in Int /\ 1 \in Int
        BY <2>4
      <4> QED
        BY ONLY <2>4, <4>1, SubSeqProperties
    <3> QED
      BY ONLY <2>4, <3>1
  <2> QED
    BY <2>5 DEF k
<1> HIDE DEF t
<1>9. objects'.at = a + m /\ objects'.eof = r.eof /\ objects'.cursor = c /\ objects'.buf = t
  BY <1>1 DEF c
<1>10. /\ c <= a + m
       /\ a + m \in {c, Len(kernel)} \/ a + m >= c + CHUNK_SIZE
  BY <1>0, <1>2, <1>3, <1>4 DEF a, c
<1>11. ASSUME Len(kernel) - c <= CHUNK_SIZE, NEW i \in 1 .. a + m
       PROVE  t[i] = i
  <2>1. \A k \in 1 .. a : objects.buf[k] = k
    BY <1>1, <1>11 DEF StreamInv, a, c
  <2>2. a \in {c, Len(kernel)}
    BY <1>0, <1>1, <1>2, <1>11 DEF StreamInv, a, c
  <2>3. t[i] = IF i \in c + 1 .. c + m THEN kernel[a + i - c] ELSE wide[i]
    BY <1>0, <1>4, <1>6, <1>7, <1>8
  <2>4. CASE a = c
    <3>1. CASE i \in c + 1 .. c + m
      <4>1. a + i - c = i /\ i \in 1 .. Len(kernel)
        BY <1>2, <1>3, <1>4, <2>4
      <4> QED
        BY <2>3, <3>1, <4>1 DEF StreamInv
    <3>2. CASE i \notin c + 1 .. c + m
      <4>1. i \in 1 .. a
        BY <1>2, <1>4, <2>4, <3>2
      <4> QED
        BY <1>6, <2>1, <2>3, <3>2, <4>1
    <3> QED
      BY <3>1, <3>2
  <2>5. CASE a = Len(kernel)
    <3>1. m = 0
      BY <1>2, <1>3, <1>4, <2>5
    <3>2. i \in 1 .. a /\ i \notin c + 1 .. c + m
      BY <1>2, <1>4, <3>1
    <3> QED
      BY <1>6, <2>1, <2>3, <3>2
  <2> QED
    BY <2>2, <2>4, <2>5
<1>12. a + m \in 0 .. Len(kernel)
  BY <1>2, <1>3, <1>4
<1> QED
  BY <1>1, <1>2, <1>3, <1>8, <1>9, <1>10, <1>11, <1>12 DEF StreamInv, c

LEMMA StreamMeaning ==
    ASSUME StreamInv, objects.eof
    PROVE  /\ Len(objects.buf) = Len(kernel)
           /\ Len(kernel) - objects.cursor <= CHUNK_SIZE => objects.buf = kernel
<1>1. objects.cursor # -1 /\ objects.at = Len(kernel) /\ Len(objects.buf) = Len(kernel)
  BY DEF StreamInv
<1>2. ASSUME Len(kernel) - objects.cursor <= CHUNK_SIZE
      PROVE  objects.buf = kernel
  <2>1. \A i \in 1 .. Len(kernel) : objects.buf[i] = i /\ kernel[i] = i
    BY <1>1, <1>2 DEF StreamInv
  <2>2. objects.buf \in Seq(Nat) /\ kernel \in Seq(Nat)
    BY DEF StreamInv
  <2> QED
    BY <1>1, <2>1, <2>2, SeqEqual
<1> QED
  BY <1>1, <1>2

-----------------------------------------------------------------------------
(* Clocks.                                                                 *)

\* The time kept is that of the start until a period has passed, and a whole
\* period ago from then on.
PeriodInv ==
    /\ kernel \in Nat /\ objects \in Nat
    /\ objects = 0 \/ kernel - objects >= Period
    /\ kernel < Period => objects = 0
    /\ \A k \in DOMAIN story : story[k][2] <=> story[k][1] >= Period

LEMMA WholePeriods ==
    ASSUME NEW d \in Nat, d >= Period
    PROVE  d % Period \in Nat /\ d - (d % Period) >= Period
<1> DEFINE q == d \div Period
           r == d % Period
           P == Period
<1>1. P \in Nat \ {0}
  BY SystemAssumption
<1>2. q \in Int /\ r \in 0 .. P - 1 /\ d = P * q + r
  BY ONLY <1>1, d \in Nat
<1> HIDE DEF q, r, P
<1>3. q >= 1
  <2>1. CASE q <= 0
    <3>1. P * q <= 0
      BY ONLY <1>1, <1>2, <2>1
    <3> QED
      BY <1>1, <1>2, <3>1 DEF P
  <2> QED
    BY <1>2, <2>1
<1>4. P * q >= P
  BY ONLY <1>1, <1>2, <1>3
<1> QED
  BY <1>1, <1>2, <1>4 DEF r, P

LEMMA PeriodStep ==
    ASSUME PeriodInv, period_poll \/ \E n \in 1 .. Period + 1 : Tick(n)
    PROVE  PeriodInv'
<1>0. Period \in Nat \ {0}
  BY SystemAssumption
<1>1. CASE \E n \in 1 .. Period + 1 : Tick(n)
  BY <1>0, <1>1 DEF PeriodInv, Tick
<1>2. CASE period_poll
  <2> DEFINE diff == kernel - objects
             due == diff >= Period
  <2>1. /\ objects' = (IF due THEN objects + (diff % Period) ELSE objects)
        /\ story' = << <<kernel, due>> >> /\ kernel' = kernel
    BY <1>2 DEF period_poll
  <2>2. due <=> kernel >= Period
    BY <1>0 DEF PeriodInv
  <2>3. \A k \in DOMAIN story' : story'[k][2] <=> story'[k][1] >= Period
    <3> HIDE DEF due
    <3>1. DOMAIN story' = 1 .. 1 /\ story'[1] = <<kernel, due>>
      BY <2>1
    <3>2. story'[1][1] = kernel /\ story'[1][2] = due
      BY <3>1
    <3>3. \A k \in 1 .. 1 : k = 1
      OBVIOUS
    <3> QED
      BY ONLY <2>2, <3>1, <3>2, <3>3
  <2>4. CASE due
    <3>1. diff \in Nat /\ diff >= Period
      BY <1>0, <2>4 DEF PeriodInv
    <3>2. diff % Period \in Nat /\ diff - (diff % Period) >= Period
      BY <3>1, WholePeriods
    <3>3. objects' = objects + (diff % Period)
      BY <2>1, <2>4
    <3> QED
      BY <1>0, <2>1, <2>2, <2>3, <2>4, <3>2, <3>3 DEF PeriodInv
  <2>5. CASE ~due
    BY <2>1, <2>3, <2>5 DEF PeriodInv
  <2> QED
    BY <2>4, <2>5
<1> QED
  BY <1>1, <1>2

\* The last call came when the return before the last had been made.
LimiterInv ==
    /\ kernel \in Nat /\ objects \in Nat /\ story \in Seq(Nat)
    /\ Len(story) >= 1 => story[Len(story)] <= kernel
    /\ Len(story) >= 2 => story[Len(story) - 1] <= objects
    /\ \A k \in 3 .. Len(story) : story[k] - story[k - 2] >= Period

LEMMA LimiterStep ==
    ASSUME LimiterInv, limiter_poll \/ \E n \in 1 .. Period + 1 : Tick(n)
    PROVE  LimiterInv'
<1>0. Period \in Nat \ {0}
  BY SystemAssumption
<1>1. CASE \E n \in 1 .. Period + 1 : Tick(n)
  BY <1>0, <1>1 DEF LimiterInv, Tick
<1>2. CASE limiter_poll
  <2> DEFINE return == IF kernel - objects < Period THEN sleep(kernel, Period - (kernel - objects))
                                                    ELSE kernel
             n == Len(story)
  <2>1. objects' = kernel /\ kernel' = return /\ story' = Append(story, return)
    BY <1>2 DEF limiter_poll
  <2>2. return \in Nat /\ return >= kernel /\ return >= objects + Period
    BY <1>0 DEF LimiterInv, sleep
  <2> HIDE DEF return
  <2>3. /\ n \in Nat /\ story' \in Seq(Nat) /\ Len(story') = n + 1
        /\ story'[n + 1] = return /\ \A k \in 1 .. n : story'[k] = story[k]
    BY <2>1, <2>2 DEF LimiterInv
  <2>4. n + 1 >= 2 => story'[n + 1 - 1] <= objects'
    <3> SUFFICES ASSUME n >= 1 PROVE story'[n] <= kernel
      BY <2>1, <2>3
    <3> QED
      BY <2>3 DEF LimiterInv
  <2>5. ASSUME NEW k \in 3 .. n + 1
        PROVE  story'[k] - story'[k - 2] >= Period
    <3>1. CASE k <= n
      <4>1. k \in 3 .. n /\ k \in 1 .. n /\ k - 2 \in 1 .. n
        BY <2>3, <3>1
      <4>2. story'[k] = story[k] /\ story'[k - 2] = story[k - 2]
        BY <2>3, <4>1
      <4> QED
        BY <4>1, <4>2 DEF LimiterInv
    <3>2. CASE k = n + 1
      <4>1. n >= 2 /\ k - 2 = n - 1 /\ n - 1 \in 1 .. n
        BY <2>3, <3>2
      <4>2. story'[k] = return /\ story'[k - 2] = story[n - 1]
        BY <2>3, <3>2, <4>1
      <4>3. story[n - 1] <= objects /\ story[n - 1] \in Nat /\ objects \in Nat
        BY <4>1 DEF LimiterInv
      <4> QED
        BY <1>0, <2>2, <4>2, <4>3
    <3> QED
      BY <2>3, <3>1, <3>2
  <2> QED
    BY <2>1, <2>2, <2>3, <2>4, <2>5 DEF LimiterInv
<1> QED
  BY <1>1, <1>2

DeltaInv == kernel \in Nat /\ objects.curr \in Nat /\ story = objects.curr /\ objects.curr <= kernel

LEMMA DeltaStep ==
    ASSUME DeltaInv, delta_seconds \/ \E n \in 1 .. Period + 1 : Tick(n)
    PROVE  DeltaInv'
<1>0. Period \in Nat \ {0}
  BY SystemAssumption
<1>1. CASE \E n \in 1 .. Period + 1 : Tick(n)
  BY <1>0, <1>1 DEF DeltaInv, Tick
<1>2. CASE delta_seconds
  BY <1>2 DEF DeltaInv, delta_seconds
<1> QED
  BY <1>1, <1>2

\* Of the series that are printed each begins where the one before it ended.
Whole(all, printed) ==
    /\ \A k \in 0 .. Len(printed) : Upto(printed, k) \in 0 .. Len(all)
    /\ \A k \in 1 .. Len(printed) :
        /\ printed[k].series = Milliseconds(all, Upto(printed, k - 1), Upto(printed, k))
        /\ PrintedAt(printed, k) - PrintedAt(printed, k - 1) > Period

DurationInv ==
    /\ kernel \in Nat
    /\ objects \in [last : Int, next : Int, series : Seq(Int)]
    /\ story \in [all : Seq(Int), printed : Seq([at : Nat, series : Seq(Int), upto : Nat])]
    /\ objects.next = PrintedAt(story.printed, Len(story.printed)) + Period
    /\ objects.series = Milliseconds(story.all, Upto(story.printed, Len(story.printed)), Len(story.all))
    /\ Whole(story.all, story.printed)

LEMMA MillisecondsAre ==
    ASSUME NEW all \in Seq(Int), NEW i \in 0 .. Len(all), NEW j \in 0 .. Len(all)
    PROVE  /\ Milliseconds(all, i, j) \in Seq(Int)
           /\ Len(Milliseconds(all, i, j)) = IF i <= j THEN j - i ELSE 0
           /\ \A n \in 1 .. j - i : Milliseconds(all, i, j)[n] = all[i + n] \div 2
<1>0. Len(all) \in Nat
  OBVIOUS
<1>1. \A n \in 1 .. j - i : i + n \in 1 .. Len(all)
  BY <1>0
<1>2. \A n \in 1 .. j - i : all[i + n] \div 2 \in Int
  BY <1>1
<1> DEFINE k == IF i <= j THEN j - i ELSE 0
           m == Milliseconds(all, i, j)
<1>3. k \in Nat /\ 1 .. j - i = 1 .. k
  BY <1>0
<1>4. m = [n \in 1 .. j - i |-> all[i + n] \div 2]
  BY DEF Milliseconds, MILLISECOND
<1> HIDE DEF m, k
<1>5. m \in [1 .. k -> Int]
  BY ONLY <1>2, <1>3, <1>4
<1>6. m \in Seq(Int) /\ Len(m) = k
  BY ONLY <1>3, <1>5, IsSequence
<1>7. \A n \in 1 .. j - i : m[n] = all[i + n] \div 2
  BY ONLY <1>4
<1> QED
  BY <1>6, <1>7 DEF m, k

\* A duration more leaves the series behind it as they are and makes the last
\* one longer.
LEMMA MillisecondsGrow ==
    ASSUME NEW all \in Seq(Int), NEW x \in Int
    PROVE  /\ \A i, j \in 0 .. Len(all) : Milliseconds(Append(all, x), i, j) = Milliseconds(all, i, j)
           /\ \A i \in 0 .. Len(all) :
                Milliseconds(Append(all, x), i, Len(all) + 1) = Append(Milliseconds(all, i, Len(all)), x \div MILLISECOND)
           /\ Milliseconds(Append(all, x), Len(all) + 1, Len(all) + 1) = <<>>
<1> DEFINE more == Append(all, x)
           n == Len(all)
<1>1. /\ n \in Nat /\ more \in Seq(Int) /\ Len(more) = n + 1 /\ more[n + 1] = x
      /\ \A k \in 1 .. n : more[k] = all[k]
  OBVIOUS
<1> HIDE DEF more, n
<1>2. ASSUME NEW i \in 0 .. n, NEW j \in 0 .. n
      PROVE  Milliseconds(more, i, j) = Milliseconds(all, i, j)
  <2>1. \A k \in 1 .. j - i : i + k \in 1 .. n
    BY <1>1
  <2>2. \A k \in 1 .. j - i : more[i + k] = all[i + k]
    BY <1>1, <2>1
  <2> QED
    BY ONLY <2>2 DEF Milliseconds
<1>3. ASSUME NEW i \in 0 .. n
      PROVE  Milliseconds(more, i, n + 1) = Append(Milliseconds(all, i, n), x \div MILLISECOND)
  <2> DEFINE a == Milliseconds(more, i, n + 1)
             b == Milliseconds(all, i, n)
             y == x \div 2
  <2>1. a \in Seq(Int) /\ Len(a) = n + 1 - i /\ \A k \in 1 .. n + 1 - i : a[k] = more[i + k] \div 2
    <3> DEFINE m == n + 1
    <3>1. i \in 0 .. Len(more) /\ m \in 0 .. Len(more) /\ i <= m
      BY <1>1
    <3> HIDE DEF m
    <3>2. /\ Milliseconds(more, i, m) \in Seq(Int)
          /\ Len(Milliseconds(more, i, m)) = IF i <= m THEN m - i ELSE 0
          /\ \A k \in 1 .. m - i : Milliseconds(more, i, m)[k] = more[i + k] \div 2
      BY ONLY <1>1, <3>1, MillisecondsAre
    <3>3. /\ Milliseconds(more, i, m) \in Seq(Int) /\ Len(Milliseconds(more, i, m)) = m - i
          /\ \A k \in 1 .. m - i : Milliseconds(more, i, m)[k] = more[i + k] \div 2
      BY ONLY <3>1, <3>2
    <3>4. m = n + 1 /\ a = Milliseconds(more, i, m)
      BY DEF m
    <3> HIDE DEF a
    <3>5. m - i = n + 1 - i
      BY ONLY <3>4, <1>1, i \in 0 .. n
    <3> QED
      BY ONLY <3>3, <3>4, <3>5
  <2>2. b \in Seq(Int) /\ Len(b) = n - i /\ \A k \in 1 .. n - i : b[k] = all[i + k] \div 2
    <3>1. n \in 0 .. n /\ i <= n
      BY <1>1
    <3>2. all \in Seq(Int) /\ i \in 0 .. Len(all) /\ n \in 0 .. Len(all)
      BY <3>1 DEF n
    <3>3. /\ Milliseconds(all, i, n) \in Seq(Int)
          /\ Len(Milliseconds(all, i, n)) = IF i <= n THEN n - i ELSE 0
          /\ \A k \in 1 .. n - i : Milliseconds(all, i, n)[k] = all[i + k] \div 2
      BY ONLY <3>2, MillisecondsAre
    <3> QED
      BY <3>1, <3>3
  <2>3. y \in Int
    OBVIOUS
  <2> HIDE DEF a, b, y
  <2>4. /\ Append(b, y) \in Seq(Int) /\ Len(Append(b, y)) = n - i + 1
        /\ Append(b, y)[n - i + 1] = y /\ \A k \in 1 .. n - i : Append(b, y)[k] = b[k]
    BY <2>2, <2>3
  <2>5. ASSUME NEW k \in 1 .. n + 1 - i
        PROVE  a[k] = Append(b, y)[k]
    <3>1. CASE k \in 1 .. n - i
      <4>1. i + k \in 1 .. n
        BY <1>1, <3>1
      <4> QED
        BY <1>1, <2>1, <2>2, <2>4, <3>1, <4>1
    <3>2. CASE k = n - i + 1
      <4>1. i + k = n + 1
        BY <1>1, <3>2
      <4>2. a[k] = more[n + 1] \div 2
        BY <2>1, <4>1
      <4> QED
        BY <1>1, <2>4, <3>2, <4>2 DEF y
    <3>3. k \in 1 .. n - i \/ k = n - i + 1
      BY ONLY <1>1, i \in 0 .. n, k \in 1 .. n + 1 - i
    <3> QED
      BY <3>1, <3>2, <3>3
  <2>6. Len(a) = Len(Append(b, y)) /\ \A k \in 1 .. Len(a) : a[k] = Append(b, y)[k]
    <3>1. n + 1 - i = n - i + 1
      BY <1>1
    <3> QED
      BY ONLY <2>1, <2>4, <2>5, <3>1
  <2>7. a = Append(b, y)
    BY ONLY <2>1, <2>4, <2>6, SeqEqual
  <2> QED
    BY <2>7 DEF a, b, y, MILLISECOND
<1>4. Milliseconds(more, n + 1, n + 1) = <<>>
  <2> DEFINE m == n + 1
  <2>1. m \in 0 .. Len(more) /\ m - m = 0 /\ m <= m
    BY <1>1
  <2> HIDE DEF m
  <2>2. Milliseconds(more, m, m) \in Seq(Int) /\ Len(Milliseconds(more, m, m)) = IF m <= m THEN m - m ELSE 0
    BY ONLY <1>1, <2>1, MillisecondsAre
  <2>3. Milliseconds(more, m, m) = <<>>
    BY ONLY <2>1, <2>2, EmptySeq
  <2> QED
    BY <2>3 DEF m
<1> QED
  BY <1>2, <1>3, <1>4 DEF more, n

LEMMA DurationStart ==
    ASSUME DurationInv, duration_start
    PROVE  DurationInv'
<1>1. /\ objects' = [objects EXCEPT !.last = kernel] /\ kernel' = kernel /\ story' = story
  BY DEF duration_start
<1>2. objects' \in [last : Int, next : Int, series : Seq(Int)]
      /\ objects'.next = objects.next /\ objects'.series = objects.series
  <2>1. objects \in [last : Int, next : Int, series : Seq(Int)] /\ kernel \in Int
    BY DEF DurationInv
  <2> QED
    BY ONLY <1>1, <2>1
<1> QED
  BY <1>1, <1>2 DEF DurationInv

LEMMA WholeGrows ==
    ASSUME NEW all \in Seq(Int), NEW dt \in Int, NEW printed, Len(printed) \in Nat, Whole(all, printed)
    PROVE  Whole(Append(all, dt), printed)
<1> DEFINE P == Len(printed)
           more == Append(all, dt)
<1>1. Len(more) = Len(all) + 1 /\ Len(all) \in Nat
  OBVIOUS
<1>2. \A i, j \in 0 .. Len(all) : Milliseconds(more, i, j) = Milliseconds(all, i, j)
  BY MillisecondsGrow
<1> HIDE DEF more
<1>3. \A k \in 0 .. P : Upto(printed, k) \in 0 .. Len(all)
  BY DEF Whole
<1>4. \A k \in 0 .. P : Upto(printed, k) \in 0 .. Len(more)
  BY <1>1, <1>3
<1>5. ASSUME NEW k \in 1 .. P
      PROVE  printed[k].series = Milliseconds(more, Upto(printed, k - 1), Upto(printed, k))
  <2>1. k - 1 \in 0 .. P /\ k \in 0 .. P
    OBVIOUS
  <2>2. Upto(printed, k - 1) \in 0 .. Len(all) /\ Upto(printed, k) \in 0 .. Len(all)
    BY <1>3, <2>1
  <2>3. printed[k].series = Milliseconds(all, Upto(printed, k - 1), Upto(printed, k))
    BY DEF Whole
  <2> QED
    BY <1>2, <2>2, <2>3
<1> QED
  BY <1>4, <1>5 DEF Whole, more

\* A series more is the one that ends with the newest duration.
LEMMA WholePrinted ==
    ASSUME NEW all \in Seq(Int), NEW dt \in Int, NEW R, NEW printed \in Seq(R), NEW next \in R,
           Whole(all, printed), next.upto = Len(all) + 1,
           next.series = Append(Milliseconds(all, Upto(printed, Len(printed)), Len(all)), dt \div MILLISECOND),
           next.at - PrintedAt(printed, Len(printed)) > Period
    PROVE  Whole(Append(all, dt), Append(printed, next))
<1> DEFINE P == Len(printed)
           n == Len(all)
           more == Append(all, dt)
           after == Append(printed, next)
<1>1. n \in Nat /\ P \in Nat /\ Len(more) = n + 1 /\ Len(after) = P + 1
  OBVIOUS
<1>2. after[P + 1] = next /\ \A k \in 1 .. P : after[k] = printed[k]
  OBVIOUS
<1>3. \A k \in 0 .. P : Upto(after, k) = Upto(printed, k) /\ PrintedAt(after, k) = PrintedAt(printed, k)
  BY <1>2 DEF Upto, PrintedAt
<1>4. P + 1 # 0 /\ Upto(after, P + 1) = n + 1 /\ PrintedAt(after, P + 1) = next.at
  BY <1>1, <1>2 DEF Upto, PrintedAt
<1>5. /\ \A k \in 0 .. P : Upto(printed, k) \in 0 .. n + 1
      /\ \A k \in 1 .. P : printed[k].series = Milliseconds(more, Upto(printed, k - 1), Upto(printed, k))
      /\ \A k \in 1 .. P : PrintedAt(printed, k) - PrintedAt(printed, k - 1) > Period
  <2>1. Whole(more, printed)
    BY <1>1, WholeGrows
  <2> HIDE DEF more
  <2> QED
    BY <1>1, <2>1 DEF Whole
<1>6. P \in 0 .. P /\ Upto(printed, P) \in 0 .. n
  BY <1>1 DEF Whole
<1>7. Milliseconds(more, Upto(printed, P), n + 1) = next.series
  BY <1>6, MillisecondsGrow
<1> HIDE DEF n, P, more, after
<1>8. \A k \in 0 .. P + 1 : Upto(after, k) \in 0 .. n + 1
  <2>1. \A k \in 0 .. P + 1 : k \in 0 .. P \/ k = P + 1
    BY ONLY <1>1
  <2>2. n + 1 \in 0 .. n + 1
    BY ONLY <1>1
  <2> QED
    BY ONLY <1>3, <1>4, <1>5, <2>1, <2>2
<1>9. ASSUME NEW k \in 1 .. P + 1
      PROVE  /\ after[k].series = Milliseconds(more, Upto(after, k - 1), Upto(after, k))
             /\ PrintedAt(after, k) - PrintedAt(after, k - 1) > Period
  <2>1. CASE k \in 1 .. P
    <3>1. k - 1 \in 0 .. P /\ k \in 0 .. P
      BY ONLY <1>1, <2>1
    <3>2. /\ Upto(after, k - 1) = Upto(printed, k - 1) /\ Upto(after, k) = Upto(printed, k)
          /\ PrintedAt(after, k - 1) = PrintedAt(printed, k - 1)
          /\ PrintedAt(after, k) = PrintedAt(printed, k)
      BY ONLY <1>3, <3>1
    <3> QED
      BY ONLY <1>2, <1>5, <2>1, <3>2
  <2>2. CASE k = P + 1
    <3>1. k - 1 = P
      BY ONLY <1>1, <2>2
    <3>2. Upto(after, k - 1) = Upto(printed, P) /\ PrintedAt(after, k - 1) = PrintedAt(printed, P)
      BY ONLY <1>3, <1>6, <3>1
    <3>3. next.at - PrintedAt(printed, P) > Period
      BY DEF P
    <3> QED
      BY ONLY <1>2, <1>4, <1>7, <2>2, <3>2, <3>3
  <2>3. k \in 1 .. P \/ k = P + 1
    BY ONLY <1>1, k \in 1 .. P + 1
  <2> QED
    BY <2>1, <2>2, <2>3
<1> QED
  BY <1>1, <1>8, <1>9 DEF Whole, more, after

LEMMA DurationStop ==
    ASSUME DurationInv, duration_stop
    PROVE  DurationInv'
<1> DEFINE dt == kernel - objects.last
           x == dt \div MILLISECOND
           all == story.all
           printed == story.printed
           series == Append(objects.series, x)
           R == [at : Nat, series : Seq(Int), upto : Nat]
           next == [at |-> kernel, series |-> series, upto |-> Len(all) + 1]
<1>1. /\ objects \in [last : Int, next : Int, series : Seq(Int)]
      /\ story \in [all : Seq(Int), printed : Seq(R)] /\ kernel \in Nat
  BY DEF DurationInv
<1>2. dt \in Int /\ all \in Seq(Int) /\ printed \in Seq(R) /\ objects.series \in Seq(Int)
  BY <1>1
<1>3. x \in Int /\ series \in Seq(Int) /\ Len(all) \in Nat
  BY <1>2 DEF MILLISECOND
<1>4. /\ Whole(all, printed) /\ objects.next = PrintedAt(printed, Len(printed)) + Period
      /\ objects.series = Milliseconds(all, Upto(printed, Len(printed)), Len(all))
  BY DEF DurationInv
<1>5. kernel' = kernel
  BY DEF duration_stop
<1>6. CASE objects.next < kernel
  <2>1. /\ objects' = [objects EXCEPT !.series = <<>>, !.next = kernel + Period]
        /\ story' = [all |-> Append(all, dt), printed |-> Append(printed, next)]
    BY <1>6 DEF duration_stop
  <2>2. next \in R /\ next.upto = Len(all) + 1 /\ next.at = kernel /\ next.series = series
    BY <1>1, <1>3
  <2> HIDE DEF next, R
  <2>3. next.at - PrintedAt(printed, Len(printed)) > Period
    <3>1. PrintedAt(printed, Len(printed)) \in Nat
      <4>1. Len(printed) \in Nat /\ \A k \in 1 .. Len(printed) : printed[k] \in R
        BY <1>2
      <4>2. \A k \in 1 .. Len(printed) : printed[k].at \in Nat
        BY <4>1 DEF R
      <4>3. CASE Len(printed) = 0
        BY <4>3 DEF PrintedAt
      <4>4. CASE Len(printed) # 0
        <5>1. Len(printed) \in 1 .. Len(printed)
          BY <4>1, <4>4
        <5> QED
          BY <4>2, <4>4, <5>1 DEF PrintedAt
      <4> QED
        BY <4>3, <4>4
    <3>2. Period \in Nat
      BY SystemAssumption
    <3> QED
      BY <1>1, <1>4, <1>6, <2>2, <3>1, <3>2
  <2>4. Whole(Append(all, dt), Append(printed, next))
    BY <1>2, <1>4, <2>2, <2>3, WholePrinted
  <2>5. Append(all, dt) \in Seq(Int) /\ Append(printed, next) \in Seq(R)
        /\ Len(Append(all, dt)) = Len(all) + 1
    BY <1>2, <2>2
  <2>6. story' \in [all : Seq(Int), printed : Seq(R)]
        /\ story'.all = Append(all, dt) /\ story'.printed = Append(printed, next)
    BY ONLY <2>1, <2>5
  <2>7. objects' \in [last : Int, next : Int, series : Seq(Int)]
        /\ objects'.series = <<>> /\ objects'.next = kernel + Period
    <3>1. kernel + Period \in Int /\ <<>> \in Seq(Int)
      BY <1>1, SystemAssumption
    <3> QED
      BY ONLY <1>1, <2>1, <3>1
  <2>8. /\ PrintedAt(Append(printed, next), Len(Append(printed, next))) = kernel
        /\ Upto(Append(printed, next), Len(Append(printed, next))) = Len(all) + 1
    <3>1. /\ Len(printed) \in Nat /\ Len(Append(printed, next)) = Len(printed) + 1
          /\ Append(printed, next)[Len(printed) + 1] = next
      BY <1>2, <2>2
    <3>2. Len(printed) + 1 # 0
      BY <3>1
    <3> QED
      BY ONLY <2>2, <3>1, <3>2 DEF PrintedAt, Upto
  <2>9. Milliseconds(Append(all, dt), Len(all) + 1, Len(all) + 1) = <<>>
    BY <1>2, MillisecondsGrow
  <2> QED
    BY <1>1, <1>5, <2>4, <2>5, <2>6, <2>7, <2>8, <2>9 DEF DurationInv, R
<1>7. CASE ~(objects.next < kernel)
  <2>1. objects' = [objects EXCEPT !.series = series] /\ story' = [story EXCEPT !.all = Append(all, dt)]
    BY <1>7 DEF duration_stop
  <2>2. Append(all, dt) \in Seq(Int) /\ Len(Append(all, dt)) = Len(all) + 1
    BY <1>2
  <2>3. story' \in [all : Seq(Int), printed : Seq(R)]
        /\ story'.all = Append(all, dt) /\ story'.printed = printed
    <3> HIDE DEF R, dt
    <3> QED
      BY ONLY <1>1, <2>1, <2>2
  <2>4. objects' \in [last : Int, next : Int, series : Seq(Int)]
        /\ objects'.series = series /\ objects'.next = objects.next
    <3> HIDE DEF series
    <3> QED
      BY ONLY <1>1, <1>3, <2>1
  <2>5. Whole(Append(all, dt), printed)
    <3>1. Len(printed) \in Nat
      BY <1>2
    <3> QED
      BY <1>2, <1>4, <3>1, WholeGrows
  <2>6. series = Milliseconds(Append(all, dt), Upto(printed, Len(printed)), Len(all) + 1)
    <3>1. Upto(printed, Len(printed)) \in 0 .. Len(all)
      <4>1. Len(printed) \in 0 .. Len(printed)
        BY <1>2
      <4> QED
        BY <1>4, <4>1 DEF Whole
    <3> QED
      BY <1>2, <1>4, <3>1, MillisecondsGrow
  <2> QED
    BY <1>1, <1>4, <1>5, <2>2, <2>3, <2>4, <2>5, <2>6 DEF DurationInv, R
<1> QED
  BY <1>6, <1>7

LEMMA DurationStep ==
    ASSUME DurationInv,
           duration_start \/ duration_stop \/ \E n \in 1 .. Period + 1 : Tick(n)
    PROVE  DurationInv'
<1>1. CASE \E n \in 1 .. Period + 1 : Tick(n)
  <2>1. PICK n \in 1 .. Period + 1 : Tick(n)
    BY <1>1
  <2>2. Period \in Nat
    BY SystemAssumption
  <2>3. kernel' \in Nat /\ objects' = objects /\ story' = story
    BY <2>1, <2>2 DEF DurationInv, Tick
  <2> QED
    BY <2>3 DEF DurationInv
<1> QED
  BY <1>1, DurationStart, DurationStop

-----------------------------------------------------------------------------
(* Results of tests.                                                       *)

Words == {"ok", "not ok", "skip", "todo"}
Results == {"ok", "not ok"}
Lines == [result : Words \union {"plan"}, n : Nat]
Status(status, failed) == status = "failure" <=> failed
Standard(output) == output = "cout"
Elsewhere(output) == output = "other"

\* The lines on the two streams are those of the tests, each once.
Told(mine, theirs, status, output, tests) ==
    /\ Numbered(mine, tests) /\ Numbered(theirs, tests)
    /\ Len(mine) + Len(theirs) = Len(tests)
    /\ \A i \in DOMAIN mine, j \in DOMAIN theirs : mine[i].n # theirs[j].n
    /\ Status(status, Failed(mine) \/ Failed(theirs))
    /\ Standard(output) => Len(theirs) = 0 /\ \A i \in DOMAIN mine : mine[i].n = i
    /\ Elsewhere(output) => \A j \in DOMAIN theirs : theirs[j].result \in Results

TestInv ==
    /\ objects \in [output : {"cout", "other"}, status : {"success", "failure"}, size : Nat, alive : BOOLEAN]
    /\ kernel \in [cout : Seq(Lines), other : Seq(Lines)]
    /\ story \in Seq(Words) /\ objects.size = Len(story)
    /\ objects.alive => Told(kernel.cout, kernel.other, objects.status, objects.output, story)
    /\ ~objects.alive =>
        /\ Len(kernel.cout) >= 1
        /\ kernel.cout[Len(kernel.cout)] = Line("plan", Len(story))
        /\ Told(SubSeq(kernel.cout, 1, Len(kernel.cout) - 1), kernel.other,
                objects.status, objects.output, story)

\* The line of the newest test comes last.
LEMMA NumberedGrows ==
    ASSUME NEW lines \in Seq(Lines), NEW tests \in Seq(Words), NEW r \in Words, Numbered(lines, tests)
    PROVE  /\ Numbered(lines, Append(tests, r))
           /\ Numbered(Append(lines, Line(r, Len(tests) + 1)), Append(tests, r))
<1> DEFINE n == Len(tests)
           k == Len(lines)
           l == Line(r, n + 1)
           more == Append(tests, r)
           after == Append(lines, l)
<1>1. /\ n \in Nat /\ k \in Nat /\ DOMAIN tests = 1 .. n /\ DOMAIN lines = 1 .. k
      /\ DOMAIN more = 1 .. n + 1 /\ more[n + 1] = r /\ \A i \in 1 .. n : more[i] = tests[i]
  OBVIOUS
<1>2. l \in Lines /\ l.n = n + 1 /\ l.result = r
  BY <1>1 DEF Line, Lines
<1>3. DOMAIN after = 1 .. k + 1 /\ after[k + 1] = l /\ \A i \in 1 .. k : after[i] = lines[i]
  BY <1>2
<1>4. /\ \A i \in 1 .. k : lines[i].n \in 1 .. n /\ lines[i].result = tests[lines[i].n]
      /\ \A i, j \in 1 .. k : i < j => lines[i].n < lines[j].n
  BY <1>1 DEF Numbered
<1> HIDE DEF n, k, l, more, after
<1>5. 1 .. n \subseteq 1 .. n + 1 /\ n + 1 \in 1 .. n + 1 /\ \A i \in 1 .. n : i < n + 1
  BY <1>1
<1>6. \A i \in 1 .. k + 1 : i \in 1 .. k \/ i = k + 1
  BY <1>1
<1>7. \A i \in 1 .. k : lines[i].n \in 1 .. n + 1 /\ lines[i].result = more[lines[i].n]
  BY <1>1, <1>4, <1>5
<1>8. Numbered(lines, more)
  BY <1>1, <1>4, <1>7 DEF Numbered
<1>9. \A i \in 1 .. k + 1 : after[i].n \in 1 .. n + 1 /\ after[i].result = more[after[i].n]
  BY <1>1, <1>2, <1>3, <1>5, <1>6, <1>7
<1>10. ASSUME NEW i \in 1 .. k + 1, NEW j \in 1 .. k + 1, i < j
       PROVE  after[i].n < after[j].n
  <2>1. i \in 1 .. k
    BY <1>1, <1>10
  <2>2. CASE j \in 1 .. k
    BY <1>3, <1>4, <1>10, <2>1, <2>2
  <2>3. CASE j = k + 1
    BY <1>2, <1>3, <1>4, <1>5, <2>1, <2>3
  <2> QED
    BY <1>6, <2>2, <2>3
<1>11. Numbered(after, more)
  BY <1>1, <1>3, <1>9, <1>10 DEF Numbered
<1> QED
  BY <1>8, <1>11 DEF more, after, l, n

LEMMA FailedGrows ==
    ASSUME NEW lines \in Seq(Lines), NEW l \in Lines
    PROVE  Failed(Append(lines, l)) <=> Failed(lines) \/ l.result = "not ok"
<1> DEFINE k == Len(lines)
           after == Append(lines, l)
<1>1. /\ k \in Nat /\ DOMAIN lines = 1 .. k
      /\ DOMAIN after = 1 .. k + 1 /\ after[k + 1] = l /\ \A i \in 1 .. k : after[i] = lines[i]
  OBVIOUS
<1> HIDE DEF k, after
<1>2. \A i : i \in 1 .. k + 1 <=> i \in 1 .. k \/ i = k + 1
  BY <1>1
<1>3. Failed(after) <=> Failed(lines) \/ l.result = "not ok"
  BY <1>1, <1>2 DEF Failed
<1> QED
  BY <1>3 DEF after

Later(status, r) == IF r = "not ok" THEN "failure" ELSE status

\* A test more has its line on either stream.
LEMMA ToldMine ==
    ASSUME NEW mine \in Seq(Lines), NEW theirs \in Seq(Lines), NEW tests \in Seq(Words), NEW r \in Words,
           NEW status, NEW output, Told(mine, theirs, status, output, tests)
    PROVE  Told(Append(mine, Line(r, Len(tests) + 1)), theirs, Later(status, r), output, Append(tests, r))
<1> DEFINE n == Len(tests)
           l == Line(r, n + 1)
           longer == Append(mine, l)
           m == Len(mine)
           t == Len(theirs)
<1>1. /\ n \in Nat /\ m \in Nat /\ t \in Nat /\ Len(Append(tests, r)) = n + 1
      /\ DOMAIN mine = 1 .. m /\ DOMAIN theirs = 1 .. t /\ m + t = n
  BY DEF Told
<1>2. l \in Lines /\ l.n = n + 1 /\ l.result = r
  BY <1>1 DEF Line, Lines
<1>3. /\ Len(longer) = m + 1 /\ DOMAIN longer = 1 .. m + 1
      /\ longer[m + 1] = l /\ \A i \in 1 .. m : longer[i] = mine[i]
  BY <1>2
<1>4. Numbered(longer, Append(tests, r)) /\ Numbered(theirs, Append(tests, r))
  BY NumberedGrows DEF Told
<1>5. Failed(longer) <=> Failed(mine) \/ r = "not ok"
  BY <1>2, FailedGrows
<1>6. \A j \in 1 .. t : theirs[j].n \in 1 .. n
  BY <1>1 DEF Told, Numbered
<1> HIDE DEF n, l, longer, m, t
<1>7. \A i \in 1 .. m + 1 : i \in 1 .. m \/ i = m + 1
  BY <1>1
<1>8. \A i \in 1 .. m + 1, j \in 1 .. t : longer[i].n # theirs[j].n
  <2>1. \A i \in 1 .. m, j \in 1 .. t : mine[i].n # theirs[j].n
    BY <1>1 DEF Told
  <2>2. \A j \in 1 .. t : theirs[j].n # n + 1
    BY <1>1, <1>6
  <2> QED
    BY <1>2, <1>3, <1>7, <2>1, <2>2
<1>9. Standard(output) => t = 0 /\ \A i \in 1 .. m + 1 : longer[i].n = i
  <2> SUFFICES ASSUME Standard(output) PROVE t = 0 /\ \A i \in 1 .. m + 1 : longer[i].n = i
    OBVIOUS
  <2>1. t = 0 /\ \A i \in 1 .. m : mine[i].n = i
    BY <1>1 DEF Told, t
  <2>2. m = n
    BY <1>1, <2>1
  <2> QED
    BY <1>2, <1>3, <1>7, <2>1, <2>2
<1>10. Elsewhere(output) => \A j \in 1 .. t : theirs[j].result \in Results
  BY <1>1 DEF Told
<1>11. Status(Later(status, r), Failed(longer) \/ Failed(theirs))
  <2>1. Status(status, Failed(mine) \/ Failed(theirs))
    BY DEF Told
  <2> QED
    BY ONLY <1>5, <2>1 DEF Later, Status
<1>12. m + 1 + t = n + 1
  BY <1>1
<1>13. Told(longer, theirs, Later(status, r), output, Append(tests, r))
  BY <1>1, <1>3, <1>4, <1>8, <1>9, <1>10, <1>11, <1>12 DEF Told, t
<1> QED
  BY <1>13 DEF longer, l, n

LEMMA ToldTheirs ==
    ASSUME NEW mine \in Seq(Lines), NEW theirs \in Seq(Lines), NEW tests \in Seq(Words),
           NEW r \in Results,
           NEW status, NEW output, ~Standard(output), Told(mine, theirs, status, output, tests)
    PROVE  Told(mine, Append(theirs, Line(r, Len(tests) + 1)), Later(status, r), output, Append(tests, r))
<1> DEFINE n == Len(tests)
           l == Line(r, n + 1)
           longer == Append(theirs, l)
           m == Len(mine)
           t == Len(theirs)
<1>0. r \in Words
  BY DEF Words, Results
<1>1. /\ n \in Nat /\ m \in Nat /\ t \in Nat /\ Len(Append(tests, r)) = n + 1
      /\ DOMAIN mine = 1 .. m /\ DOMAIN theirs = 1 .. t /\ m + t = n
  BY <1>0 DEF Told
<1>2. l \in Lines /\ l.n = n + 1 /\ l.result = r
  BY <1>0, <1>1 DEF Line, Lines
<1>3. /\ Len(longer) = t + 1 /\ DOMAIN longer = 1 .. t + 1
      /\ longer[t + 1] = l /\ \A i \in 1 .. t : longer[i] = theirs[i]
  BY <1>2
<1>4. Numbered(longer, Append(tests, r)) /\ Numbered(mine, Append(tests, r))
  BY <1>0, NumberedGrows DEF Told
<1>5. Failed(longer) <=> Failed(theirs) \/ r = "not ok"
  BY <1>2, FailedGrows
<1>6. \A j \in 1 .. m : mine[j].n \in 1 .. n
  BY <1>1 DEF Told, Numbered
<1> HIDE DEF n, l, longer, m, t
<1>7. \A i \in 1 .. t + 1 : i \in 1 .. t \/ i = t + 1
  BY <1>1
<1>8. \A i \in 1 .. m, j \in 1 .. t + 1 : mine[i].n # longer[j].n
  <2>1. \A i \in 1 .. m, j \in 1 .. t : mine[i].n # theirs[j].n
    BY <1>1 DEF Told
  <2>2. \A j \in 1 .. m : mine[j].n # n + 1
    BY <1>1, <1>6
  <2> QED
    BY <1>2, <1>3, <1>7, <2>1, <2>2
<1>9. Elsewhere(output) => \A j \in 1 .. t + 1 : longer[j].result \in Results
  BY <1>1, <1>2, <1>3, <1>7 DEF Told
<1>10. Status(Later(status, r), Failed(mine) \/ Failed(longer))
  <2>1. Status(status, Failed(mine) \/ Failed(theirs))
    BY DEF Told
  <2> QED
    BY ONLY <1>5, <2>1 DEF Later, Status
<1>11. m + (t + 1) = n + 1
  BY <1>1
<1>12. Told(mine, longer, Later(status, r), output, Append(tests, r))
  BY <1>1, <1>3, <1>4, <1>8, <1>9, <1>10, <1>11 DEF Told, m
<1> QED
  BY <1>12 DEF longer, l, n

Logged(r) == objects' = [objects EXCEPT !.size = @ + 1, !.status = Later(@, r)]
Expected == \E r \in Results : Report(objects.output, r) /\ Logged(r)

LEMMA Passed ==
    ASSUME NEW test, test, expect(test)
    PROVE  Expected
<1>1. Report(objects.output, "ok") /\ objects' = [objects EXCEPT !.size = @ + 1, !.status = @]
  BY DEF expect
<1>2. Later(objects.status, "ok") = objects.status /\ "ok" \in Results
  BY DEF Later, Results
<1>3. Logged("ok")
  BY <1>1, <1>2 DEF Logged
<1> QED
  BY <1>1, <1>2, <1>3 DEF Expected

LEMMA NotPassed ==
    ASSUME NEW test, ~test, expect(test)
    PROVE  Expected
<1>1. Report(objects.output, "not ok") /\ objects' = [objects EXCEPT !.size = @ + 1, !.status = "failure"]
  BY DEF expect
<1>2. Later(objects.status, "not ok") = "failure" /\ "not ok" \in Results
  BY DEF Later, Results
<1>3. Logged("not ok")
  BY <1>1, <1>2 DEF Logged
<1> QED
  BY <1>1, <1>2, <1>3 DEF Expected

LEMMA Expectations ==
    ASSUME NEW did, NEW x, NEW y,
           \/ expect_call(did) \/ expect_nothrow(did) \/ expect_throw(did) \/ fail
           \/ expect_eq(x, y) \/ expect_neq(x, y) \/ expect_nan(x)
           \/ expect_lt(x, y) \/ expect_le(x, y) \/ expect_gt(x, y) \/ expect_ge(x, y)
    PROVE  Expected
<1>1. CASE expect_call(did)
  BY <1>1, Passed, NotPassed DEF expect_call
<1>2. CASE expect_nothrow(did)
  BY <1>2, Passed, NotPassed DEF expect_nothrow
<1>3. CASE expect_throw(did)
  BY <1>3, Passed, NotPassed DEF expect_throw
<1>4. CASE fail
  BY <1>4, Passed, NotPassed DEF fail
<1>5. CASE expect_eq(x, y)
  BY <1>5, Passed, NotPassed DEF expect_eq
<1>6. CASE expect_neq(x, y)
  BY <1>6, Passed, NotPassed DEF expect_neq
<1>7. CASE expect_nan(x)
  BY <1>7, Passed, NotPassed DEF expect_nan
<1>8. CASE expect_lt(x, y)
  BY <1>8, Passed, NotPassed DEF expect_lt
<1>9. CASE expect_le(x, y)
  BY <1>9, Passed, NotPassed DEF expect_le
<1>10. CASE expect_gt(x, y)
  BY <1>10, Passed, NotPassed DEF expect_gt, expect_lt
<1>11. CASE expect_ge(x, y)
  BY <1>11, Passed, NotPassed DEF expect_ge, expect_le
<1> QED
  BY <1>1, <1>2, <1>3, <1>4, <1>5, <1>6, <1>7, <1>8, <1>9, <1>10, <1>11

LEMMA ReportStep ==
    ASSUME TestInv, NEW stream, NEW r \in Words, Report(stream, r), Logged(r),
           \/ stream = "cout"
           \/ stream = objects.output /\ r \in Results
    PROVE  TestInv'
<1> DEFINE n == Len(story)
           l == Line(r, n + 1)
           O == [output : {"cout", "other"}, status : {"success", "failure"}, size : Nat, alive : BOOLEAN]
           K == [cout : Seq(Lines), other : Seq(Lines)]
<1>1. /\ objects \in O /\ kernel \in K /\ story \in Seq(Words)
      /\ objects.size = n /\ n \in Nat
  BY DEF TestInv
<1>2. kernel.cout \in Seq(Lines) /\ kernel.other \in Seq(Lines)
  BY <1>1
<1>3. objects.alive
  BY DEF Report
<1>4. Told(kernel.cout, kernel.other, objects.status, objects.output, story)
  BY ONLY TestInv, <1>3 DEF TestInv
<1>5. story' = Append(story, r) /\ story' \in Seq(Words) /\ Len(story') = n + 1
  <2>1. story' = Append(story, r)
    BY DEF Report
  <2> QED
    BY <1>1, <2>1
<1>6. l \in Lines
  BY <1>1 DEF Line, Lines
<1>7. kernel' = [kernel EXCEPT ![stream] = Append(kernel[stream], l)]
  BY ONLY <1>1, Report(stream, r) DEF Report
<1>8. /\ objects' \in O /\ objects'.size = n + 1 /\ objects'.alive
      /\ objects'.output = objects.output /\ objects'.status = Later(objects.status, r)
  <2>1. objects' = [objects EXCEPT !.size = objects.size + 1, !.status = Later(objects.status, r)]
    BY ONLY Logged(r) DEF Logged
  <2>2. objects.size + 1 \in Nat /\ objects.size + 1 = n + 1
    BY <1>1
  <2>3. Later(objects.status, r) \in {"success", "failure"}
    <3>1. objects.status \in {"success", "failure"}
      BY ONLY <1>1 DEF O
    <3> QED
      BY ONLY <3>1 DEF Later
  <2>4. objects' \in O
    BY ONLY <1>1, <2>1, <2>2, <2>3 DEF O
  <2>5. DOMAIN objects = {"output", "status", "size", "alive"}
    BY ONLY <1>1 DEF O
  <2> HIDE DEF O
  <2> QED
    BY ONLY <1>3, <2>1, <2>2, <2>4, <2>5
<1>9. CASE stream = "cout"
  <2>1. kernel' = [kernel EXCEPT !.cout = Append(kernel.cout, l)]
    BY ONLY <1>7, <1>9
  <2>2. Append(kernel.cout, l) \in Seq(Lines)
    BY <1>2, <1>6
  <2> HIDE DEF l
  <2>3. /\ kernel' \in K
        /\ kernel'.cout = Append(kernel.cout, l) /\ kernel'.other = kernel.other
    BY ONLY <1>1, <2>1, <2>2
  <2> USE DEF l
  <2>4. Told(Append(kernel.cout, l), kernel.other, Later(objects.status, r), objects.output, Append(story, r))
    BY ONLY <1>1, <1>2, <1>4, r \in Words, ToldMine DEF l, n
  <2>5. Told(kernel'.cout, kernel'.other, objects'.status, objects'.output, story')
    BY ONLY <1>5, <1>8, <2>3, <2>4
  <2> QED
    BY ONLY <1>5, <1>8, <2>3, <2>5 DEF TestInv, O, K
<1>10. CASE stream # "cout"
  <2>1. stream = "other" /\ objects.output = "other" /\ r \in Results
    <3>1. objects.output \in {"cout", "other"}
      BY ONLY <1>1 DEF O
    <3> QED
      BY <1>10, <3>1
  <2>2. kernel' = [kernel EXCEPT !.other = Append(kernel.other, l)]
    BY ONLY <1>7, <2>1
  <2>3. Append(kernel.other, l) \in Seq(Lines)
    BY <1>2, <1>6
  <2> HIDE DEF l
  <2>4. /\ kernel' \in K
        /\ kernel'.other = Append(kernel.other, l) /\ kernel'.cout = kernel.cout
    BY ONLY <1>1, <2>2, <2>3
  <2> USE DEF l
  <2>5. ~Standard(objects.output)
    BY ONLY <2>1 DEF Standard
  <2>6. Told(kernel.cout, Append(kernel.other, l), Later(objects.status, r), objects.output, Append(story, r))
    BY ONLY <1>1, <1>2, <1>4, <2>1, <2>5, ToldTheirs DEF l, n
  <2>7. Told(kernel'.cout, kernel'.other, objects'.status, objects'.output, story')
    BY ONLY <1>5, <1>8, <2>4, <2>6
  <2> QED
    BY ONLY <1>5, <1>8, <2>4, <2>7 DEF TestInv, O, K
<1> QED
  BY <1>9, <1>10

LEMMA PlanStep ==
    ASSUME TestInv, logger_destroy
    PROVE  TestInv'
<1> DEFINE O == [output : {"cout", "other"}, status : {"success", "failure"}, size : Nat, alive : BOOLEAN]
           K == [cout : Seq(Lines), other : Seq(Lines)]
           plan == Line("plan", Len(story))
           after == Append(kernel.cout, plan)
<1>1. /\ objects \in O /\ kernel \in K /\ story \in Seq(Words) /\ objects.size = Len(story)
      /\ objects.alive /\ Told(kernel.cout, kernel.other, objects.status, objects.output, story)
  BY DEF TestInv, logger_destroy
<1>2. /\ kernel' = [kernel EXCEPT !.cout = after] /\ objects' = [objects EXCEPT !.alive = FALSE]
      /\ story' = story
  BY <1>1 DEF logger_destroy
<1>3. plan \in Lines
  BY <1>1 DEF Line, Lines
<1>4. kernel.cout \in Seq(Lines)
  BY <1>1
<1> HIDE DEF plan
<1>5. /\ after \in Seq(Lines) /\ Len(after) >= 1 /\ after[Len(after)] = plan
      /\ SubSeq(after, 1, Len(after) - 1) = kernel.cout
  <2>1. Len(after) - 1 = Len(kernel.cout)
    BY <1>3, <1>4
  <2> QED
    BY <1>3, <1>4, <2>1
<1> HIDE DEF after
<1>6. /\ kernel' \in K /\ kernel'.cout = after /\ kernel'.other = kernel.other
  BY ONLY <1>1, <1>2, <1>5 DEF K
<1>7. /\ objects' \in O /\ ~objects'.alive /\ objects'.size = objects.size
      /\ objects'.status = objects.status /\ objects'.output = objects.output
  BY ONLY <1>1, <1>2 DEF O
<1> QED
  BY ONLY <1>1, <1>2, <1>5, <1>6, <1>7 DEF TestInv, O, K, plan

LEMMA TestStep ==
    ASSUME TestInv, Tests
    PROVE  TestInv'
<1>1. CASE logger_destroy
  BY <1>1, PlanStep
<1>2. CASE skip \/ noop
  <2>1. Report("cout", "skip") /\ objects' = [objects EXCEPT !.size = @ + 1]
    BY <1>2 DEF skip, noop
  <2>2. Later(objects.status, "skip") = objects.status /\ "skip" \in Words
    BY DEF Later, Words
  <2>3. Logged("skip")
    BY <2>1, <2>2 DEF Logged, TestInv
  <2> QED
    BY <2>1, <2>2, <2>3, ReportStep
<1>3. CASE todo
  <2>1. Report("cout", "todo") /\ objects' = [objects EXCEPT !.size = @ + 1]
    BY <1>3 DEF todo
  <2>2. Later(objects.status, "todo") = objects.status /\ "todo" \in Words
    BY DEF Later, Words
  <2>3. Logged("todo")
    BY <2>1, <2>2 DEF Logged, TestInv
  <2> QED
    BY <2>1, <2>2, <2>3, ReportStep
<1>4. CASE Expected
  <2>1. PICK r \in Results : Report(objects.output, r) /\ Logged(r)
    BY <1>4 DEF Expected
  <2>2. r \in Words
    BY DEF Results, Words
  <2> QED
    BY <2>1, <2>2, ReportStep
<1> QED
  BY <1>1, <1>2, <1>3, <1>4, Expectations DEF Tests

LEMMA TestMeaning == ASSUME TestInv PROVE TestsSound
<1> DEFINE results == IF objects.alive THEN kernel.cout ELSE SubSeq(kernel.cout, 1, Len(kernel.cout) - 1)
<1>1. /\ story \in Seq(Words) /\ objects.size = Len(story) /\ kernel.other \in Seq(Lines)
      /\ objects.alive \in BOOLEAN
  BY DEF TestInv
<1>2. Told(results, kernel.other, objects.status, objects.output, story)
  BY DEF TestInv
<1>3. ~objects.alive => kernel.cout[Len(kernel.cout)] = Line("plan", Len(story))
  BY DEF TestInv
<1>4. results \in Seq(Lines)
  BY DEF TestInv
<1> HIDE DEF results
<1>5. /\ Numbered(results, story) /\ Numbered(kernel.other, story)
      /\ Len(results) + Len(kernel.other) = Len(story)
      /\ \A i \in DOMAIN results, j \in DOMAIN kernel.other : results[i].n # kernel.other[j].n
  BY <1>2 DEF Told
<1>6. objects.status = "failure" <=> Failed(results) \/ Failed(kernel.other)
  BY <1>2 DEF Told, Status
<1>7. objects.output = "cout" => Len(kernel.other) = 0 /\ \A i \in DOMAIN results : results[i].n = i
  BY <1>2 DEF Told, Standard
<1>8. objects.output = "other" => \A j \in DOMAIN kernel.other : kernel.other[j].result \in {"ok", "not ok"}
  BY <1>2 DEF Told, Elsewhere, Results
<1>9. Len(kernel.other) = 0 => Len(story) = Len(results)
  BY <1>1, <1>4, <1>5
<1> QED
  BY ONLY <1>1, <1>3, <1>5, <1>6, <1>7, <1>8, <1>9 DEF TestsSound, results

-----------------------------------------------------------------------------
(* Names.                                                                  *)

NamesInv ==
    /\ IsFiniteSet(DOMAIN objects) /\ \A k \in DOMAIN objects : objects[k] \in Nat
    /\ {objects[k] : k \in DOMAIN objects} = 0 .. Cardinality(DOMAIN objects) - 1
    /\ story = {<<k, objects[k]>> : k \in DOMAIN objects}

LEMMA NamesStart ==
    ASSUME objects = <<>>, story = {}
    PROVE  NamesInv
<1>1. DOMAIN objects = {} /\ Cardinality(DOMAIN objects) = 0 /\ IsFiniteSet(DOMAIN objects)
  BY FS_EmptySet
<1> QED
  BY <1>1 DEF NamesInv

LEMMA NamesStep ==
    ASSUME NamesInv, clear \/ \E key \in Names : add(key)
    PROVE  NamesInv'
<1>1. CASE clear
  <2>1. objects' = <<>> /\ story' = {}
    BY <1>1 DEF clear
  <2>2. DOMAIN objects' = {} /\ Cardinality(DOMAIN objects') = 0 /\ IsFiniteSet(DOMAIN objects')
    BY <2>1, FS_EmptySet
  <2> QED
    BY <2>1, <2>2 DEF NamesInv
<1>2. CASE \E key \in Names : add(key)
  <2>1. PICK key \in Names : add(key)
    BY <1>2
  <2> DEFINE D == DOMAIN objects
             n == Cardinality(DOMAIN objects)
             E == D \union {key}
  <2>2. IsFiniteSet(D) /\ n \in Nat /\ key \notin D
    BY <2>1, FS_CardinalityType DEF NamesInv, add
  <2>3. IsFiniteSet(E) /\ Cardinality(E) = n + 1
    BY <2>2, FS_AddElement
  <2>4. /\ objects' = [k \in E |-> IF k = key THEN n ELSE objects[k]]
        /\ story' = story \union {<<key, n>>}
    BY <2>1 DEF add
  <2>5. /\ \A k \in D : objects[k] \in Nat
        /\ {objects[k] : k \in D} = 0 .. n - 1 /\ story = {<<k, objects[k]>> : k \in D}
    BY DEF NamesInv
  <2> HIDE DEF D, n
  <2>6. /\ DOMAIN objects' = E /\ objects'[key] = n
        /\ \A k \in D : objects'[k] = objects[k]
    BY <2>2, <2>4
  <2>7. {objects'[k] : k \in E} = {objects[k] : k \in D} \union {n}
    BY <2>6
  <2>8. (0 .. n - 1) \union {n} = 0 .. n + 1 - 1
    BY <2>2
  <2>9. story' = {<<k, objects'[k]>> : k \in E}
    BY <2>4, <2>5, <2>6
  <2>10. \A k \in E : objects'[k] \in Nat
    BY <2>2, <2>5, <2>6
  <2> HIDE DEF E
  <2>11. {objects'[k] : k \in E} = 0 .. Cardinality(E) - 1
    BY ONLY <2>3, <2>5, <2>7, <2>8
  <2> QED
    BY ONLY <2>3, <2>6, <2>9, <2>10, <2>11 DEF NamesInv
<1> QED
  BY <1>1, <1>2

LEMMA NamesMeaning == ASSUME NamesInv PROVE NamesSound
<1>1. ASSUME NEW pair \in story
      PROVE  find(pair[1]) = pair[2]
  <2>1. PICK k \in DOMAIN objects : pair = <<k, objects[k]>>
    BY <1>1 DEF NamesInv
  <2> QED
    BY <2>1 DEF find
<1>2. ASSUME NEW k \in Names
      PROVE  find(k) = out_of_range \/ <<k, find(k)>> \in story
  BY DEF find, NamesInv
<1> QED
  BY <1>1, <1>2 DEF NamesSound, NamesInv

-----------------------------------------------------------------------------
(* The log.                                                                *)

At == [doing : {"idle", "sets", "logs"}, stores : SUBSET {"value", "done"}, level : Nat, message : Nat]
Asked == [calls : Int, asked : SUBSET Nat, wanted : Nat, overlap : BOOLEAN,
          printed : SUBSET Nat, logged : SUBSET Nat, stops : SUBSET Nat]

LogType ==
    /\ kernel \in [level : {"unset", "", "WARNING", "noise"}, break : {"unset", "ERROR"}]
    /\ objects \in [value : Nat, done : BOOLEAN, at : [Threads -> At]]
    /\ story \in Asked

\* What is stored, or will be, was asked for.
Accounted ==
    /\ objects.value \in story.asked \union {0}
    /\ objects.done => story.asked # {}
    /\ \A t \in Threads :
        /\ objects.at[t].stores # {} => objects.at[t].level \in story.asked
        /\ objects.at[t].doing = "logs" => story.asked # {}

\* The stores of one thread are those of the level that is wanted.
Alone ==
    ~story.overlap =>
        /\ \A t, u \in Threads : objects.at[t].stores # {} /\ objects.at[u].stores # {} => t = u
        /\ \A t \in Threads : objects.at[t].stores # {} => objects.at[t].level = story.wanted
        /\ (\A t \in Threads : ~Unstored(t)) => objects.value = story.wanted

Filtered ==
    /\ \A m \in story.printed : \E level \in story.asked : m <= level
    /\ 0 \in story.logged => 0 \in story.printed
    /\ story.stops = {m \in story.logged : needs_break(m)}

LogInv == LogType /\ Accounted /\ Alone /\ Filtered

LEMMA LogMeaning == ASSUME LogInv PROVE LogSound
  BY DEF LogInv, Alone, Filtered, LogSound, Overlap, Unstored

LEMMA InitialLevel ==
    ASSUME NEW env \in {"unset", "", "WARNING", "noise"}
    PROVE  initial_log_level(env) \in Nat
<1>1. CASE env = "unset"
  BY <1>1 DEF initial_log_level, DEFAULT_LOG_LEVEL
<1>2. CASE env = ""
  BY <1>2 DEF initial_log_level, to_level, DEFAULT_LOG_LEVEL
<1>3. CASE env = "WARNING"
  BY <1>3 DEF initial_log_level, to_level, LevelOf, DEFAULT_LOG_LEVEL
<1>4. CASE env = "noise"
  BY <1>4 DEF initial_log_level, to_level, LevelOf, DEFAULT_LOG_LEVEL
<1> QED
  BY <1>1, <1>2, <1>3, <1>4

LEMMA IdleAt == Idle \in At /\ Idle.stores = {} /\ Idle.doing = "idle"
  BY DEF Idle, At

\* A thread that was idle is about to store a level.
LEMMA Wanting ==
    ASSUME LogInv, NEW t \in Threads, NEW doing \in {"sets", "logs"}, NEW level \in Nat, NEW message \in Nat,
           objects.at[t] = Idle, kernel' = kernel,
           objects' = [objects EXCEPT !.at[t] =
               [doing |-> doing, stores |-> {"value", "done"}, level |-> level, message |-> message]],
           story' = [story EXCEPT !.calls = @ + 1, !.asked = @ \union {level}, !.wanted = level,
                                  !.overlap = Overlap]
    PROVE  LogInv'
<1> DEFINE mine == [doing |-> doing, stores |-> {"value", "done"}, level |-> level, message |-> message]
<1>1. LogType /\ Accounted /\ Alone /\ Filtered
  BY DEF LogInv
<1>2. /\ mine \in At /\ mine.stores = {"value", "done"} /\ mine.level = level /\ mine.doing = doing
  BY DEF At
<1> HIDE DEF mine
<1>3. /\ objects.at \in [Threads -> At] /\ objects'.value = objects.value /\ objects'.done = objects.done
      /\ objects' \in [value : Nat, done : BOOLEAN, at : [Threads -> At]]
      /\ objects'.at = [objects.at EXCEPT ![t] = mine]
  BY <1>1, <1>2 DEF LogType, mine
<1>4. objects'.at[t] = mine /\ \A u \in Threads \ {t} : objects'.at[u] = objects.at[u]
  BY <1>3
<1>5. /\ story' \in Asked /\ story'.asked = story.asked \union {level} /\ story'.wanted = level
      /\ story'.overlap = Overlap /\ story'.printed = story.printed /\ story'.logged = story.logged
      /\ story'.stops = story.stops
  <2>1. Overlap \in BOOLEAN
    BY DEF Overlap
  <2>2. story \in Asked
    BY <1>1 DEF LogType
  <2>3. story.calls + 1 \in Int /\ story.asked \union {level} \in SUBSET Nat
    BY <2>2 DEF Asked
  <2>4. story' = [story EXCEPT !.calls = story.calls + 1, !.asked = story.asked \union {level},
                               !.wanted = level, !.overlap = Overlap]
    OBVIOUS
  <2>5. story' \in Asked
    BY ONLY <2>1, <2>2, <2>3, <2>4, level \in Nat DEF Asked
  <2> HIDE DEF Overlap
  <2> QED
    BY ONLY <2>2, <2>4, <2>5 DEF Asked
<1>6. LogType'
  BY <1>1, <1>3, <1>5 DEF LogType
<1>7. Accounted'
  BY <1>1, <1>2, <1>3, <1>4, <1>5 DEF Accounted
<1>8. Alone'
  <2> SUFFICES ASSUME ~Overlap PROVE Alone'
    BY <1>5 DEF Alone
  <2>1. \A u \in Threads \ {t} : objects'.at[u].stores = {}
    BY <1>4 DEF Overlap
  <2>2. ~Unstored(t)' = FALSE
    BY <1>2, <1>4 DEF Unstored
  <2> QED
    BY <1>2, <1>4, <1>5, <2>1, <2>2 DEF Alone
<1>9. Filtered'
  BY <1>1, <1>5 DEF Filtered, needs_break
<1> QED
  BY <1>6, <1>7, <1>8, <1>9 DEF LogInv

LEMMA SetStep ==
    ASSUME LogInv, NEW t \in Threads, NEW level \in Levels, set_level(t, level)
    PROVE  LogInv'
<1>1. level \in Nat
  BY DEF Levels
<1> QED
  BY <1>1, Wanting DEF set_level

LEMMA LogStart ==
    ASSUME LogInv, NEW t \in Threads, NEW message \in Levels, log(t, message)
    PROVE  LogInv'
<1> DEFINE first == initial_log_level(kernel.level)
<1>1. message \in Nat
  BY DEF Levels
<1>2. first \in Nat
  BY InitialLevel DEF LogInv, LogType
<1> HIDE DEF first
<1>3. CASE ~objects.done
  BY <1>1, <1>2, <1>3, Wanting DEF log, first
<1>4. CASE objects.done
  <2> DEFINE mine == [Idle EXCEPT !.doing = "logs", !.message = message]
  <2>1. /\ objects' = [objects EXCEPT !.at[t] = mine] /\ kernel' = kernel
        /\ story' = [story EXCEPT !.calls = @ + 1] /\ objects.at[t] = Idle
    BY <1>4 DEF log
  <2>2. LogType /\ Accounted /\ Alone /\ Filtered
    BY DEF LogInv
  <2>3. mine \in At /\ mine.stores = {}
    BY <1>1 DEF Idle, At
  <2> HIDE DEF mine
  <2>4. /\ objects.at \in [Threads -> At] /\ objects'.value = objects.value /\ objects'.done = objects.done
        /\ objects' \in [value : Nat, done : BOOLEAN, at : [Threads -> At]]
        /\ objects'.at = [objects.at EXCEPT ![t] = mine]
    BY <2>1, <2>2, <2>3 DEF LogType
  <2>5. objects'.at[t] = mine /\ \A u \in Threads \ {t} : objects'.at[u] = objects.at[u]
    BY <2>4
  <2>6. /\ story' \in Asked /\ story'.asked = story.asked /\ story'.wanted = story.wanted
        /\ story'.overlap = story.overlap /\ story'.printed = story.printed
        /\ story'.logged = story.logged /\ story'.stops = story.stops
    <3>1. story \in Asked
      BY <2>2 DEF LogType
    <3>2. story.calls + 1 \in Int
      BY <3>1 DEF Asked
    <3> QED
      BY ONLY <2>1, <3>1, <3>2 DEF Asked
  <2>7. LogType'
    BY <2>1, <2>2, <2>4, <2>6 DEF LogType
  <2>8. Accounted'
    BY <1>4, <2>2, <2>3, <2>4, <2>5, <2>6 DEF Accounted
  <2>9. \A u \in Threads : /\ objects'.at[u].stores = objects.at[u].stores
                           /\ objects.at[u].stores # {} => objects'.at[u].level = objects.at[u].level
    BY <2>1, <2>3, <2>5, IdleAt
  <2>10. Alone'
    BY <2>2, <2>4, <2>6, <2>9 DEF Alone, Unstored
  <2>11. Filtered'
    BY <2>1, <2>2, <2>6 DEF Filtered, needs_break
  <2> QED
    BY <2>7, <2>8, <2>10, <2>11 DEF LogInv
<1> QED
  BY <1>3, <1>4

LEMMA StoreStep ==
    ASSUME LogInv, NEW t \in Threads, Store(t)
    PROVE  LogInv'
<1>1. LogType /\ Accounted /\ Alone /\ Filtered /\ kernel' = kernel /\ story' = story
  BY DEF LogInv, Store
<1>2. objects.at \in [Threads -> At] /\ objects.at[t] \in At
  BY <1>1 DEF LogType
<1>3. Filtered'
  BY <1>1 DEF Filtered, needs_break
<1>4. objects.at[t].stores # {} /\ objects.at[t].level \in story.asked /\ objects.at[t].level \in Nat
  BY <1>1, <1>2 DEF Store, Unstored, Accounted, At
<1>5. CASE Unstored(t) /\ objects' = [objects EXCEPT !.value = objects.at[t].level, !.at[t].stores = @ \ {"value"}]
  <2> DEFINE mine == [objects.at[t] EXCEPT !.stores = @ \ {"value"}]
  <2>1. /\ mine \in At /\ mine.stores = objects.at[t].stores \ {"value"}
        /\ mine.level = objects.at[t].level /\ mine.doing = objects.at[t].doing
    BY <1>2 DEF At
  <2>2. /\ objects'.value = objects.at[t].level /\ objects'.done = objects.done
        /\ objects'.at = [objects.at EXCEPT ![t] = mine]
        /\ objects' \in [value : Nat, done : BOOLEAN, at : [Threads -> At]]
    BY <1>1, <1>2, <1>4, <1>5, <2>1 DEF LogType
  <2> HIDE DEF mine
  <2>3. objects'.at[t] = mine /\ \A u \in Threads \ {t} : objects'.at[u] = objects.at[u]
    BY <1>2, <2>2
  <2>4. LogType'
    BY <1>1, <2>2 DEF LogType
  <2>5. Accounted'
    BY <1>1, <1>4, <2>1, <2>2, <2>3 DEF Accounted
  <2>6. Alone'
    BY <1>1, <1>4, <2>1, <2>2, <2>3 DEF Alone, Unstored
  <2> QED
    BY <1>3, <2>4, <2>5, <2>6 DEF LogInv
<1>6. CASE objects' = [objects EXCEPT !.done = TRUE, !.at[t].stores = @ \ {"done"}]
  <2> DEFINE mine == [objects.at[t] EXCEPT !.stores = @ \ {"done"}]
  <2>1. /\ mine \in At /\ mine.stores = objects.at[t].stores \ {"done"}
        /\ mine.level = objects.at[t].level /\ mine.doing = objects.at[t].doing
    BY <1>2 DEF At
  <2>2. /\ objects'.value = objects.value /\ objects'.done
        /\ objects'.at = [objects.at EXCEPT ![t] = mine]
        /\ objects' \in [value : Nat, done : BOOLEAN, at : [Threads -> At]]
    BY <1>1, <1>2, <1>6, <2>1 DEF LogType
  <2> HIDE DEF mine
  <2>3. objects'.at[t] = mine /\ \A u \in Threads \ {t} : objects'.at[u] = objects.at[u]
    BY <1>2, <2>2
  <2>4. LogType'
    BY <1>1, <2>2 DEF LogType
  <2>5. Accounted'
    BY <1>1, <1>4, <2>1, <2>2, <2>3 DEF Accounted
  <2>6. \A u \in Threads : /\ "value" \in objects'.at[u].stores <=> "value" \in objects.at[u].stores
                           /\ objects'.at[u].stores # {} => objects.at[u].stores # {}
                           /\ objects'.at[u].level = objects.at[u].level
    BY <2>1, <2>3
  <2>7. Alone'
    BY <1>1, <2>2, <2>6 DEF Alone, Unstored
  <2> QED
    BY <1>3, <2>4, <2>5, <2>7 DEF LogInv
<1> QED
  BY <1>5, <1>6 DEF Store

LEMMA FinishStep ==
    ASSUME LogInv, NEW t \in Threads, Finish(t)
    PROVE  LogInv'
<1> DEFINE m == objects.at[t].message
<1>1. LogType /\ Accounted /\ Alone /\ Filtered
  BY DEF LogInv
<1>2. kernel' = kernel /\ objects' = [objects EXCEPT !.at[t] = Idle] /\ objects.at[t].stores = {}
  BY DEF Finish
<1>3. objects.at \in [Threads -> At] /\ m \in Nat /\ objects.value \in Nat
  BY <1>1 DEF LogType, At
<1>4. /\ objects'.value = objects.value /\ objects'.done = objects.done
      /\ objects'.at = [objects.at EXCEPT ![t] = Idle]
      /\ objects' \in [value : Nat, done : BOOLEAN, at : [Threads -> At]]
  BY <1>1, <1>2, IdleAt DEF LogType
<1>5. objects'.at[t] = Idle /\ \A u \in Threads \ {t} : objects'.at[u] = objects.at[u]
  BY <1>3, <1>4
<1>6. \A u \in Threads : /\ objects'.at[u].stores = objects.at[u].stores
                         /\ objects.at[u].stores # {} => objects'.at[u].level = objects.at[u].level
                         /\ objects'.at[u].doing = "logs" => objects.at[u].doing = "logs"
  BY <1>2, <1>5, IdleAt
<1> HIDE DEF m
<1>7. CASE story' = story
  <2>1. LogType'
    BY <1>1, <1>2, <1>4, <1>7 DEF LogType
  <2>2. Accounted'
    BY <1>1, <1>4, <1>6, <1>7 DEF Accounted
  <2>3. Alone'
    BY <1>1, <1>4, <1>6, <1>7 DEF Alone, Unstored
  <2>4. Filtered'
    BY <1>1, <1>2, <1>7 DEF Filtered, needs_break
  <2> QED
    BY <2>1, <2>2, <2>3, <2>4 DEF LogInv
<1>8. CASE objects.at[t].doing # "sets"
  <2> DEFINE printed == IF m <= objects.value THEN story.printed \union {m} ELSE story.printed
             logged == story.logged \union {m}
             stops == IF needs_break(m) THEN story.stops \union {m} ELSE story.stops
  <2>1. story' = [story EXCEPT !.printed = printed, !.logged = logged, !.stops = stops]
    BY <1>8 DEF Finish, m
  <2>2. story.asked # {} /\ story.asked \subseteq Nat
    <3>1. objects.at[t].doing = "logs"
      BY <1>3, <1>8 DEF Finish, At
    <3> QED
      BY <1>1, <3>1 DEF Accounted, LogType, Asked
  <2>3. printed \in SUBSET Nat /\ logged \in SUBSET Nat /\ stops \in SUBSET Nat
    BY <1>1, <1>3 DEF LogType, Asked
  <2>4. /\ m \in printed => m <= objects.value \/ m \in story.printed
        /\ \A k \in printed : k \in story.printed \/ k = m
        /\ m = 0 => 0 \in printed /\ story.printed \subseteq printed
        /\ story.printed \subseteq printed
    BY <1>3
  <2>5. stops = {k \in logged : needs_break(k)}
    BY <1>1 DEF Filtered
  <2>6. \A k \in logged : k \in story.logged \/ k = m
    OBVIOUS
  <2> HIDE DEF printed, logged, stops
  <2>7. /\ story' \in Asked /\ story'.asked = story.asked /\ story'.wanted = story.wanted
        /\ story'.overlap = story.overlap /\ story'.printed = printed
        /\ story'.logged = logged /\ story'.stops = stops
    <3>1. story \in Asked
      BY <1>1 DEF LogType
    <3> QED
      BY ONLY <2>1, <2>3, <3>1 DEF Asked
  <2>8. LogType'
    BY <1>1, <1>2, <1>4, <2>7 DEF LogType
  <2>9. Accounted'
    BY <1>1, <1>4, <1>6, <2>7 DEF Accounted
  <2>10. Alone'
    BY <1>1, <1>4, <1>6, <2>7 DEF Alone, Unstored
  <2>11. \A k \in printed : \E level \in story.asked : k <= level
    <3> TAKE k \in printed
    <3>1. CASE k \in story.printed
      BY <1>1, <3>1 DEF Filtered
    <3>2. CASE k = m /\ m <= objects.value
      <4>1. CASE objects.value \in story.asked
        BY <3>2, <4>1
      <4>2. CASE objects.value = 0
        <5>1. PICK level \in story.asked : level \in Nat
          BY <2>2
        <5>2. k <= level
          BY <1>3, <3>2, <4>2, <5>1
        <5> QED
          BY <5>1, <5>2
      <4> QED
        BY <1>1, <4>1, <4>2 DEF Accounted
    <3> QED
      BY <2>4, <3>1, <3>2
  <2>12. 0 \in logged => 0 \in printed
    BY <1>1, <2>4, <2>6 DEF Filtered
  <2>13. \A k : needs_break(k)' <=> needs_break(k)
    BY <1>2 DEF needs_break
  <2>14. Filtered'
    <3>1. story'.stops = {k \in logged : needs_break(k)'}
      BY <2>5, <2>7, <2>13
    <3> QED
      BY <2>7, <2>11, <2>12, <3>1 DEF Filtered
  <2> QED
    BY <2>8, <2>9, <2>10, <2>14 DEF LogInv
<1> QED
  BY <1>7, <1>8 DEF Finish

LEMMA LogStep ==
    ASSUME LogInv, Log
    PROVE  LogInv'
<1>1. PICK t \in Threads :
        \/ Store(t) \/ Finish(t)
        \/ \E level \in Levels : set_level(t, level) \/ log(t, level)
  BY DEF Log
<1> QED
  BY <1>1, StoreStep, FinishStep, SetStep, LogStart

-----------------------------------------------------------------------------
(* All of them.                                                            *)

SystemInv ==
    /\ task = "fds" => FdInv
    /\ task = "maps" => MapInv
    /\ task = "slurp" => SlurpInv
    /\ task = "stream" => StreamInv
    /\ task = "write" => WriteInv
    /\ task = "period" => PeriodInv
    /\ task = "limiter" => LimiterInv
    /\ task = "delta" => DeltaInv
    /\ task = "duration" => DurationInv
    /\ task = "tests" => TestInv
    /\ task = "log" => LogInv
    /\ task = "names" => NamesInv

LEMMA FilesStart ==
    ASSUME SystemInit
    PROVE  /\ task = "slurp" => SlurpInv
           /\ task = "stream" => StreamInv
           /\ task = "write" => WriteInv
<1>1. ASSUME task = "slurp" PROVE SlurpInv
  <2>1. PICK n \in Lengths : /\ kernel = File(n) /\ story = n
                             /\ objects = [remaining |-> n, cursor |-> 0, buffer |-> Zeros(n)]
    BY <1>1 DEF SystemInit
  <2>2. n \in Nat
    BY SystemAssumption
  <2>3. Zeros(n) = [i \in 1 .. n |-> IF i <= 0 THEN i ELSE 0]
    BY <2>2 DEF Zeros
  <2> QED
    BY <2>1, <2>2, <2>3 DEF SlurpInv
<1>2. ASSUME task = "stream" PROVE StreamInv
  <2>1. PICK n \in Lengths, size \in Lengths :
          /\ kernel = File(n) /\ story = size
          /\ objects = [at |-> 0, eof |-> FALSE, cursor |-> -1, buf |-> <<>>]
    BY <1>2 DEF SystemInit
  <2>2. n \in Nat /\ size \in Nat
    BY SystemAssumption
  <2>3. kernel \in Seq(Nat) /\ Len(kernel) = n /\ \A i \in 1 .. n : kernel[i] = i
    BY <2>1, <2>2, FileIs
  <2>4. /\ objects.at = 0 /\ objects.eof = FALSE /\ objects.cursor = -1 /\ objects.buf = <<>>
        /\ objects.buf \in Seq(Nat) /\ Len(objects.buf) = 0
    BY <2>1
  <2> QED
    BY <2>1, <2>2, <2>3, <2>4 DEF StreamInv
<1>3. ASSUME task = "write" PROVE WriteInv
  <2>1. PICK n \in Lengths : kernel = <<>> /\ story = n /\ objects = [remaining |-> n, cursor |-> 0]
    BY <1>3 DEF SystemInit
  <2>2. n \in Nat /\ File(0) = <<>>
    BY SystemAssumption DEF File
  <2> QED
    BY <2>1, <2>2 DEF WriteInv
<1> QED
  BY <1>1, <1>2, <1>3

LEMMA ClocksStart ==
    ASSUME SystemInit
    PROVE  /\ task = "period" => PeriodInv
           /\ task = "limiter" => LimiterInv
           /\ task = "delta" => DeltaInv
           /\ task = "duration" => DurationInv
<1>0. Period \in Nat \ {0}
  BY SystemAssumption
<1>1. ASSUME task = "period" PROVE PeriodInv
  BY <1>0, <1>1 DEF SystemInit, PeriodInv
<1>2. ASSUME task = "limiter" PROVE LimiterInv
  BY <1>0, <1>2 DEF SystemInit, LimiterInv
<1>3. ASSUME task = "delta" PROVE DeltaInv
  BY <1>3 DEF SystemInit, DeltaInv
<1>4. ASSUME task = "duration" PROVE DurationInv
  <2> DEFINE R == [at : Nat, series : Seq(Int), upto : Nat]
  <2>1. /\ kernel = 0 /\ objects = [last |-> Unset, next |-> Period, series |-> <<>>]
        /\ story = [all |-> <<>>, printed |-> <<>>]
    BY <1>4 DEF SystemInit
  <2>2. <<>> \in Seq(Int) /\ <<>> \in Seq(R) /\ Len(<<>>) = 0
    OBVIOUS
  <2>3. Upto(<<>>, 0) = 0 /\ PrintedAt(<<>>, 0) = 0
    BY DEF Upto, PrintedAt
  <2>4. Milliseconds(<<>>, 0, 0) = <<>>
    BY DEF Milliseconds
  <2>5. Whole(<<>>, <<>>)
    BY <2>2, <2>3 DEF Whole
  <2>6. /\ objects \in [last : Int, next : Int, series : Seq(Int)]
        /\ story \in [all : Seq(Int), printed : Seq(R)]
        /\ objects.next = Period /\ objects.series = <<>>
        /\ story.all = <<>> /\ story.printed = <<>>
    BY <1>0, <2>1, <2>2 DEF Unset
  <2> QED
    BY <1>0, <2>1, <2>2, <2>3, <2>4, <2>5, <2>6 DEF DurationInv
<1> QED
  BY <1>1, <1>2, <1>3, <1>4

LEMMA TellingStart ==
    ASSUME SystemInit
    PROVE  /\ task = "tests" => TestInv
           /\ task = "log" => LogInv
           /\ task = "names" => NamesInv
<1>1. ASSUME task = "tests" PROVE TestInv
  <2>1. /\ kernel = [cout |-> <<>>, other |-> <<>>] /\ story = <<>>
        /\ \E output \in {"cout", "other"} : objects = logger(output)
    BY <1>1 DEF SystemInit
  <2>2. <<>> \in Seq(Lines) /\ <<>> \in Seq(Words) /\ Len(<<>>) = 0 /\ DOMAIN <<>> = {}
    OBVIOUS
  <2>3. /\ objects.alive = TRUE /\ objects.status = "success" /\ objects.size = 0
        /\ objects \in [output : {"cout", "other"}, status : {"success", "failure"}, size : Nat, alive : BOOLEAN]
    BY <2>1 DEF logger
  <2>4. ~Failed(<<>>) /\ Numbered(<<>>, <<>>)
    BY <2>2 DEF Failed, Numbered
  <2>5. Status("success", Failed(<<>>) \/ Failed(<<>>))
    BY <2>4 DEF Status
  <2>6. Told(<<>>, <<>>, "success", objects.output, <<>>)
    BY <2>2, <2>4, <2>5 DEF Told
  <2> QED
    BY <2>1, <2>2, <2>3, <2>6 DEF TestInv
<1>2. ASSUME task = "log" PROVE LogInv
  <2>1. /\ kernel \in [level : {"unset", "", "WARNING", "noise"}, break : {"unset", "ERROR"}]
        /\ objects = [value |-> 0, done |-> FALSE, at |-> [t \in Threads |-> Idle]]
        /\ story = [calls |-> 0, asked |-> {}, wanted |-> 0, overlap |-> FALSE,
                    printed |-> {}, logged |-> {}, stops |-> {}]
    <3>1. PICK level \in {"unset", "", "WARNING", "noise"}, break \in {"unset", "ERROR"} :
            /\ kernel = [level |-> level, break |-> break]
            /\ objects = [value |-> 0, done |-> FALSE, at |-> [t \in Threads |-> Idle]]
            /\ story = [calls |-> 0, asked |-> {}, wanted |-> 0, overlap |-> FALSE,
                        printed |-> {}, logged |-> {}, stops |-> {}]
      BY <1>2 DEF SystemInit
    <3>2. kernel \in [level : {"unset", "", "WARNING", "noise"}, break : {"unset", "ERROR"}]
      BY ONLY <3>1
    <3> QED
      BY ONLY <3>1, <3>2
  <2>2. objects.at \in [Threads -> At] /\ \A t \in Threads : objects.at[t] = Idle
    BY <2>1, IdleAt
  <2>3. LogType
    <3>1. objects \in [value : Nat, done : BOOLEAN, at : [Threads -> At]]
      <4>1. [t \in Threads |-> Idle] \in [Threads -> At]
        BY IdleAt
      <4> QED
        BY ONLY <2>1, <4>1
    <3>2. story \in Asked
      <4> DEFINE none == {}
                 S == SUBSET Nat
      <4>1. none \in S /\ 0 \in Int /\ 0 \in Nat
        OBVIOUS
      <4>2. story = [calls |-> 0, asked |-> none, wanted |-> 0, overlap |-> FALSE,
                     printed |-> none, logged |-> none, stops |-> none]
        BY <2>1
      <4>3. Asked = [calls : Int, asked : S, wanted : Nat, overlap : BOOLEAN,
                     printed : S, logged : S, stops : S]
        BY DEF Asked
      <4> HIDE DEF none, S
      <4> QED
        BY ONLY <4>1, <4>2, <4>3
    <3> QED
      BY ONLY <2>1, <3>1, <3>2 DEF LogType
  <2>4. Accounted
    BY <2>1, <2>2, IdleAt DEF Accounted
  <2>5. Alone
    BY <2>1, <2>2, IdleAt DEF Alone
  <2>6. Filtered
    BY <2>1 DEF Filtered
  <2> QED
    BY <2>3, <2>4, <2>5, <2>6 DEF LogInv
<1>3. ASSUME task = "names" PROVE NamesInv
  BY <1>3, NamesStart DEF SystemInit
<1> QED
  BY <1>1, <1>2, <1>3

LEMMA HoldingStart ==
    ASSUME SystemInit
    PROVE  (task = "fds" => FdInv) /\ (task = "maps" => MapInv)
<1>1. ASSUME task = "fds" PROVE FdInv
  BY <1>1 DEF SystemInit, FdInv, Held, Range0
<1>2. ASSUME task = "maps" PROVE MapInv
  <2>1. objects = Maps /\ kernel = {}
    BY <1>2 DEF SystemInit
  <2>2. \A o \in Objects : objects[o] = [addr |-> FAILED, size |-> 0]
    BY <2>1 DEF Maps
  <2>3. [addr |-> FAILED, size |-> 0] \in MapRecords
    BY DEF MapRecords, FAILED
  <2>4. \A o \in Objects : PagesOf(o) = {}
    BY <2>2 DEF PagesOf, MapPages
  <2>5. objects \in [Objects -> MapRecords]
    BY <2>1, <2>3 DEF Maps
  <2> QED
    BY <2>1, <2>4, <2>5 DEF MapInv
<1> QED
  BY <1>1, <1>2

LEMMA SystemStart ==
    ASSUME SystemInit
    PROVE  SystemInv
BY HoldingStart, FilesStart, ClocksStart, TellingStart DEF SystemInv

LEMMA SystemStays ==
    ASSUME SystemInv, UNCHANGED systemVars
    PROVE  SystemInv'
<1>1. FdInv => FdInv'
  BY DEF systemVars, FdInv, Held
<1>2. MapInv => MapInv'
  BY DEF systemVars, MapInv, PagesOf, MapPages
<1>3. SlurpInv => SlurpInv'
  BY DEF systemVars, SlurpInv
<1>4. StreamInv => StreamInv'
  BY DEF systemVars, StreamInv
<1>5. WriteInv => WriteInv'
  BY DEF systemVars, WriteInv
<1>6. PeriodInv => PeriodInv'
  BY DEF systemVars, PeriodInv
<1>7. LimiterInv => LimiterInv'
  BY DEF systemVars, LimiterInv
<1>8. DeltaInv => DeltaInv'
  BY DEF systemVars, DeltaInv
<1>9. DurationInv => DurationInv'
  BY DEF systemVars, DurationInv
<1>10. TestInv => TestInv'
  BY DEF systemVars, TestInv
<1>11. LogInv => LogInv'
  BY DEF systemVars, LogInv, LogType, Accounted, Alone, Unstored, Filtered, needs_break
<1>12. NamesInv => NamesInv'
  BY DEF systemVars, NamesInv
<1>13. task' = task
  BY DEF systemVars
<1> QED
  BY <1>1, <1>2, <1>3, <1>4, <1>5, <1>6, <1>7, <1>8, <1>9, <1>10, <1>11, <1>12, <1>13 DEF SystemInv

LEMMA SystemStep ==
    ASSUME SystemInv, SystemNext
    PROVE  SystemInv'
<1>0. task' = task
  BY DEF SystemNext
<1>1. CASE Descriptor
  <2>1. task = "fds" /\ FdInv'
    BY <1>1, DescriptorStep DEF Descriptor, SystemInv
  <2> QED
    BY <1>0, <2>1 DEF SystemInv
<1>2. CASE Map
  <2>1. task = "maps" /\ MapInv'
    BY <1>2, MapStep DEF Map, SystemInv
  <2> QED
    BY <1>0, <2>1 DEF SystemInv
<1>3. CASE Files
  <2>1. CASE task = "slurp"
    <3>1. SlurpInv'
      BY <1>3, <2>1, SlurpStep DEF Files, SystemInv
    <3> QED
      BY <1>0, <2>1, <3>1 DEF SystemInv
  <2>2. CASE task = "stream"
    <3>1. StreamInv'
      BY <1>3, <2>2, KnownStep, ChunkStep DEF Files, SystemInv
    <3> QED
      BY <1>0, <2>2, <3>1 DEF SystemInv
  <2>3. CASE task = "write"
    <3>1. WriteInv'
      BY <1>3, <2>3, WriteStep DEF Files, SystemInv
    <3> QED
      BY <1>0, <2>3, <3>1 DEF SystemInv
  <2> QED
    BY <1>3, <2>1, <2>2, <2>3 DEF Files
<1>4. CASE Clock
  <2>1. CASE task = "period"
    <3>1. PeriodInv'
      BY <1>4, <2>1, PeriodStep DEF Clock, SystemInv
    <3> QED
      BY <1>0, <2>1, <3>1 DEF SystemInv
  <2>2. CASE task = "limiter"
    <3>1. LimiterInv'
      BY <1>4, <2>2, LimiterStep DEF Clock, SystemInv
    <3> QED
      BY <1>0, <2>2, <3>1 DEF SystemInv
  <2>3. CASE task = "delta"
    <3>1. DeltaInv'
      BY <1>4, <2>3, DeltaStep DEF Clock, SystemInv
    <3> QED
      BY <1>0, <2>3, <3>1 DEF SystemInv
  <2>4. CASE task = "duration"
    <3>1. DurationInv'
      BY <1>4, <2>4, DurationStep DEF Clock, SystemInv
    <3> QED
      BY <1>0, <2>4, <3>1 DEF SystemInv
  <2> QED
    BY <1>4, <2>1, <2>2, <2>3, <2>4 DEF Clock
<1>5. CASE Tests
  <2>1. task = "tests" /\ TestInv'
    BY <1>5, TestStep DEF Tests, SystemInv
  <2> QED
    BY <1>0, <2>1 DEF SystemInv
<1>6. CASE Log
  <2>1. task = "log" /\ LogInv'
    BY <1>6, LogStep DEF Log, SystemInv
  <2> QED
    BY <1>0, <2>1 DEF SystemInv
<1>7. CASE Naming
  <2>1. task = "names" /\ NamesInv'
    BY <1>7, NamesStep DEF Naming, SystemInv
  <2> QED
    BY <1>0, <2>1 DEF SystemInv
<1> QED
  BY <1>1, <1>2, <1>3, <1>4, <1>5, <1>6, <1>7 DEF SystemNext

LEMMA SystemMeans ==
    ASSUME SystemInv
    PROVE  SystemSound
<1>1. DescriptorsSound
  BY DescriptorMeaning DEF SystemInv, DescriptorsSound
<1>2. MapsSound
  BY MapMeaning DEF SystemInv, MapsSound
<1>3. FilesWhole
  <2>1. task = "slurp" => objects.buffer = SubSeq(kernel, 1, objects.cursor) \o Zeros(objects.remaining)
    BY SlurpMeaning DEF SystemInv
  <2>2. task = "write" => kernel = File(objects.cursor) /\ objects.cursor + objects.remaining = story
    BY DEF SystemInv, WriteInv
  <2>3. task = "stream" /\ objects.eof =>
          /\ Len(objects.buf) = Len(kernel)
          /\ Len(kernel) - objects.cursor <= CHUNK_SIZE => objects.buf = kernel
    BY StreamMeaning DEF SystemInv
  <2> QED
    BY ONLY <2>1, <2>2, <2>3 DEF FilesWhole
<1>4. ClocksSound
  <2>1. task = "period" => \A k \in DOMAIN story : story[k][2] <=> story[k][1] >= Period
    BY DEF SystemInv, PeriodInv
  <2>2. task = "limiter" => \A k \in 3 .. Len(story) : story[k] - story[k - 2] >= Period
    BY DEF SystemInv, LimiterInv
  <2>3. task = "delta" => story = objects.curr /\ objects.curr <= kernel
    BY DEF SystemInv, DeltaInv
  <2>4. ASSUME task = "duration"
        PROVE  LET all == story.all
                   printed == story.printed
               IN  /\ objects.series = Milliseconds(all, Upto(printed, Len(printed)), Len(all))
                   /\ \A k \in DOMAIN printed :
                       /\ printed[k].series = Milliseconds(all, Upto(printed, k - 1), Upto(printed, k))
                       /\ PrintedAt(printed, k) - PrintedAt(printed, k - 1) > Period
    <3>1. DurationInv
      BY <2>4 DEF SystemInv
    <3> QED
      BY <3>1 DEF DurationInv, Whole
  <2> QED
    BY ONLY <2>1, <2>2, <2>3, <2>4 DEF ClocksSound
<1>5. TestsSound
  BY TestMeaning DEF SystemInv, TestsSound
<1>6. LogSound
  BY LogMeaning DEF SystemInv, LogSound
<1>7. NamesSound
  BY NamesMeaning DEF SystemInv, NamesSound
<1> QED
  BY ONLY <1>1, <1>2, <1>3, <1>4, <1>5, <1>6, <1>7 DEF SystemSound

(***************************************************************************)
(* Descriptors and maps belong to one object each, what is read and        *)
(* written is whole, the clocks measure what passed, and tests, log and    *)
(* names tell what was (src/posix/fd.cpp, src/posix/map.cpp, src/io.cpp,   *)
(* src/time.cpp, src/tap.cpp, src/log.cpp, src/stringid.cpp), whatever     *)
(* descriptors, pages, lengths, threads and names there are.               *)
(***************************************************************************)
THEOREM SystemIsSound == SystemSpec => []SystemSound
<1>1. SystemInit => SystemInv
  BY SystemStart
<1>2. SystemInv /\ [SystemNext]_systemVars => SystemInv'
  BY SystemStep, SystemStays
<1>3. SystemInv => SystemSound
  BY SystemMeans
<1> QED
  BY <1>1, <1>2, <1>3, PTL DEF SystemSpec
=============================================================================
