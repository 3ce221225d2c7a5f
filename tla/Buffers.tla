------------------------------ MODULE Buffers -------------------------------
(***************************************************************************)
(* util::memory::buffer::paged (src/memory/buffer/paged.cpp): a buffer     *)
(* whose whole range of addresses is reserved at once, of which only the   *)
(* pages in front of a cursor can be touched.  access () moves the cursor  *)
(* past an address and a window beyond it, or back when it is a window or  *)
(* more ahead.                                                             *)
(*                                                                         *)
(* Addresses count from m_begin, which mmap aligns to a page.              *)
(***************************************************************************)
EXTENDS Naturals, Pointer

CONSTANTS
    Page,       \* pagesize ()
    Reserved,   \* the first argument of the constructor
    Window,     \* the second
    Asked,      \* addresses the program passes to access ()
    Nowhere     \* in the place of an address when access () threw

ASSUME PagedAssumption ==
    /\ Page \in Nat \ {0} /\ Reserved \in Nat \ {0} /\ Window \in Nat \ {0}
    /\ Asked \subseteq Nat
    /\ Nowhere \notin Nat

Win == AlignUp(Window, Page)    \* m_window
End == AlignUp(Reserved, Page)     \* m_end

PageStarts == {p \in 0..(End - 1) : p % Page = 0}    \* pages, named by their start

VARIABLES
    phase,      \* "new", "reserved", "ready"; "failed" or "gone" at the end
    cursor,     \* m_cursor
    prot,       \* the protection of each page; "free" is unmapped
    written,    \* history: the pages that hold what the program wrote
    last        \* history: the last address access () returned for, or Nowhere
                \* if it threw

vars == <<phase, cursor, prot, written, last>>

Init ==
    /\ phase = "new" /\ cursor = 0
    /\ prot = [p \in PageStarts |-> "free"]
    /\ written = {}
    /\ last = Nowhere

\* mmap with MAP_FIXED from lo to hi: EINVAL for an address inside a page or
\* an empty range; else the pages are replaced by new ones, or memory is out.
Mappable(lo, hi) == lo % Page = 0 /\ lo < hi

Remapped(lo, hi, how) ==
    /\ prot' = [p \in PageStarts |-> IF lo <= p /\ p < hi THEN how ELSE prot[p]]
    /\ written' = {p \in written : ~(lo <= p /\ p < hi)}

-----------------------------------------------------------------------------
(* Construction and destruction.                                           *)

Reserve ==
    /\ phase = "new"
    /\ \/ phase' = "reserved" /\ Remapped(0, End, "none")
       \/ phase' = "failed" /\ UNCHANGED <<prot, written>>
    /\ UNCHANGED <<cursor, last>>

\* The initial window.  If it cannot be mapped the constructor throws and
\* nobody gives the reservation back.
MapWindow ==
    /\ phase = "reserved"
    /\ cursor' = AlignUp(IF Win < Reserved THEN Win ELSE Reserved, Page)
    /\ \/ /\ Mappable(0, cursor')
          /\ phase' = "ready" /\ Remapped(0, cursor', "rw")
       \/ phase' = "failed" /\ UNCHANGED <<prot, written>>
    /\ UNCHANGED last

Destroy ==
    /\ phase = "ready"
    /\ phase' = "gone" /\ Remapped(0, End, "free")
    /\ last' = Nowhere
    /\ UNCHANGED cursor

-----------------------------------------------------------------------------
(* access ().                                                              *)

Returns(c) == last' = c
AccessThrows == last' = Nowhere /\ UNCHANGED <<cursor, prot, written>>

\* access (c) for c at the cursor or behind it.
Commit(c) ==
    /\ phase = "ready" /\ cursor <= c
    /\ LET upto == AlignUp(c, Page) + Win
           to == IF upto < End THEN upto ELSE End
       IN  \/ c = cursor /\ Returns(c) /\ UNCHANGED <<cursor, prot, written>>
           \/ /\ cursor < c /\ c <= End /\ Mappable(cursor, to)
              /\ Remapped(cursor, to, "rw")
              /\ cursor' = to /\ Returns(c)
           \/ cursor < c /\ AccessThrows      \* out of range, or mmap failed
    /\ UNCHANGED phase

Release_KeepsCursor(c) ==
    /\ phase = "ready" /\ c < cursor
    /\ \/ /\ cursor - c < Win /\ Returns(c)
          /\ UNCHANGED <<cursor, prot, written>>
       \/ /\ cursor - c >= Win /\ Mappable(c + Win, End)
          /\ Remapped(c + Win, End, "none")
          /\ Returns(c) /\ UNCHANGED cursor
       \/ cursor - c >= Win /\ AccessThrows
    /\ UNCHANGED phase

Release_NoWindow(c) ==
    /\ phase = "ready" /\ c < cursor
    /\ \/ /\ cursor - c < Win /\ Returns(c)
          /\ UNCHANGED <<cursor, prot, written>>
       \/ /\ cursor - c >= Win /\ Mappable(c, End)
          /\ Remapped(c, End, "none")
          /\ cursor' = c /\ Returns(c)
       \/ cursor - c >= Win /\ AccessThrows
    /\ UNCHANGED phase

\* access (c) for c in front of the cursor.  The result of align () is not
\* used (paged.cpp:126), so c goes to mmap as it is.
Release(c) ==
    /\ phase = "ready" /\ c < cursor
    /\ \/ /\ cursor - c < Win /\ Returns(c)
          /\ UNCHANGED <<cursor, prot, written>>
       \/ /\ cursor - c >= Win /\ Mappable(c + Win, End)
          /\ Remapped(c + Win, End, "none")
          /\ cursor' = c + Win /\ Returns(c)
       \/ cursor - c >= Win /\ AccessThrows   \* mmap failed
    /\ UNCHANGED phase

\* The program writes to a page it may touch.
Write(p) ==
    /\ phase = "ready" /\ prot[p] = "rw"
    /\ written' = written \cup {p}
    /\ UNCHANGED <<phase, cursor, prot, last>>

Ended == phase \in {"failed", "gone"} /\ UNCHANGED vars

Next ==
    \/ Reserve \/ MapWindow \/ Destroy
    \/ \E c \in Asked : Commit(c) \/ Release(c)
    \/ \E p \in PageStarts : Write(p)
    \/ Ended

Spec == Init /\ [][Next]_vars

-----------------------------------------------------------------------------
(* Properties.                                                             *)

\* Type invariant.
TypeOK ==
    /\ phase \in {"new", "reserved", "ready", "failed", "gone"}
    /\ cursor \in 0..End
    /\ prot \in [PageStarts -> {"free", "none", "rw"}]
    /\ written \subseteq PageStarts
    /\ last \in Asked \cup {Nowhere}

\* Through every mix of growth, release and failed calls the cursor sits on a
\* page boundary and the pages that can be touched are exactly those in front
\* of it, with all that was written among them; after the destructor no page
\* is left (paged.cpp:31-60, 108-115, 133-142).
PagesMatchCursor ==
    /\ phase = "ready" =>
          /\ cursor % Page = 0
          /\ \A p \in PageStarts : prot[p] = IF p < cursor THEN "rw" ELSE "none"
          /\ \A p \in written : p < cursor
    /\ phase = "gone" => \A p \in PageStarts : prot[p] = "free"

\* After access (c) the cursor is not behind c, and no more than a window and
\* a page ahead of it: memory is given back when the program moves back.
AccessBounds ==
    phase = "ready" /\ last # Nowhere => last <= cursor /\ cursor <= last + Win + Page

\* What the program wrote survives every access at or behind the page, every
\* access no more than a window in front of it, and every access that throws
\* (test/memory/buffer/paged.cpp:83-97: "first remains valid").
DataKept ==
    [][phase' = "ready" =>
        \A p \in written : last' = Nowhere \/ p < last' + Win => p \in written']_vars

\* paged.cpp:96 of the early return for a cursor up to m_cursor: "bail if it's
\* already mapped": after access (c) returned, the page of c can be touched.
AccessMaps ==
    phase = "ready" /\ last # Nowhere /\ last < End =>
        prot[last - (last % Page)] = "rw"

-----------------------------------------------------------------------------
(***************************************************************************)
(* util::memory::buffer::circular (src/memory/buffer/circular.cpp): a      *)
(* buffer mapped twice in a row, so that running off its end comes in at   *)
(* its front.  The two maps share an object that has to be created under a *)
(* random name in a name space all processes share, and that is unlinked   *)
(* when the constructor ends.                                              *)
(*                                                                         *)
(* Each process constructs one buffer; the object it creates is called     *)
(* after it.  Every system call may fail, and a process may die at any     *)
(* point of its constructor.                                               *)
(***************************************************************************)

CONSTANTS
    Procs,
    Leaves,     \* what tmpname () can come up with
    Retries,    \* attempts at a name
    HalfSize,   \* size (), in bytes
    Nobody

\* A process is neither Nobody nor what an address range can hold instead.
ASSUME CircularAssumption ==
    /\ Retries \in Nat /\ HalfSize \in Nat \ {0}
    /\ Procs \cap {Nobody, "free", "reserved"} = {}

VARIABLES
    pc,         \* the next step of each process
    tries,      \* attempts so far
    name,       \* the name each process created
    fd,         \* the object behind fd
    shm,        \* the object each name is linked to
    half,       \* what is mapped in the two halves of the address range
    failed      \* the halves whose mmap returned MAP_FAILED

ringVars == <<pc, tries, name, fd, shm, half, failed>>

Busy == {"open", "size", "reserve", "first", "second", "check"}

RingInit ==
    /\ pc = [p \in Procs |-> "open"]
    /\ tries = [p \in Procs |-> 0]
    /\ name = [p \in Procs |-> Nobody]
    /\ fd = [p \in Procs |-> Nobody]
    /\ shm = [n \in Leaves |-> Nobody]
    /\ half = [p \in Procs |-> <<"free", "free">>]
    /\ failed = [p \in Procs |-> {}]

Goto(p, l) == pc' = [pc EXCEPT ![p] = l]
Unlinked(p) == shm' = [shm EXCEPT ![name[p]] = Nobody]

-----------------------------------------------------------------------------
(* The constructor.                                                        *)

\* shm_open with O_CREAT and O_EXCL: only under a name nobody has linked.
Open(p, n) ==
    /\ pc[p] = "open" /\ tries[p] < Retries
    /\ shm[n] = Nobody
    /\ fd' = [fd EXCEPT ![p] = p]
    /\ shm' = [shm EXCEPT ![n] = p]
    /\ name' = [name EXCEPT ![p] = n]
    /\ Goto(p, "size")
    /\ UNCHANGED <<tries, half, failed>>

\* The name exists, or the call failed for another reason: another attempt,
\* and an exception when there were too many.
OpenFails(p) ==
    /\ pc[p] = "open"
    /\ IF tries[p] < Retries
       THEN tries' = [tries EXCEPT ![p] = @ + 1] /\ UNCHANGED pc
       ELSE Goto(p, "failed") /\ UNCHANGED tries
    /\ UNCHANGED <<name, fd, shm, half, failed>>

\* ftruncate, then the reservation of both halves.
Resize(p) ==
    /\ pc[p] = "size"
    /\ Goto(p, "reserve")
    /\ UNCHANGED <<tries, name, fd, shm, half, failed>>

ReserveHalves(p) ==
    /\ pc[p] = "reserve"
    /\ half' = [half EXCEPT ![p] = <<"reserved", "reserved">>]
    /\ Goto(p, "first")
    /\ UNCHANGED <<tries, name, fd, shm, failed>>

\* One of the two failed: the exception unlinks the name.
CallFails(p) ==
    /\ pc[p] \in {"size", "reserve"}
    /\ Unlinked(p)
    /\ Goto(p, "failed")
    /\ UNCHANGED <<tries, name, fd, half, failed>>

\* mmap of the object over the first half; the result is looked at later.
MapFirst(p) ==
    /\ pc[p] = "first"
    /\ \/ half' = [half EXCEPT ![p][1] = fd[p]] /\ UNCHANGED failed
       \/ failed' = [failed EXCEPT ![p] = @ \cup {1}] /\ UNCHANGED half
    /\ Goto(p, "second")
    /\ UNCHANGED <<tries, name, fd, shm>>

\* The second half; its address is MAP_FAILED + bytes if the first failed,
\* which is no page address.
MapSecond(p) ==
    /\ pc[p] = "second"
    /\ \/ /\ 1 \notin failed[p]
          /\ half' = [half EXCEPT ![p][2] = fd[p]] /\ UNCHANGED failed
       \/ failed' = [failed EXCEPT ![p] = @ \cup {2}] /\ UNCHANGED half
    /\ Goto(p, "check")
    /\ UNCHANGED <<tries, name, fd, shm>>

Check_FirstOnly(p) ==
    /\ pc[p] = "check"
    /\ IF 1 \notin failed[p]
       THEN Goto(p, "ready") /\ UNCHANGED half
       ELSE Goto(p, "failed") /\ UNCHANGED half
    /\ Unlinked(p)
    /\ UNCHANGED <<tries, name, fd, failed>>

\* Success disarms the unmapper; otherwise it unmaps bytes from m_begin, which
\* is one half, or nothing when m_begin is MAP_FAILED.  The name goes either
\* way.
Check(p) ==
    /\ pc[p] = "check"
    /\ IF failed[p] = {}
       THEN Goto(p, "ready") /\ UNCHANGED half
       ELSE /\ Goto(p, "failed")
            /\ half' = IF 1 \in failed[p] THEN half
                       ELSE [half EXCEPT ![p][1] = "free"]
    /\ Unlinked(p)
    /\ UNCHANGED <<tries, name, fd, failed>>

-----------------------------------------------------------------------------
\* The destructor unmaps both halves.  fd is never closed.
Unmap(p) ==
    /\ pc[p] = "ready"
    /\ half' = [half EXCEPT ![p] = <<"free", "free">>]
    /\ Goto(p, "gone")
    /\ UNCHANGED <<tries, name, fd, shm, failed>>

\* A process dies in its constructor: the system takes its maps and its
\* descriptors back, the name stays.
Crash(p) ==
    /\ pc[p] \in Busy
    /\ half' = [half EXCEPT ![p] = <<"free", "free">>]
    /\ fd' = [fd EXCEPT ![p] = Nobody]
    /\ Goto(p, "crashed")
    /\ UNCHANGED <<tries, name, shm, failed>>

RingEnded ==
    /\ \A p \in Procs : pc[p] \in {"failed", "gone", "crashed"}
    /\ UNCHANGED ringVars

RingNext ==
    \/ \E p \in Procs :
          \/ \E n \in Leaves : Open(p, n)
          \/ OpenFails(p) \/ Resize(p) \/ ReserveHalves(p) \/ CallFails(p)
          \/ MapFirst(p) \/ MapSecond(p) \/ Check(p)
          \/ Unmap(p) \/ Crash(p)
    \/ RingEnded

RingSpec == RingInit /\ [][RingNext]_ringVars

-----------------------------------------------------------------------------
(* Properties.                                                             *)

\* Where a byte of the address range is kept, and constrain ().
Byte(p, i) == <<half[p][1 + (i \div HalfSize)], i % HalfSize>>
Constrain(i) == i % HalfSize

\* Two buffers never share memory, whatever names their constructors drew and
\* whoever died with a name linked (circular.cpp:70-80).
Isolated ==
    \A p, q \in Procs : p # q =>
        \A i, j \in {1, 2} : half[p][i] = half[q][j] =>
            half[p][i] \in {"free", "reserved"}

\* In a buffer that was constructed every byte of the second half is the byte
\* constrain () takes it to (circular.cpp:107-111, 157-162; circular.hpp:66:
\* "within the first repetition of the data buffer").
Mirrored ==
    \A p \in Procs : pc[p] = "ready" =>
        \A i \in 0..(2 * HalfSize - 1) :
            Byte(p, i) = Byte(p, Constrain(i)) /\ Byte(p, i)[1] \in Procs

\* While a constructor works its name is linked to its own object, and when it
\* has ended, with a buffer or an exception, nothing is linked to the object
\* any more: "do this whether we succeed or fail" (circular.cpp:82-84).
NamesUnlinked ==
    \A p \in Procs :
        /\ pc[p] \in Busy \ {"open"} => shm[name[p]] = p
        /\ pc[p] \in {"ready", "failed", "gone"} => \A n \in Leaves : shm[n] # p

\* The three together.
RingSafe == Isolated /\ Mirrored /\ NamesUnlinked
=============================================================================
