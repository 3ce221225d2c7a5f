------------------------------- MODULE System -------------------------------
(***************************************************************************)
(* What the library holds of the operating system: file descriptors        *)
(* (src/posix/fd.cpp, src/posix/socket.cpp), maps of memory                *)
(* (src/posix/map.cpp), files read and written (src/io.cpp) and clocks     *)
(* (src/time.cpp); and what it tells of a program: the results of its      *)
(* tests (src/tap.cpp), its log (src/log.cpp) and the numbers of its names *)
(* (src/stringid.cpp).                                                     *)
(*                                                                         *)
(* task says what is looked at, objects is the state of the library's      *)
(* objects, kernel that of the system behind them, and story what a        *)
(* property has to remember.                                               *)
(***************************************************************************)
EXTENDS Integers, Sequences, FiniteSets, FiniteSetsExt

CONSTANTS Objects,          \* of type fd or map
          Descriptors,      \* there may be, from 0
          Pages, MaxPages,  \* of the address space, and of one map
          Lengths,          \* of the files, their bytes are counted from 1
          CHUNK_SIZE,       \* of the reads from a stream of unknown size
          Period, MaxTime,  \* of the clocks
          MaxTests,         \* a logger is asked for
          Threads, MaxLogs, \* that log, and how often all of them do or set a level
          Names             \* given to a stringid

ASSUME SystemAssumption ==
    /\ Descriptors \in Nat /\ Pages \in Nat /\ MaxPages \in Nat
    /\ Lengths \subseteq Nat /\ CHUNK_SIZE \in Nat \ {0} /\ Period \in Nat \ {0}

VARIABLES task, objects, kernel, story

(***************************************************************************)
(* Descriptors.  The system gives the least that is free.  An object holds *)
(* one, or -1; what was released is held by nobody.                        *)
(***************************************************************************)
Free(open) == (0 .. Descriptors - 1) \ open
Held(o) == objects[o] >= 0
Closed(o) == kernel \ {objects[o]}

open(o) ==
    /\ ~Held(o) /\ Free(kernel) # {}
    /\ objects' = [objects EXCEPT ![o] = Min(Free(kernel))]
    /\ kernel' = kernel \union {Min(Free(kernel))} /\ UNCHANGED story
dup(o, from) == Held(from) /\ open(o)

\* A move is a swap with the -1 of the object that is made or was closed.
move_construct(o, rhs) ==
    /\ ~Held(o) /\ o # rhs
    /\ objects' = [objects EXCEPT ![o] = objects[rhs], ![rhs] = -1]
    /\ UNCHANGED <<kernel, story>>

\* Mutant: what the object held is not closed.
move_assign_Unclosed(o, rhs) ==
    /\ Held(o)
    /\ objects' = [p \in Objects |->
            IF p = o /\ o # rhs THEN objects[rhs] ELSE IF p \in {o, rhs} THEN -1 ELSE objects[p]]
    /\ UNCHANGED <<kernel, story>>

\* Closing -1 throws, and nothing is moved.
move_assign(o, rhs) ==
    /\ Held(o)
    /\ objects' = [p \in Objects |->
            IF p = o /\ o # rhs THEN objects[rhs] ELSE IF p \in {o, rhs} THEN -1 ELSE objects[p]]
    /\ kernel' = Closed(o) /\ UNCHANGED story

\* reset, close and the destructor.
reset(o) ==
    /\ Held(o)
    /\ objects' = [objects EXCEPT ![o] = -1] /\ kernel' = Closed(o) /\ UNCHANGED story
release(o) ==
    /\ Held(o)
    /\ story' = story \union {objects[o]}
    /\ objects' = [objects EXCEPT ![o] = -1] /\ UNCHANGED kernel
\* The assignment of a descriptor that somebody released.
adopt(o, fd) ==
    /\ fd \in story
    /\ kernel' = (IF Held(o) THEN Closed(o) ELSE kernel)
    /\ objects' = [objects EXCEPT ![o] = fd] /\ story' = story \ {fd}

\* A host may have several addresses, of which two are looked at.  A socket
\* that was not to be had is passed over; one that is refused is closed before
\* the next is tried.
connect_host(o, first, second) ==
    LET Try(s, attempt) ==
            IF s.sock # -1 \/ attempt = "no socket" \/ Free(s.open) = {} THEN s
            ELSE LET sock == Min(Free(s.open)) IN
                 IF attempt = "refused" THEN s
                 ELSE [sock |-> sock, open |-> s.open \union {sock}]
        s == Try(Try([sock |-> -1, open |-> kernel], first), second)
    IN  /\ ~Held(o) /\ s.sock # -1    \* or it throws
        /\ objects' = [objects EXCEPT ![o] = s.sock] /\ kernel' = s.open /\ UNCHANGED story

(***************************************************************************)
(* Maps.  An object has the address and size it was made with; resize asks *)
(* the system for another and forgets what it said.                        *)
(***************************************************************************)
FAILED == -1
MapPages(m) == IF m.addr = FAILED THEN {} ELSE m.addr .. m.addr + m.size - 1

map_construct(o, addr, n) ==
    /\ objects[o].addr = FAILED /\ (addr .. addr + n - 1) \subseteq (1 .. Pages) \ kernel
    /\ objects' = [objects EXCEPT ![o] = [addr |-> addr, size |-> n]]
    /\ kernel' = kernel \union (addr .. addr + n - 1) /\ UNCHANGED story
map_move_construct(o, rhs) ==
    /\ objects[o].addr = FAILED /\ o # rhs
    /\ objects' = [objects EXCEPT ![o] = objects[rhs], ![rhs].addr = FAILED]
    /\ UNCHANGED <<kernel, story>>
map_move_assign(o, rhs) ==
    /\ objects' = [objects EXCEPT ![o] = objects[rhs], ![rhs] = objects[o]]
    /\ UNCHANGED <<kernel, story>>
map_destroy(o) ==
    /\ objects[o].addr # FAILED
    /\ kernel' = kernel \ MapPages(objects[o])
    /\ objects' = [objects EXCEPT ![o].addr = FAILED] /\ UNCHANGED story
map_resize(o, n, addr) ==
    /\ objects[o].addr # FAILED /\ MapPages(objects[o]) \subseteq kernel
    /\ LET rest == kernel \ MapPages(objects[o])
       IN  /\ (addr .. addr + n - 1) \subseteq (1 .. Pages) \ rest
           /\ kernel' = rest \union (addr .. addr + n - 1)
    /\ story' = "resized" /\ UNCHANGED objects

(***************************************************************************)
(* Files.  A read or a write may do less than it was asked for.            *)
(***************************************************************************)
File(n) == [i \in 1 .. n |-> i]
Zeros(n) == [i \in 1 .. n |-> 0]
\* n bytes from behind the place in the file, stored behind the cursor.
Stored(buf, cursor, n, at) ==
    [i \in DOMAIN buf |-> IF i \in cursor + 1 .. cursor + n THEN kernel[at + i - cursor] ELSE buf[i]]

\* A read of nothing, from a file that has become shorter, stops a build with
\* checks (CHECK_GT, io.cpp:64); one without goes round the loop as it was.
slurp_read(consumed) ==
    /\ consumed \in 1 .. objects.remaining
    /\ objects' = [remaining |-> objects.remaining - consumed, cursor |-> objects.cursor + consumed,
                   buffer |-> Stored(objects.buffer, objects.cursor, consumed, objects.cursor)]
    /\ UNCHANGED <<kernel, story>>

\* The stream knows where it is and whether it met its end.
fread(s, count) ==
    LET left == Len(kernel) - s.at IN [res |-> IF count < left THEN count ELSE left, eof |-> count > left]

\* The first read takes what the system says there is.
slurp_known ==
    /\ objects.cursor = -1
    /\ LET size == story
           r == IF size = 0 THEN [res |-> 0, eof |-> FALSE] ELSE fread(objects, size)
       IN  objects' = [at |-> r.res, eof |-> r.eof, cursor |-> r.res,
                       buf |-> Stored(Zeros(r.res), 0, r.res, 0)]
    /\ UNCHANGED <<kernel, story>>

\* Every chunk is read to where the first one went.
slurp_chunk ==
    /\ objects.cursor # -1 /\ ~objects.eof
    /\ LET oldsize == Len(objects.buf)
           r == fread(objects, CHUNK_SIZE)
           read == Stored(objects.buf \o Zeros(CHUNK_SIZE), objects.cursor, r.res, objects.at)
       IN  objects' = [objects EXCEPT !.at = objects.at + r.res, !.eof = r.eof,
                                      !.buf = SubSeq(read, 1, oldsize + r.res)]
    /\ UNCHANGED <<kernel, story>>

write(consumed) ==
    /\ consumed \in 1 .. objects.remaining
    /\ kernel' = kernel \o [i \in 1 .. consumed |-> objects.cursor + i]
    /\ objects' = [remaining |-> objects.remaining - consumed, cursor |-> objects.cursor + consumed]
    /\ UNCHANGED story

(***************************************************************************)
(* Clocks.  kernel is the time, story what the clock has answered.         *)
(***************************************************************************)
Tick(n) == kernel + n <= MaxTime /\ kernel' = kernel + n /\ UNCHANGED <<objects, story>>

period_poll ==
    LET diff == kernel - objects
        due == diff >= Period
    IN  /\ objects' = (IF due THEN objects + (diff % Period) ELSE objects)
        /\ story' = << <<kernel, due>> >> /\ UNCHANGED kernel

\* A sleep that is interrupted sleeps again for what is left of it.
sleep(now, ns) == now + ns

\* The time of the call is kept, not that of the return after a sleep.
limiter_poll ==
    LET total == kernel - objects
        return == IF total < Period THEN sleep(kernel, Period - total) ELSE kernel
    IN  /\ return <= MaxTime /\ Len(story) < 4
        /\ objects' = kernel /\ kernel' = return /\ story' = Append(story, return)

\* The whole milliseconds since start are added to a series, that is printed
\* and begun again at the first stop behind the end of an interval.
MILLISECOND == 2    \* in units of time
Unset == -1
duration_start ==
    /\ objects' = [objects EXCEPT !.last = kernel] /\ UNCHANGED <<kernel, story>>
duration_stop ==
    LET dt == kernel - objects.last
        series == Append(objects.series, dt \div MILLISECOND)
    IN  /\ objects.last # Unset /\ Len(story.all) < MaxTests
        /\ IF objects.next < kernel
           THEN /\ objects' = [objects EXCEPT !.series = <<>>, !.next = kernel + Period]
                /\ story' = [all |-> Append(story.all, dt),
                             printed |-> Append(story.printed, [at |-> kernel, series |-> series,
                                                                upto |-> Len(story.all) + 1])]
           ELSE /\ objects' = [objects EXCEPT !.series = series]
                /\ story' = [story EXCEPT !.all = Append(@, dt)]
        /\ UNCHANGED kernel

delta_seconds ==
    /\ objects' = [prev |-> objects.curr, curr |-> kernel]
    /\ story' = story + (kernel - objects.curr) /\ UNCHANGED kernel

(***************************************************************************)
(* Results of tests.  kernel is the text on the standard output and on     *)
(* another stream; a logger writes to either.  A line is the number and    *)
(* the result of a test, the plan that of all tests; story is what the     *)
(* tests were.                                                             *)
(***************************************************************************)
Line(result, n) == [result |-> result, n |-> n]
logger(output) == [output |-> output, status |-> "success", size |-> 0, alive |-> TRUE]

Report(stream, result) ==
    /\ objects.alive /\ objects.size < MaxTests
    /\ kernel' = [kernel EXCEPT ![stream] = Append(@, Line(result, objects.size + 1))]
    /\ story' = Append(story, result)
expect(test) ==
    /\ Report(objects.output, IF test THEN "ok" ELSE "not ok")
    /\ objects' = [objects EXCEPT !.size = @ + 1, !.status = IF test THEN @ ELSE "failure"]

\* A test that is a function may throw; a condition is one of what it did.
expect_call(did) == expect(did = "true")
expect_nothrow(did) == expect(did \notin {"throws", "throws another"})
expect_throw(did) == expect(did = "throws")

\* Comparisons, of numbers of which "nan" is none: it is neither equal nor
\* less, and so passes expect_neq and nothing else.
expect_eq(a, b) == expect("nan" \notin {a, b} /\ a = b)
expect_neq(a, b) == expect(~("nan" \notin {a, b} /\ a = b))
expect_lt(a, b) == expect("nan" \notin {a, b} /\ <<a, b>> \in {<<"0", "1">>})
expect_le(a, b) == expect("nan" \notin {a, b} /\ <<a, b>> # <<"1", "0">>)
expect_gt(a, b) == expect_lt(b, a)
expect_ge(a, b) == expect_le(b, a)
expect_nan(a) == expect(a = "nan")
fail == expect(FALSE)

\* These, and the plan, go to the standard output wherever the others go.
skip == Report("cout", "skip") /\ objects' = [objects EXCEPT !.size = @ + 1]
noop == skip
todo == Report("cout", "todo") /\ objects' = [objects EXCEPT !.size = @ + 1]
logger_destroy ==
    /\ objects.alive
    /\ kernel' = [kernel EXCEPT !["cout"] = Append(@, Line("plan", objects.size))]
    /\ objects' = [objects EXCEPT !.alive = FALSE] /\ UNCHANGED story

(***************************************************************************)
(* The log.  Its level is two plain variables of the process, value and    *)
(* done, which nothing guards; each thread has the stores it is about to   *)
(* make, which the build may order as it likes.  kernel is the             *)
(* environment, story what was asked for and what was printed.             *)
(***************************************************************************)
LevelOf == [EMERGENCY |-> 0, ERROR |-> 3, WARN |-> 4, WARNING |-> 4, NOTICE |-> 5, DEBUG |-> 7]
Levels == {0, 3, 5, 7}
DEFAULT_LOG_LEVEL == 5
to_level(name) == IF name = "" THEN 0 ELSE IF name \in DOMAIN LevelOf THEN LevelOf[name] ELSE -1

\* A variable that is not set, or is no level, leaves the default.
initial_log_level(env) ==
    IF env = "unset" \/ to_level(env) = -1 THEN DEFAULT_LOG_LEVEL ELSE to_level(env)
needs_break(level) ==
    kernel.break # "unset" /\ to_level(kernel.break) # -1 /\ level <= to_level(kernel.break)

Idle == [doing |-> "idle", stores |-> {}, level |-> 0, message |-> 0]
Unstored(t) == "value" \in objects.at[t].stores
Overlap == \E t \in Threads : objects.at[t].stores # {}

\* log_level (level): the level and the mark that there is one are stored.
set_level(t, level) ==
    /\ objects.at[t] = Idle /\ story.calls < MaxLogs
    /\ objects' = [objects EXCEPT !.at[t] =
            [doing |-> "sets", stores |-> {"value", "done"}, level |-> level, message |-> 0]]
    /\ story' = [story EXCEPT !.calls = @ + 1, !.asked = @ \union {level}, !.wanted = level,
                              !.overlap = Overlap]
    /\ UNCHANGED kernel

\* log, which asks for the level; who finds no mark stores the initial one.
log(t, message) ==
    /\ objects.at[t] = Idle /\ story.calls < MaxLogs
    /\ LET first == initial_log_level(kernel.level) IN
       IF objects.done
       THEN /\ objects' = [objects EXCEPT !.at[t] = [Idle EXCEPT !.doing = "logs", !.message = message]]
            /\ story' = [story EXCEPT !.calls = @ + 1]
       ELSE /\ objects' = [objects EXCEPT !.at[t] = [doing |-> "logs", stores |-> {"value", "done"},
                                                   level |-> first, message |-> message]]
            /\ story' = [story EXCEPT !.calls = @ + 1, !.asked = @ \union {first}, !.wanted = first,
                                      !.overlap = Overlap]
    /\ UNCHANGED kernel
Store(t) ==
    /\ \/ /\ Unstored(t)
          /\ objects' = [objects EXCEPT !.value = objects.at[t].level, !.at[t].stores = @ \ {"value"}]
       \/ /\ "done" \in objects.at[t].stores
          /\ objects' = [objects EXCEPT !.done = TRUE, !.at[t].stores = @ \ {"done"}]
    /\ UNCHANGED <<kernel, story>>
\* What is filtered out may still stop the program in a debugger.  That the
\* time of the message does not fit its string (log.cpp:240-246) is left out: it
\* has room for every year of four digits.
Finish(t) ==
    /\ objects.at[t].doing # "idle" /\ objects.at[t].stores = {}
    /\ objects' = [objects EXCEPT !.at[t] = Idle]
    /\ LET m == objects.at[t].message IN
       story' = IF objects.at[t].doing = "sets" THEN story
                ELSE [story EXCEPT !.printed = IF m <= objects.value THEN @ \union {m} ELSE @,
                                   !.logged = @ \union {m},
                                   !.stops = IF needs_break(m) THEN @ \union {m} ELSE @]
    /\ UNCHANGED kernel

(***************************************************************************)
(* Numbers of names: that of the next is how many there are.  story has    *)
(* what was returned since the last clear.                                 *)
(***************************************************************************)
add(key) ==
    /\ key \notin DOMAIN objects    \* or it throws
    /\ objects' = [k \in DOMAIN objects \union {key} |->
                      IF k = key THEN Cardinality(DOMAIN objects) ELSE objects[k]]
    /\ story' = story \union {<<key, Cardinality(DOMAIN objects)>>} /\ UNCHANGED kernel
out_of_range == -1
find(key) == IF key \in DOMAIN objects THEN objects[key] ELSE out_of_range
clear == objects # <<>> /\ objects' = <<>> /\ story' = {} /\ UNCHANGED kernel

-----------------------------------------------------------------------------
Maps == [o \in Objects |-> [addr |-> FAILED, size |-> 0]]
SystemInit ==
    \/ task = "fds" /\ objects = [o \in Objects |-> -1] /\ kernel = {} /\ story = {}
    \/ task = "maps" /\ objects = Maps /\ kernel = {} /\ story = "as made"
    \/ task = "slurp" /\ \E n \in Lengths :
        kernel = File(n) /\ story = n
        /\ objects = [remaining |-> n, cursor |-> 0, buffer |-> Zeros(n)]
    \* A pipe has no size; a file has one, and may be shorter or longer by now.
    \/ task = "stream" /\ \E n, size \in Lengths :
        kernel = File(n) /\ story = size /\ objects = [at |-> 0, eof |-> FALSE, cursor |-> -1, buf |-> <<>>]
    \/ task = "write" /\ \E n \in Lengths :
        kernel = <<>> /\ story = n /\ objects = [remaining |-> n, cursor |-> 0]
    \/ task = "period" /\ objects = 0 /\ kernel = 0 /\ story = <<>>
    \/ task = "limiter" /\ objects = 0 /\ kernel = 0 /\ story = <<>>
    \/ task = "delta" /\ objects = [prev |-> 0, curr |-> 0] /\ kernel = 0 /\ story = 0
    \/ task = "duration" /\ kernel = 0 /\ objects = [last |-> Unset, next |-> Period, series |-> <<>>]
        /\ story = [all |-> <<>>, printed |-> <<>>]
    \/ task = "tests" /\ kernel = [cout |-> <<>>, other |-> <<>>] /\ story = <<>>
        /\ \E output \in {"cout", "other"} : objects = logger(output)
    \/ task = "log" /\ \E level \in {"unset", "", "WARNING", "noise"}, break \in {"unset", "ERROR"} :
        kernel = [level |-> level, break |-> break]
        /\ objects = [value |-> 0, done |-> FALSE, at |-> [t \in Threads |-> Idle]]
        /\ story = [calls |-> 0, asked |-> {}, wanted |-> 0, overlap |-> FALSE,
                    printed |-> {}, logged |-> {}, stops |-> {}]
    \/ task = "names" /\ objects = <<>> /\ kernel = {} /\ story = {}

Descriptor == task = "fds" /\
    \E o, p \in Objects :
        \/ open(o) \/ dup(o, p) \/ move_construct(o, p) \/ move_assign(o, p)
        \/ reset(o) \/ release(o)
        \/ \E fd \in story : adopt(o, fd)
        \/ \E a, b \in {"no socket", "refused", "connected"} : connect_host(o, a, b)
Map == task = "maps" /\
    \E o, p \in Objects :
        \/ \E addr \in 1 .. Pages, n \in 1 .. MaxPages :
            story = "as made" /\ (map_construct(o, addr, n) \/ map_resize(o, n, addr))
        \/ map_move_construct(o, p) \/ map_move_assign(o, p) \/ map_destroy(o)
Files ==
    \/ task = "slurp" /\ \E n \in 1 .. Max(Lengths) : slurp_read(n)
    \/ task = "stream" /\ (slurp_known \/ slurp_chunk)
    \/ task = "write" /\ \E n \in 1 .. Max(Lengths) : write(n)
Clock ==
    \/ task \in {"period", "limiter", "delta", "duration"} /\ \E n \in 1 .. Period + 1 : Tick(n)
    \/ task = "period" /\ period_poll
    \/ task = "limiter" /\ limiter_poll
    \/ task = "delta" /\ delta_seconds
    \/ task = "duration" /\ (duration_start \/ duration_stop)
Tests == task = "tests" /\
    \/ skip \/ noop \/ todo \/ fail \/ logger_destroy
    \/ \E did \in {"true", "false", "throws", "throws another"} :
        expect_call(did) \/ expect_nothrow(did) \/ expect_throw(did)
    \/ \E x, y \in {"0", "1", "nan"} :
        \/ expect_eq(x, y) \/ expect_neq(x, y) \/ expect_nan(x)
        \/ expect_lt(x, y) \/ expect_le(x, y) \/ expect_gt(x, y) \/ expect_ge(x, y)
Log == task = "log" /\ \E t \in Threads :
    \/ Store(t) \/ Finish(t)
    \/ \E level \in Levels : set_level(t, level) \/ log(t, level)
Naming == task = "names" /\ (clear \/ \E key \in Names : add(key))
SystemNext == (Descriptor \/ Map \/ Files \/ Clock \/ Tests \/ Log \/ Naming) /\ UNCHANGED task

systemVars == <<task, objects, kernel, story>>
SystemSpec == SystemInit /\ [][SystemNext]_systemVars

-----------------------------------------------------------------------------
(***************************************************************************)
(* Every descriptor that is open is held by one object, or was released by *)
(* one; no object holds one that is closed (src/posix/fd.cpp,              *)
(* src/posix/socket.cpp).                                                  *)
(***************************************************************************)
DescriptorsSound ==
    task = "fds" =>
        LET held == {objects[o] : o \in {p \in Objects : Held(p)}}
        IN  /\ kernel = held \union story /\ held \intersect story = {}
            /\ \A o, p \in Objects : Held(o) /\ o # p => objects[o] # objects[p]

(***************************************************************************)
(* As long as none is resized, the pages that are mapped are those of the  *)
(* objects, each of one (src/posix/map.cpp).                               *)
(***************************************************************************)
MapsSound ==
    task = "maps" /\ story = "as made" =>
        /\ kernel = UNION {MapPages(objects[o]) : o \in Objects}
        /\ \A o, p \in Objects : o # p => MapPages(objects[o]) \intersect MapPages(objects[p]) = {}

(***************************************************************************)
(* However short the reads and writes, a file is read whole and written    *)
(* whole; a stream gives as many bytes as it has, and the right ones while *)
(* one chunk is enough for what its size did not tell (src/io.cpp).        *)
(***************************************************************************)
FilesWhole ==
    /\ task = "slurp" =>
        objects.buffer = SubSeq(kernel, 1, objects.cursor) \o Zeros(objects.remaining)
    /\ task = "write" => kernel = File(objects.cursor) /\ objects.cursor + objects.remaining = story
    /\ task = "stream" /\ objects.eof =>
        /\ Len(objects.buf) = Len(kernel)
        /\ Len(kernel) - objects.cursor <= CHUNK_SIZE => objects.buf = kernel

(***************************************************************************)
(* A period that has passed once is due at every poll from then on; of     *)
(* three returns of the limiter the last is at least a period after the    *)
(* first; what a delta clock has measured is the time it was asked last;   *)
(* every duration is in one of the series that are printed, more than an   *)
(* interval after one another, or in the one that is kept, each of which   *)
(* begins where the one before it ended (src/time.cpp).                    *)
(***************************************************************************)
\* Of the durations from behind the i-th to the j-th.
Milliseconds(all, i, j) == [n \in 1 .. j - i |-> all[i + n] \div MILLISECOND]
Upto(printed, k) == IF k = 0 THEN 0 ELSE printed[k].upto
PrintedAt(printed, k) == IF k = 0 THEN 0 ELSE printed[k].at
ClocksSound ==
    /\ task = "period" => \A k \in DOMAIN story : story[k][2] <=> story[k][1] >= Period
    /\ task = "limiter" => \A k \in 3 .. Len(story) : story[k] - story[k - 2] >= Period
    /\ task = "delta" => story = objects.curr /\ objects.curr <= kernel
    /\ task = "duration" =>
        LET all == story.all
            printed == story.printed
        IN  /\ objects.series = Milliseconds(all, Upto(printed, Len(printed)), Len(all))
            /\ \A k \in DOMAIN printed :
                /\ printed[k].series = Milliseconds(all, Upto(printed, k - 1), Upto(printed, k))
                /\ PrintedAt(printed, k) - PrintedAt(printed, k - 1) > Period

(***************************************************************************)
(* Every test has one line, its number is its place among them, and whoever*)
(* reads the standard output of a logger that writes there finds the plan  *)
(* right and comes to the status the program ends with; of a logger that   *)
(* writes elsewhere that stream has the tests that could fail, and neither *)
(* the plan nor what was skipped (src/tap.cpp, src/tap.hpp).               *)
(***************************************************************************)
Numbered(lines, tests) ==
    /\ \A i \in DOMAIN lines : lines[i].n \in DOMAIN tests /\ lines[i].result = tests[lines[i].n]
    /\ \A i, j \in DOMAIN lines : i < j => lines[i].n < lines[j].n
Failed(lines) == \E i \in DOMAIN lines : lines[i].result = "not ok"
TestsSound ==
    task = "tests" =>
        LET lines == Len(kernel.cout)
            results == IF objects.alive THEN kernel.cout ELSE SubSeq(kernel.cout, 1, lines - 1)
        IN  /\ Numbered(results, story) /\ Numbered(kernel.other, story)
            /\ Len(results) + Len(kernel.other) = Len(story) /\ objects.size = Len(story)
            /\ \A i \in DOMAIN results, j \in DOMAIN kernel.other : results[i].n # kernel.other[j].n
            /\ objects.status = "failure" <=> Failed(results) \/ Failed(kernel.other)
            /\ ~objects.alive => kernel.cout[lines] = Line("plan", Len(story))
            /\ objects.output = "cout" /\ ~objects.alive =>
                  /\ Len(story) = Len(results)
                  /\ \A i \in DOMAIN results : results[i].n = i
            /\ objects.output = "other" =>
                  \A i \in DOMAIN kernel.other : kernel.other[i].result \in {"ok", "not ok"}

(***************************************************************************)
(* A level that was asked for, or the initial one, is kept: only stores    *)
(* that overlap with those of another thread can lose it; and whatever     *)
(* overlaps, no message is printed that no level asked for lets through,   *)
(* and an emergency always is (src/log.cpp).  That rests on what the level *)
(* is before it is set, and what a thread may read that sees only the mark *)
(* that it was: zero, EMERGENCY, which lets through nothing else.  What is *)
(* lost by it is LogComplete's.                                            *)
(***************************************************************************)
LogSound ==
    task = "log" =>
        /\ ~story.overlap /\ ~Overlap => objects.value = story.wanted
        /\ \A m \in story.printed : \E level \in story.asked : m <= level
        /\ 0 \in story.logged => 0 \in story.printed
        /\ story.stops = {m \in story.logged : needs_break(m)}

\* Numbers are dense, and a name is found under the one it was given
\* (src/stringid.cpp, test/stringid.cpp).
NamesSound ==
    task = "names" =>
        /\ {objects[k] : k \in DOMAIN objects} = 0 .. Cardinality(DOMAIN objects) - 1
        /\ \A pair \in story : find(pair[1]) = pair[2]
        /\ \A k \in Names : find(k) = out_of_range \/ <<k, find(k)>> \in story

\* The library keeps track of what it has of the system, and tells what was.
SystemSound ==
    /\ DescriptorsSound /\ MapsSound /\ FilesWhole /\ ClocksSound
    /\ TestsSound /\ LogSound /\ NamesSound

(***************************************************************************)
(* A stream is read until its end: "important for handling pipe streams    *)
(* (like from popen) which report a zero size" (src/io.cpp).               *)
(***************************************************************************)
StreamWhole == task = "stream" /\ objects.eof => objects.buf = kernel

(***************************************************************************)
(* A message that every level asked for lets through is printed: the value *)
(* before the level is set is never used, and is "the most verbose option  *)
(* just in case" (log.cpp:133-134).  It does not hold: that value is the   *)
(* least verbose one, and another thread may come to use it.               *)
(***************************************************************************)
LogComplete ==
    task = "log" =>
        \A m \in story.logged : (\A level \in story.asked : m <= level) => m \in story.printed
=============================================================================
