------------------------------- MODULE Views -------------------------------
(***************************************************************************)
(* Walks over ranges: views of memory (src/view.hpp), the tokens of a text *)
(* (src/string.cpp), zipped and infixed ranges and blocks cut from several *)
(* sources (src/iterator.hpp), and rows put in order                       *)
(* (src/algo/sort.ipp).                                                    *)
(*                                                                         *)
(* walk says which walk is made, subject what is walked over, place where  *)
(* the walk is, and given what has come out of it.  A view is a pair of    *)
(* offsets, the first element and the one past the last.                   *)
(***************************************************************************)
EXTENDS Integers, Sequences, FiniteSets

CONSTANTS TextBytes,    \* of the texts, as unsigned bytes; 0 ends a C string
          Separator,    \* of the tokens, one of them
          MaxText,      \* bound on their length
          MaxCuts,      \* bound on the operations on two views
          BlockSizes, MaxSource, MaxFed,    \* blocks, their sources, all of them
          RowKeys, MaxRows                     \* rows to sort

ASSUME ViewAssumption ==
    /\ TextBytes \subseteq Nat /\ MaxText \in Nat
    /\ BlockSizes \subseteq Nat \ {0} /\ MaxSource \in Nat
    /\ RowKeys \subseteq Int /\ MaxRows \in Nat

VARIABLES walk, subject, place, given

(***************************************************************************)
(* Views.                                                                  *)
(***************************************************************************)
view(first, last) == <<first, last>>
Null == view(0, 0)
size(v) == v[2] - v[1]
empty(v) == v[1] = v[2]
Content(memory, v) == SubSeq(memory, v[1] + 1, v[2])

strlen(s) == CHOOSE n \in 0 .. Len(s) : (n = Len(s) \/ s[n + 1] = 0) /\ \A i \in 1 .. n : s[i] # 0
make_view(memory) == view(0, Len(memory))
\* Of a string, a vector or an array: its data and its size.
view_of(container) == view(0, Len(container))
make_view_string(str) == view(0, Len(str))
make_view_cstr(memory) == view(0, strlen(memory))

\* The exception for a count beyond the size is left out: Cut, the one to call
\* it, passes none such.
view_redim(v, count) == view(v[1], v[1] + count)
split(v, pos) == << view(v[1], v[1] + pos), view(v[1] + pos, v[2]) >>
drop(v, newbegin) == view(newbegin, v[2])
Index(memory, v, idx) == memory[v[1] + idx + 1]
consume(v, count) == split(v, count)[2]
consume_prefix(v, prefix) == view(prefix[2], v[2])

equal(m, v, w) ==
    /\ size(v) = size(w)
    /\ \A i \in 1 .. size(v) : m[v[1] + i] = m[w[1] + i]
\* The first n characters, none of them after a null that both have.
strncmp(m, v, w, n) ==
    LET differs == {i \in 1 .. n : /\ m[v[1] + i] # m[w[1] + i]
                                   /\ \A k \in 1 .. i - 1 : m[v[1] + k] = m[w[1] + k] /\ m[v[1] + k] # 0}
    IN  IF differs = {} THEN 0 ELSE LET i == CHOOSE i \in differs : TRUE IN m[v[1] + i] - m[w[1] + i]
less(m, v, w) ==
    LET res == strncmp(m, v, w, IF size(v) < size(w) THEN size(v) ELSE size(w))
    IN  res < 0 \/ (res = 0 /\ size(v) < size(w))

\* Of C strings: views that hold no null.
strbegins(m, str, prefix) ==
    \A i \in 1 .. size(prefix) : i <= size(str) /\ m[str[1] + i] = m[prefix[1] + i]

(***************************************************************************)
(* Tokens.  An iterator has the range of its token; the end of the text is *)
(* the same for all.  Two are equal when their tokens have the same        *)
(* characters.                                                             *)
(***************************************************************************)
Find(m, from) == CHOOSE i \in from .. Len(m) :
    (i = Len(m) \/ m[i + 1] = Separator) /\ \A k \in from + 1 .. i : m[k] # Separator
cbegin(m) == <<0, Find(m, 0)>>
cend(m) == <<Len(m), Len(m)>>

token_increment(m, range) ==
    LET newend == IF range[2] # Len(m) THEN range[2] + 1 ELSE range[2] IN <<newend, Find(m, newend)>>

\* The indices of as many values, and zipped ranges, which are at their end
\* when each of them is.
make_indices(n) == [index |-> 0, count |-> n]
AtEnd(m, z) == equal(m, z.token, cend(m)) /\ z.indices.index = z.indices.count

(***************************************************************************)
(* An infix iterator puts the delimiter before all values but the first.   *)
(***************************************************************************)
infix(out, delimiter, value) ==
    [first |-> FALSE,
     text |-> IF out.first THEN out.text \o value ELSE out.text \o delimiter \o value]
Blank == [first |-> TRUE, text |-> <<>>]

(***************************************************************************)
(* Blocks: a source fills what the last one left of the block, then whole  *)
(* blocks, and leaves its remainder at the front.                          *)
(***************************************************************************)
Whole(src, from, n) == [k \in 1 .. (Len(src) - from) \div n |-> SubSeq(src, from + (k - 1) * n + 1, from + k * n)]

\* Mutant: a source that fills the block to its end is only stored.
transform_by_block_Stored(n, b, src) ==
    LET infill == IF b.held = <<>> THEN 0 ELSE n - Len(b.held)
        filled == IF infill = 0 THEN <<>> ELSE << b.held \o SubSeq(src, 1, infill) >>
        blocks == Whole(src, infill, n)
    IN  IF Len(src) <= infill THEN [held |-> b.held \o src, passed |-> b.passed]
        ELSE [held |-> SubSeq(src, infill + Len(blocks) * n + 1, Len(src)),
              passed |-> b.passed \o filled \o blocks]

transform_by_block(n, b, src) ==
    LET infill == IF b.held = <<>> THEN 0 ELSE n - Len(b.held)
        filled == IF infill = 0 THEN <<>> ELSE << b.held \o SubSeq(src, 1, infill) >>
        blocks == Whole(src, infill, n)
    IN  IF Len(src) < infill THEN [held |-> b.held \o src, passed |-> b.passed]
        ELSE [held |-> SubSeq(src, infill + Len(blocks) * n + 1, Len(src)),
              passed |-> b.passed \o filled \o blocks]

(***************************************************************************)
(* Rows are a key and a value.  The indices say where each row goes.       *)
(***************************************************************************)
Swapped(s, a, b) == [k \in DOMAIN s |-> IF k = a THEN s[b] ELSE IF k = b THEN s[a] ELSE s[k]]

\* What std::sort may leave: any order of the indices with the keys sorted.
Sorted(rows) ==
    {p \in [DOMAIN rows -> DOMAIN rows] :
        /\ \A i, j \in DOMAIN rows : i # j => p[i] # p[j]
        /\ \A i \in 1 .. Len(rows) - 1 : rows[p[i]].key <= rows[p[i + 1]].key}
\* From the sorted indices to where each of them goes.
soa(rows, indices) == [k \in DOMAIN rows |-> CHOOSE i \in DOMAIN rows : indices[i] = k]

-----------------------------------------------------------------------------
SeqsOf(values, max) == UNION {[1 .. n -> values] : n \in 0 .. max}
RowsOf(keys) == [k \in DOMAIN keys |-> [key |-> keys[k], value |-> k]]
Separators(m) == {i \in 1 .. Len(m) : m[i] = Separator}
Tokens(m) == 1 + Cardinality(Separators(m))

ViewInit ==
    \/ walk = "views" /\ subject \in SeqsOf(TextBytes, MaxText) /\ place = << view_of(subject), Null, 0 >>
       /\ given = <<subject, <<>> >>
    \/ walk = "tokens" /\ subject \in SeqsOf(TextBytes, MaxText) /\ place = cbegin(subject) /\ given = <<>>
    \/ walk = "zip" /\ subject \in SeqsOf(TextBytes, MaxText) /\ given = <<>>
       /\ place = [token |-> cbegin(subject), indices |-> make_indices(Tokens(subject)), out |-> Blank]
    \/ walk = "blocks" /\ subject \in [size : BlockSizes, fed : {<<>>}]
       /\ place = <<>> /\ given = <<>>
    \/ walk = "order" /\ subject \in {RowsOf(keys) : keys \in SeqsOf(RowKeys, MaxRows)}
       /\ \E indices \in Sorted(subject) :
            place = [i |-> 1, dest |-> soa(subject, indices), wanted |-> soa(subject, indices), swaps |-> 0]
       /\ given = subject

\* The parts of a split view, and what redim and consume leave of it.
Cut(pos) ==
    /\ walk = "views" /\ pos \in 0 .. size(place[1]) /\ place[3] < MaxCuts
    /\ \/ /\ place' = split(place[1], pos) \o <<place[3] + 1>>
          /\ given' = <<SubSeq(given[1], 1, pos), SubSeq(given[1], pos + 1, Len(given[1]))>>
       \/ /\ pos > 0
          /\ place' = <<consume_prefix(place[1], view_redim(place[1], pos)), view_redim(place[1], pos), place[3] + 1>>
          /\ given' = <<SubSeq(given[1], pos + 1, Len(given[1])), SubSeq(given[1], 1, pos)>>
    /\ UNCHANGED <<walk, subject>>
\* The second view is moved to the first, which leaves it null.
MoveAssign ==
    /\ walk = "views" /\ place[3] < MaxCuts
    /\ place' = <<place[2], Null, place[3] + 1>>
    /\ given' = <<given[2], <<>> >>
    /\ UNCHANGED <<walk, subject>>

\* Both views are of the same elements afterwards.
CopyAssign ==
    /\ walk = "views" /\ place[3] < MaxCuts
    /\ place' = <<place[2], place[2], place[3] + 1>>
    /\ given' = <<given[2], given[2]>>
    /\ UNCHANGED <<walk, subject>>

\* One round of a loop over the tokens: up to the end, as iterators compare.
NextToken ==
    /\ walk = "tokens" /\ ~equal(subject, place, cend(subject))
    /\ given' = Append(given, Content(subject, place))
    /\ place' = token_increment(subject, place)
    /\ UNCHANGED <<walk, subject>>

\* The same with as many values beside them as there are tokens; the tokens are
\* copied to an infix iterator.
NextZipped ==
    /\ walk = "zip" /\ ~AtEnd(subject, place) /\ Len(given) <= MaxText + 1
    /\ given' = Append(given, <<Content(subject, place.token), place.indices.index>>)
    /\ place' = [place EXCEPT !.token = token_increment(subject, place.token), !.indices.index = place.indices.index + 1,
                              !.out = infix(place.out, <<Separator>>, Content(subject, place.token))]
    /\ UNCHANGED <<walk, subject>>

Feed(src) ==
    /\ walk = "blocks" /\ Len(subject.fed) + Len(src) <= MaxFed
    /\ LET b == transform_by_block(subject.size, [held |-> place, passed |-> given], src)
       IN  place' = b.held /\ given' = b.passed
    /\ subject' = [subject EXCEPT !.fed = subject.fed \o src]
    /\ UNCHANGED walk
\* Sources count on from what was fed before.
Source(n) == [k \in 1 .. n |-> Len(subject.fed) + k]

\* One turn of the loop: a swap, or on to the next row.
Reorder ==
    /\ walk = "order" /\ place.i < Len(subject)
    /\ LET j == place.dest[place.i]
       IN  IF j = place.i THEN place' = [place EXCEPT !.i = place.i + 1] /\ UNCHANGED given
           ELSE /\ given' = Swapped(given, place.i, j)
                /\ place' = [place EXCEPT !.dest = Swapped(place.dest, place.i, j), !.swaps = place.swaps + 1]
    /\ UNCHANGED <<walk, subject>>

ViewNext ==
    \/ \E pos \in 0 .. MaxText : Cut(pos)
    \/ MoveAssign
    \/ CopyAssign
    \/ NextToken
    \/ NextZipped
    \/ \E n \in 0 .. MaxSource : walk = "blocks" /\ Feed(Source(n))
    \/ Reorder

viewVars == <<walk, subject, place, given>>
ViewSpec == ViewInit /\ [][ViewNext]_viewVars

-----------------------------------------------------------------------------
\* The text between two borders, the separators and both ends, a token at a
\* time, however short.
Borders(m) == Separators(m) \union {0, Len(m) + 1}
Border(m, k) == CHOOSE b \in Borders(m) : Cardinality({c \in Borders(m) : c < b}) = k
TokenAt(m, k) == SubSeq(m, Border(m, k - 1) + 1, Border(m, k) - 1)

\* The views of a text, of which those without a null are C strings, and what
\* any of them are to one another.
ViewsOf(m) == {v \in (0 .. Len(m)) \X (0 .. Len(m)) : v[1] <= v[2]}
NoNull(m, v) == \A i \in 1 .. size(v) : m[v[1] + i] # 0
Incomparable(m, v, w) == ~less(m, v, w) /\ ~less(m, w, v)
Ordered(m) ==
    /\ make_view_string(m) = make_view(m)
    /\ Content(m, make_view_cstr(m)) = SubSeq(m, 1, strlen(m))
    /\ \A v, w \in ViewsOf(m) :
        /\ equal(m, v, w) <=> Content(m, v) = Content(m, w)
        /\ less(m, v, w) => ~less(m, w, v)
        /\ NoNull(m, v) /\ NoNull(m, w) => (equal(m, v, w) <=> Incomparable(m, v, w))
        /\ NoNull(m, v) /\ NoNull(m, w) /\ strbegins(m, v, w) => ~less(m, v, w)
        /\ \A u \in ViewsOf(m) :
            /\ less(m, u, v) /\ less(m, v, w) => less(m, u, w)
            /\ Incomparable(m, u, v) /\ Incomparable(m, v, w) => Incomparable(m, u, w)

(***************************************************************************)
(* A view holds what a copy of its elements would after the same cuts and  *)
(* moves.  Views are less than one another in a strict weak order, the one *)
(* of their strings, and neither is less only when they are equal, all of  *)
(* it for characters before a null (src/view.hpp).                         *)
(***************************************************************************)
CutsSound ==
    walk = "views" =>
        /\ \A n \in 1 .. 2 :
            /\ Content(subject, place[n]) = given[n]
            /\ \A i \in 1 .. size(place[n]) :
                /\ Index(subject, place[n], i - 1) = given[n][i]
                /\ Content(subject, drop(place[n], place[n][1] + i)) = SubSeq(given[n], i + 1, Len(given[n]))
        /\ place[3] = 0 => Ordered(subject)

(***************************************************************************)
(* The tokens are those of the text in its order; a loop over a text       *)
(* without empty tokens sees them all, and one over any text sees them all *)
(* when it is zipped with as many values.  Infixed with the separator they *)
(* are the text again (src/string.cpp, src/iterator.hpp).                  *)
(***************************************************************************)
TokensSound ==
    /\ walk = "tokens" =>
        /\ Len(given) <= Tokens(subject) /\ \A k \in 1 .. Len(given) : given[k] = TokenAt(subject, k)
        /\ equal(subject, place, cend(subject)) /\ (\A k \in 1 .. Tokens(subject) : TokenAt(subject, k) # <<>>)
            => Len(given) = Tokens(subject)
    /\ walk = "zip" =>
        /\ \A k \in 1 .. Len(given) : given[k] = <<TokenAt(subject, k), k - 1>>
        /\ AtEnd(subject, place) => Len(given) = Tokens(subject) /\ place.out.text = subject

(***************************************************************************)
(* What was fed comes out once and in order, in blocks of the one size; a  *)
(* block is passed on as soon as it is full (transform_by_block,           *)
(* src/iterator.hpp).                                                      *)
(***************************************************************************)
BlocksSound ==
    walk = "blocks" =>
        LET n == subject.size
            passed == Len(given) * n
        IN  /\ \A k \in 1 .. Len(given) : given[k] = SubSeq(subject.fed, (k - 1) * n + 1, k * n)
            /\ place = SubSeq(subject.fed, passed + 1, Len(subject.fed))
            /\ passed <= Len(subject.fed) /\ Len(place) < n

(***************************************************************************)
(* The rows in any state of the loop are the given rows, each whole and    *)
(* with the place it goes to; at its end, after at most one swap less than *)
(* there are rows, each is where it was to go and the keys are in order    *)
(* (src/algo/sort.ipp).                                                    *)
(***************************************************************************)
RowsSound ==
    walk = "order" =>
        /\ \A k \in DOMAIN subject :
            \E m \in DOMAIN given : given[m] = subject[k] /\ place.dest[m] = place.wanted[k]
        /\ place.swaps < Len(subject) \/ subject = <<>>
        /\ place.i >= Len(subject) =>
            /\ \A k \in DOMAIN subject : given[place.wanted[k]] = subject[k]
            /\ \A k \in 1 .. Len(subject) - 1 : given[k].key <= given[k + 1].key

\* The walks over ranges see all of them, once and in order.
WalksWhole == CutsSound /\ TokensSound /\ BlocksSound /\ RowsSound
=============================================================================
