------------------------------ MODULE Parsers ------------------------------
(***************************************************************************)
(* The parsers of texts: version numbers (src/version.cpp.rl), uris        *)
(* (src/uri.cpp.rl over the grammar of src/rfc3986.rl), integers           *)
(* (src/parse.cpp) and dates (src/time/parse8601.cpp.rl).                  *)
(*                                                                         *)
(* A text grows by one character at a time.  "a" stands for a letter, "1"  *)
(* for a digit that is not zero, "+" for a delimiter that any component of *)
(* a uri may hold.  Dates are tried month by month, from 1968 on.          *)
(***************************************************************************)
EXTENDS Integers, Sequences, FiniteSets
LOCAL INSTANCE SequencesExt

CONSTANTS Grammars,     \* << what is parsed, characters, bound on the length >>
          LastYear,     \* bound on the dates
          Clocks,       \* << hour, minute, second >> of the dates
          Zones,        \* << direction, hour, minute >> of their offsets
          Fractions     \* digits of a fraction of a second

VARIABLES input, grammar, calendar

(***************************************************************************)
(* Versions: components, and the release they are on the way to.           *)
(***************************************************************************)
Releases == <<"a", "b", "g", "">>    \* ALPHA, BETA, GAMMA, PRODUCTION
Rank(r) == CHOOSE i \in 1 .. 4 : Releases[i] = r
Made(parts, r) == [how |-> "done", parts |-> parts, release |-> r]
Invalid == [how |-> "invalid", parts |-> <<>>, release |-> ""]
\* The fifth component is written over what follows the array.
Overrun == [how |-> "overrun", parts |-> <<>>, release |-> ""]

DigitOf(c) == CASE c = "0" -> 0 [] c = "1" -> 1 [] c = "9" -> 9
\* The digits that texts are made of.
Digits == {"0", "1", "9"}

\* The grammar is (number '.')* number and a letter for the release; the
\* words it also takes for the letters are left out.
Finish(v, accum) ==
    IF Len(v.parts) = 4 THEN Overrun ELSE Made(Append(v.parts, accum), v.release)
NoDigit == -1    \* no digit was read yet
parse_version(s) ==
    LET Read(m, c) ==
            IF m.v.how # "done" THEN m
            ELSE IF c \in Digits /\ m.v.release = ""
                 THEN [m EXCEPT !.accum = 10 * (IF m.accum = NoDigit THEN 0 ELSE m.accum) + DigitOf(c)]
            ELSE IF m.accum = NoDigit \/ m.v.release # "" THEN [m EXCEPT !.v = Invalid]
            ELSE IF c = "." THEN [v |-> Finish(m.v, m.accum), accum |-> NoDigit]
            ELSE IF c \in {"a", "b", "g"} THEN [m EXCEPT !.v = Made(m.v.parts, c)]
            ELSE [m EXCEPT !.v = Invalid]
        m == FoldLeft(Read, [v |-> Made(<<>>, ""), accum |-> NoDigit], s)
    IN  IF m.v.how # "done" THEN m.v ELSE IF m.accum = NoDigit THEN Invalid ELSE Finish(m.v, m.accum)

print_version(v) ==
    LET Text[n \in Nat] == (IF n < 10 THEN <<>> ELSE Text[n \div 10])
                           \o <<CHOOSE c \in Digits : DigitOf(c) = n % 10>>
        numbers == [i \in DOMAIN v.parts |-> (IF i = 1 THEN <<>> ELSE <<".">>) \o Text[v.parts[i]]]
    IN  FlattenSeq(numbers) \o IF v.release = "" THEN <<>> ELSE <<v.release>>

Common(a, b) == 1 .. (IF Len(a.parts) < Len(b.parts) THEN Len(a.parts) ELSE Len(b.parts))
Beyond(a, b) == {a.parts[i] : i \in DOMAIN a.parts \ Common(a, b)}
version_equal(a, b) ==
    /\ \A i \in Common(a, b) : a.parts[i] = b.parts[i]
    /\ (IF Len(a.parts) > Len(b.parts) THEN Beyond(a, b) ELSE Beyond(b, a)) \subseteq {0}
    /\ a.release = b.release
version_less(a, b) ==
    \/ \E i \in Common(a, b) : a.parts[i] < b.parts[i]
    \/ Len(a.parts) < Len(b.parts) /\ 0 \notin Beyond(b, a)
    \/ Rank(a.release) < Rank(b.release)
version_less_equal(a, b) == version_less(a, b) \/ version_equal(a, b)
version_greater(a, b) == ~version_less_equal(a, b)

(***************************************************************************)
(* Uris.  The machine follows every way to read the text at once, and the  *)
(* actions of all of them happen: a component may begin that is never      *)
(* ended, and be begun again.  A state is << kind, place >>, where kind is *)
(* "uri" or "relative"; an edge has the actions of entering and leaving.   *)
(***************************************************************************)
Views == {"scheme", "hierarchical", "authority", "user", "host", "port", "path", "query", "fragment"}
Unreserved == {"a", "1", "+"}
pchar == Unreserved \union {":", "@"}
QueryChars == pchar \union {"/", "?"}

Begins(S) == {<<"begin", v>> : v \in S}
Ends(S) == {<<"end", v>> : v \in S}
Both(S) == Begins(S) \union Ends(S)

\* What happens when the authority is left, from each of its places.
Places == {"auth", "host0", "host", "port0", "port"}
LeavesAuthority(place) ==
    Ends({"authority"}) \union
    CASE place = "auth" -> Begins({"hierarchical", "authority"}) \union Both({"host"})
      [] place = "host0" -> Both({"host"})
      [] place = "host" -> Ends({"host"})
      [] place = "port0" -> Both({"port"})
      [] place = "port" -> Ends({"port"})
PathEnds == {"seg", "abs1", "noscheme"}
\* What happens when the text ends here, or a '?' or '#' does.
LeavesPath(place) ==
    IF place \in PathEnds THEN Ends({"path", "hierarchical"})
    ELSE LeavesAuthority(place) \union Both({"path"}) \union Ends({"hierarchical"})
LeavesQuery(place) == IF place = "query0" THEN Both({"query"}) ELSE Ends({"query"})
LeavesFragment(place) == IF place = "frag0" THEN Both({"fragment"}) ELSE Ends({"fragment"})

\* The edges out of a place on a character: << place, actions >>.
Edges(place, c) ==
    (IF place = "start" /\ c = "a" THEN {<<"scheme", Begins({"scheme"})>>} ELSE {})
    \union (IF place = "scheme" /\ c \in Unreserved THEN {<<"scheme", {}>>} ELSE {})
    \union (IF place = "scheme" /\ c = ":" THEN {<<"hier", Ends({"scheme"})>>} ELSE {})
    \union (IF place = "relative" /\ c \in pchar \ {":"} THEN {<<"noscheme", Begins({"path"})>>} ELSE {})
    \union (IF place = "noscheme" /\ c \in pchar \ {":"} THEN {<<"noscheme", {}>>} ELSE {})
    \union (IF place = "noscheme" /\ c = "/" THEN {<<"seg", {}>>} ELSE {})
    \union (IF place = "hier" /\ c \in pchar THEN {<<"seg", Begins({"hierarchical", "path"})>>} ELSE {})
    \union (IF place \in {"hier", "relative"} /\ c = "/"
            THEN {<<"slash", {}>>, <<"abs1", Begins({"hierarchical", "path"})>>} ELSE {})
    \union (IF place = "slash" /\ c = "/" THEN {<<"auth", {}>>} ELSE {})
    \union (IF place = "abs1" /\ c \in pchar THEN {<<"seg", {}>>} ELSE {})
    \union (IF place = "seg" /\ c \in pchar \union {"/"} THEN {<<"seg", {}>>} ELSE {})
    \union (IF place = "auth" /\ c \in Unreserved \union {":"}
            THEN {<<"user", Begins({"hierarchical", "authority", "user"})>>} ELSE {})
    \union (IF place = "auth" /\ c = "@"
            THEN {<<"host0", Begins({"hierarchical", "authority"}) \union Both({"user"})>>} ELSE {})
    \union (IF place = "user" /\ c \in Unreserved \union {":"} THEN {<<"user", {}>>} ELSE {})
    \union (IF place = "user" /\ c = "@" THEN {<<"host0", Ends({"user"})>>} ELSE {})
    \union (IF place = "auth" /\ c \in Unreserved
            THEN {<<"host", Begins({"hierarchical", "authority", "host"})>>} ELSE {})
    \union (IF place = "host0" /\ c \in Unreserved THEN {<<"host", Begins({"host"})>>} ELSE {})
    \union (IF place = "host" /\ c \in Unreserved THEN {<<"host", {}>>} ELSE {})
    \union (IF place \in {"auth", "host0", "host"} /\ c = ":"
            THEN {<<"port0", LeavesAuthority(place) \ Ends({"authority"})>>} ELSE {})
    \union (IF place = "port0" /\ c = "1" THEN {<<"port", Begins({"port"})>>} ELSE {})
    \union (IF place = "port" /\ c = "1" THEN {<<"port", {}>>} ELSE {})
    \union (IF place \in Places /\ c = "/" THEN {<<"seg", LeavesAuthority(place) \union Begins({"path"})>>} ELSE {})
    \union (IF place \in Places \union PathEnds /\ c = "?" THEN {<<"query0", LeavesPath(place)>>} ELSE {})
    \union (IF place \in Places \union PathEnds /\ c = "#" THEN {<<"frag0", LeavesPath(place)>>} ELSE {})
    \union (IF place \in {"query0", "query"} /\ c \in QueryChars
            THEN {<<"query", IF place = "query0" THEN Begins({"query"}) ELSE {}>>} ELSE {})
    \union (IF place \in {"query0", "query"} /\ c = "#" THEN {<<"frag0", LeavesQuery(place)>>} ELSE {})
    \union (IF place \in {"frag0", "frag"} /\ c \in QueryChars
            THEN {<<"frag", IF place = "frag0" THEN Begins({"fragment"}) ELSE {}>>} ELSE {})

\* A reference that is relative has no hierarchical part to speak of.
Of(kind, acts) ==
    IF kind = "uri" THEN acts ELSE {act \in acts : act[2] # "hierarchical"}

Acted(views, acts, p) ==
    [v \in Views |->
        [first |-> IF <<"begin", v>> \in acts THEN p ELSE views[v].first,
         last |-> IF <<"end", v>> \in acts \/ <<"begin", v>> \in acts THEN p ELSE views[v].last]]

\* At the end of the text: a reference has to have a fragment, a uri not.
Finals(alive) ==
    {s \in alive : \/ s[2] \in {"frag0", "frag"}
                   \/ s[1] = "uri" /\ s[2] \in Places \union PathEnds \union {"query0", "query"}}
LeavesText(s) ==
    Of(s[1], IF s[2] \in {"frag0", "frag"} THEN LeavesFragment(s[2])
             ELSE IF s[2] \in {"query0", "query"} THEN LeavesQuery(s[2]) ELSE LeavesPath(s[2]))

parse_uri(s) ==
    LET Steps(alive, c) ==
            UNION {{<< <<x[1], e[1]>>, Of(x[1], e[2])>> : e \in Edges(x[2], c)} : x \in alive}
        Turn[i \in Nat] ==    \* after the first i characters
            IF i = 0 THEN [alive |-> {<<"uri", "start">>, <<"relative", "relative">>},
                           views |-> [v \in Views |-> [first |-> 0, last |-> 0]]]
            ELSE LET before == Turn[i - 1]
                     steps == Steps(before.alive, s[i])
                 IN  [alive |-> {e[1] : e \in steps},
                      views |-> Acted(before.views, UNION {e[2] : e \in steps}, i)]
        end == Turn[Len(s)]
        finals == Finals(end.alive)
    IN  [success |-> finals # {}, alive |-> end.alive # {},
         views |-> Acted(end.views, UNION {LeavesText(f) : f \in finals}, Len(s) + 1)]
ViewOf(s, r, v) == SubSeq(s, r.views[v].first, r.views[v].last - 1)

(***************************************************************************)
(* Integers.  strtol reads on from the first character whatever the view   *)
(* says, with the base the text asks for; the tail it stopped at has to be *)
(* the end of the view.  A 0x that no digit follows is a zero.             *)
(***************************************************************************)
HexDigits == Digits \union {"a"}
HexOf(c) == IF c = "a" THEN 10 ELSE DigitOf(c)
\* The digits of s from i on.
Figures(s, i, base) ==
    LET IsDigit(c) == c \in HexDigits /\ HexOf(c) < base
    IN  SubSeq(s, i, (CHOOSE n \in i .. Len(s) + 1 :
            (\A k \in i .. n - 1 : IsDigit(s[k])) /\ (n = Len(s) + 1 \/ ~IsDigit(s[n]))) - 1)
InBase(base, figures) == FoldLeft(LAMBDA acc, c : base * acc + HexOf(c), 0, figures)

strtol(s) ==
    LET blanks == CHOOSE n \in 0 .. Len(s) :
            (\A i \in 1 .. n : s[i] = " ") /\ (n = Len(s) \/ s[n + 1] # " ")
        signed == blanks < Len(s) /\ s[blanks + 1] \in {"-", "+"}
        start == blanks + (IF signed THEN 1 ELSE 0) + 1
        Stands(i, cs) == i <= Len(s) /\ s[i] \in cs
        hex == Stands(start, {"0"}) /\ Stands(start + 1, {"x"}) /\ Stands(start + 2, HexDigits)
        base == IF hex THEN 16 ELSE IF Stands(start, {"0"}) THEN 8 ELSE 10
        first == IF hex THEN start + 2 ELSE start
        figures == IF first <= Len(s) THEN Figures(s, first, base) ELSE <<>>
        magnitude == InBase(base, figures)
    IN  IF figures = <<>> THEN [value |-> 0, tail |-> 0]
        ELSE [value |-> IF signed /\ s[blanks + 1] = "-" THEN -magnitude ELSE magnitude,
              tail |-> first + Len(figures) - 1]

\* The view is the first size characters of the memory s.
c_iparse(s, size) ==
    LET r == strtol(s) IN IF r.tail # size THEN <<"invalid">> ELSE <<"done", r.value>>

(***************************************************************************)
(* Dates.  A time is its days since 1970, its seconds and nanoseconds.     *)
(***************************************************************************)
cumulative_days == <<0, 31, 59, 90, 120, 151, 181, 212, 243, 273, 304, 334>>
Quotient(n, d) == IF n < 0 THEN -((-n) \div d) ELSE n \div d
epoch_year == 1970
is_leap_year(y) == y % 4 = 0 /\ (y % 100 # 0 \/ y % 400 = 0)

\* Mutant: the day of a leap year is not given back before March.
to_epoch_AfterLeap(y, mon, mday) ==
    (y - epoch_year) * 365 + cumulative_days[mon + 1]
    + Quotient(y - epoch_year + (epoch_year % 4), 4)
    - Quotient(y - epoch_year + (epoch_year % 100), 100)
    + Quotient(y - epoch_year + (epoch_year % 400), 400)
    + mday - 1

\* The days of a date; mon counts from zero.
to_epoch(y, mon, mday) ==
    (y - epoch_year) * 365 + cumulative_days[mon + 1]
    + Quotient(y - epoch_year + (epoch_year % 4), 4)
    - Quotient(y - epoch_year + (epoch_year % 100), 100)
    + Quotient(y - epoch_year + (epoch_year % 400), 400)
    - (IF is_leap_year(y) /\ mon < 2 THEN 1 ELSE 0)
    + mday - 1

Accumulate(ds) == FoldLeft(LAMBDA acc, d : 10 * acc + d, 0, ds)
Two(n) == <<n \div 10, n % 10>>
digits10(v) == IF v = 0 THEN 1 ELSE CHOOSE n \in 1 .. 10 : v \div 10^(n - 1) \in 1 .. 9
nanoseconds(frac) == LET f == Accumulate(frac) IN f * 10^(9 - digits10(f))

\* The fields of a date are digits; the day may carry into its neighbours.
parse_date(year, month, mday, clock, zone, frac) ==
    LET days == to_epoch(Accumulate(year), Accumulate(month) - 1, Accumulate(mday))
        seconds == Accumulate(clock[1]) * 3600 + Accumulate(clock[2]) * 60 + Accumulate(clock[3])
        diff == zone[1] * (Accumulate(zone[2]) * 3600 + Accumulate(zone[3]) * 60)
        s == seconds - diff
    IN  [days |-> days + s \div 86400, seconds |-> s % 86400, nanos |-> nanoseconds(frac)]

-----------------------------------------------------------------------------
NoDate == [year |-> 0, mon |-> 0, days |-> 0]
\* 1968 begins two years before the epoch, one of them a leap year.
ParserInit ==
    \/ grammar \in Grammars /\ input = <<>> /\ calendar = NoDate
    \/ grammar = <<"dates", {}, 0>> /\ input = <<>> /\ calendar = [year |-> 1968, mon |-> 0, days |-> -731]

\* The text of a uri goes on as long as the machine follows any reading of it.
Viable == grammar[1] = "uri" => parse_uri(input).alive
Type(c) == /\ Len(input) < grammar[3] /\ Viable
           /\ input' = Append(input, c) /\ UNCHANGED <<grammar, calendar>>

DaysIn(y, mon) == IF mon = 1 /\ is_leap_year(y) THEN 29
                  ELSE <<31, 28, 31, 30, 31, 30, 31, 31, 30, 31, 30, 31>>[mon + 1]
NextMonth ==
    /\ calendar.year < LastYear
    /\ calendar' = [year |-> IF calendar.mon = 11 THEN calendar.year + 1 ELSE calendar.year,
                    mon |-> (calendar.mon + 1) % 12,
                    days |-> calendar.days + DaysIn(calendar.year, calendar.mon)]
    /\ UNCHANGED <<input, grammar>>
ParserNext == IF grammar[1] = "dates" THEN NextMonth ELSE \E c \in grammar[2] : Type(c)

-----------------------------------------------------------------------------
\* Versions of up to three components.
Samples == [how : {"done"}, parts : UNION {[1 .. n -> 0 .. 2] : n \in 1 .. 3}, release : {"a", "g", ""}]

Padded(v) == [i \in 1 .. 4 |-> IF i \in DOMAIN v.parts THEN v.parts[i] ELSE 0]

(***************************************************************************)
(* A version that was printed is parsed back; versions are equal exactly   *)
(* if they are of one release and their components are the same, zeroes at *)
(* the end left aside; one that comes first in a single component, or by   *)
(* its release, is less and not greater (src/version.cpp.rl).              *)
(***************************************************************************)
VersionsSound ==
    /\ grammar[1] = "version" =>
        LET v == parse_version(input)
        IN  v.how = "done" => parse_version(print_version(v)) = v
    /\ grammar[1] = "version" /\ input = <<>> =>
        \A a, b \in Samples :
            LET differ == {i \in Common(a, b) : a.parts[i] # b.parts[i]}
            IN  /\ version_equal(a, b) <=> a.release = b.release /\ Padded(a) = Padded(b)
                /\ version_equal(a, b) => ~version_less(a, b) /\ ~version_greater(a, b)
                /\ (Len(a.parts) = Len(b.parts) /\ a.release = b.release /\ Cardinality(differ) = 1) =>
                    (version_less(a, b) <=> \E i \in differ : a.parts[i] < b.parts[i])
                /\ (a.parts = b.parts) => (version_greater(a, b) <=> Rank(a.release) > Rank(b.release))

\* The components of a uri by the regular expression of rfc3986, appendix B.
Upto(s, from, stops) ==
    CHOOSE i \in from .. Len(s) + 1 :
        (i = Len(s) + 1 \/ s[i] \in stops) /\ \A k \in from .. i - 1 : s[k] \notin stops
Reference(s) ==
    LET colon == Upto(s, 1, {":", "/", "?", "#"})
        scheme == colon \in 2 .. Len(s) /\ s[colon] = ":"
        p == IF scheme THEN colon + 1 ELSE 1
        auth == p < Len(s) /\ s[p] = "/" /\ s[p + 1] = "/"
        begin == IF auth THEN p + 2 ELSE p
        path == IF auth THEN Upto(s, begin, {"/", "?", "#"}) ELSE p
        query == Upto(s, path, {"?", "#"})
        fragment == Upto(s, query, {"#"})
        authority == SubSeq(s, begin, path - 1)
        at == Upto(authority, 1, {"@"})
        hostport == IF at > Len(authority) THEN authority ELSE SubSeq(authority, at + 1, Len(authority))
        port == Upto(hostport, 1, {":"})
    IN  [scheme |-> IF scheme THEN SubSeq(s, 1, colon - 1) ELSE <<>>,
         hierarchical |-> IF scheme THEN SubSeq(s, begin, query - 1) ELSE <<>>,
         authority |-> authority,
         user |-> IF at > Len(authority) THEN <<>> ELSE SubSeq(authority, 1, at - 1),
         host |-> SubSeq(hostport, 1, port - 1),
         port |-> SubSeq(hostport, port + 1, Len(hostport)),
         path |-> SubSeq(s, path, query - 1),
         query |-> SubSeq(s, query + 1, fragment - 1),
         fragment |-> SubSeq(s, fragment + 1, Len(s)),
         absolute |-> scheme, local |-> ~auth, referring |-> fragment <= Len(s)]
\* A uri, or a reference relative to one, by the grammar of the rfc.
WellFormed(r) ==
    LET Within(t, chars) == \A i \in DOMAIN t : t[i] \in chars
    IN  /\ Within(r.scheme, Unreserved) /\ (r.absolute => r.scheme[1] = "a")
        /\ Within(r.user, Unreserved \union {":"}) /\ Within(r.host, Unreserved)
        /\ Within(r.port, {"1"}) /\ Within(r.fragment, QueryChars)
        /\ ~r.absolute /\ r.local /\ r.path # <<>> => r.path[1] # ":"
\* What rfc3986.rl has no text for, where it writes the empty path as a zero
\* and asks a relative reference for a fragment.
Missing(r) == (r.local /\ r.path = <<>>) \/ (~r.absolute /\ ~r.referring)

(***************************************************************************)
(* A text is taken only if it is well formed by rfc3986, and every         *)
(* component is then what the rfc cuts out for it, whatever other reading  *)
(* the machine followed on the way; and it is taken if it has a path or an *)
(* authority and, where it has no scheme, a fragment (src/uri.cpp.rl,      *)
(* src/rfc3986.rl).                                                        *)
(***************************************************************************)
UrisSound ==
    grammar[1] = "uri" =>
        LET r == parse_uri(input)
            reference == Reference(input)
        IN  /\ r.success => /\ WellFormed(reference)
                            /\ \A v \in Views : ViewOf(input, r, v) = reference[v]
            /\ WellFormed(reference) /\ ~Missing(reference) => r.success

\* Every uri is taken: "parsing of rfc3986 uniform resource identifiers"
\* (uri.hpp:30).  It does not hold: rfc3986 lets the path be empty, as in a:.
TakesUris ==
    grammar[1] = "uri" =>
        (Reference(input).absolute /\ WellFormed(Reference(input)) => parse_uri(input).success)

(***************************************************************************)
(* What is taken from a view is what would be taken from it alone, and     *)
(* where nothing stands behind it that strtol could go on with, a view is  *)
(* taken or refused as it would be alone; decimal and hexadecimal digits   *)
(* are worth what they say (src/parse.cpp).  Of the empty view, and of     *)
(* views whose number goes on behind them, see ParsesTheView.              *)
(***************************************************************************)
IntegersSound ==
    grammar[1] = "integer" =>
        \A size \in 1 .. Len(input) :
            LET r == c_iparse(input, size)
                view == SubSeq(input, 1, size)
                Digital(i, cs) == i <= size /\ \A k \in i .. size : input[k] \in cs
            IN  /\ r[1] = "done" \/ size = Len(input) \/ input[size + 1] \notin HexDigits \union {"x"} =>
                       r = c_iparse(view, size)
                /\ r[1] = "done" /\ input[1] # "0" /\ Digital(1, Digits) => r[2] = InBase(10, view)
                /\ r[1] = "done" /\ Digital(3, HexDigits) /\ SubSeq(input, 1, 2) = <<"0", "x">> =>
                       r[2] = InBase(16, SubSeq(input, 3, size))

\* A number is extracted "from the string [first, last)", and one that cannot
\* be is an exception (parse.hpp:29-31).  It does not hold: a view is refused
\* because of what stands behind it, and the empty view is a zero.
ParsesTheView ==
    grammar[1] = "integer" =>
        \A size \in 0 .. Len(input) :
            c_iparse(input, size) =
                IF size = 0 THEN <<"invalid">> ELSE c_iparse(SubSeq(input, 1, size), size)

(***************************************************************************)
(* A date is as many days from the epoch as the calendar says, back to     *)
(* 1968; an offset moves it by as much the other way; a fraction that does *)
(* not begin with a zero is worth its digits (src/time/parse8601.cpp.rl).  *)
(***************************************************************************)
DatesSound ==
    grammar[1] = "dates" =>
        LET y == calendar.year  mon == calendar.mon
            year == Two(y \div 100) \o Two(y % 100)
            At(mday, clock, zone, frac) ==
                parse_date(year, Two(mon + 1), Two(mday), [i \in 1 .. 3 |-> Two(clock[i])],
                           <<zone[1], Two(zone[2]), Two(zone[3])>>, frac)
        IN  \A mday \in {1, 28, DaysIn(y, mon)} :
                /\ to_epoch(y, mon, mday) = calendar.days + mday - 1
                /\ \A clock \in Clocks, zone \in Zones :
                    LET t == At(mday, clock, zone, <<0>>)
                        offset == zone[1] * (zone[2] * 60 + zone[3]) * 60
                    IN  (t.days - (calendar.days + mday - 1)) * 86400 + t.seconds + offset
                            = (clock[1] * 60 + clock[2]) * 60 + clock[3]
                /\ \A frac \in Fractions : At(mday, <<0, 0, 0>>, <<0, 0, 0>>, frac).nanos =
                    FoldLeft(LAMBDA acc, i : acc + frac[i] * 10^(9 - i), 0, [i \in DOMAIN frac |-> i])

\* The parsers read what was written.
ParsersSound == VersionsSound /\ UrisSound /\ IntegersSound /\ DatesSound
=============================================================================
