----------------------------- MODULE JsonTexts ------------------------------
(***************************************************************************)
(* util::json2::event::parse (src/json2): one recursive descent, written   *)
(* once in personality/base.cpp and bent by two personalities, rfc7159 and *)
(* jsonish.  It reports each token to a callback as a packet, a first and  *)
(* a last position, the moment it is read: a text that is rejected later   *)
(* has already been reported up to there.                                  *)
(*                                                                         *)
(* A text is a sequence of characters.  The parsers look at *last without  *)
(* asking, so a terminator follows the text, as it does in a string.       *)
(* A parse is a record: the position it has come to, the packets it has    *)
(* reported, and how it stands.                                            *)
(***************************************************************************)
EXTENDS Integers, Sequences, FiniteSets

VARIABLE text

Nul == ""                                   \* what *last reads as
C(i) == IF i <= Len(text) THEN text[i] ELSE Nul
Last == Len(text) + 1

Digits == {"0", "1", "2", "3", "4", "5", "6", "7", "8", "9"}
HexLetters == {"a", "b", "c", "d", "e", "f"}
Letters == HexLetters \cup {"l", "n", "r", "s", "t", "u", "x", "z", "_"}
Blanks == {" ", "\t", "\n", "\r"}

\* The end of the run of characters of a set that starts at i.
Run(i, set) == CHOOSE j \in i..Last :
    C(j) \notin set /\ \A k \in i..(j - 1) : C(k) \in set

Start == [at |-> 1, out |-> <<>>, how |-> "going"]
Fail(r, i) == [r EXCEPT !.at = i, !.how = "error"]
Emit(r, i) == [r EXCEPT !.at = i, !.out = Append(@, [first |-> r.at, last |-> i])]

\* The one character asked for, or a parse_error.
Expect(r, c) ==
    IF r.how # "going" THEN r
    ELSE IF C(r.at) = c THEN [r EXCEPT !.at = @ + 1]
    ELSE Fail(r, r.at)

\* Blanks; jsonish also skips a comment, and what follows it.
RECURSIVE SkipFrom(_, _)
SkipFrom(p, i) ==
    LET j == Run(i, Blanks)
        Line == CHOOSE k \in j..Last :
            (k = Last \/ C(k) = "\n") /\ \A m \in j..(k - 1) : C(m) # "\n"
    IN IF p = "jsonish" /\ C(j) = "#" THEN SkipFrom(p, Line) ELSE j

consume_whitespace(p, r) ==
    IF r.how # "going" THEN r ELSE [r EXCEPT !.at = SkipFrom(p, r.at)]

-----------------------------------------------------------------------------
(* Numbers.                                                                *)

\* An exponent's digits begin behind the letter and an optional sign.
AfterE(c) == IF C(c + 1) \in {"+", "-"} THEN c + 2 ELSE c + 1

\* base::parse_number.  A leading zero has to be followed by a fraction.
StrictNumber(r) ==
    LET int  == IF C(r.at) = "-" THEN r.at + 1 ELSE r.at
        dot  == IF C(int) = "0" THEN int + 1 ELSE Run(int, Digits)
        e    == IF C(dot) = "." THEN Run(dot + 1, Digits) ELSE dot
        exp  == C(e) \in {"e", "E"}
        end  == IF exp THEN Run(AfterE(e), Digits) ELSE e
    IN  CASE C(int) \notin Digits              -> Fail(r, int)
          [] C(int) = "0" /\ C(dot) # "."      -> Fail(r, dot)
          [] C(dot) = "." /\ e = dot + 1       -> Fail(r, e)
          [] exp /\ end = AfterE(e)            -> Fail(r, end)
          [] OTHER                             -> Emit(r, end)

\* The tail of jsonish::parse_number: an exponent, if there is one, and at
\* least one character all told.
LooseExponent(r, e) ==
    LET end == IF C(e) \in {"e", "E"} THEN Run(AfterE(e), Digits) ELSE e
    IN  CASE C(e) \in {"e", "E"} /\ end = AfterE(e) -> Fail(r, end)
          [] end = r.at                             -> Fail(r, end)
          [] OTHER                                  -> Emit(r, end)

LooseFraction(r, dot) ==
    LET e == Run(dot + 1, Digits) IN
    IF e = Last THEN Emit(r, e) ELSE LooseExponent(r, e)

\* jsonish after a zero: the next character picks the base and is skipped
\* whatever it is.
LooseBase(r, c) ==
    LET allowed == CASE C(c) = "x"          -> Digits \cup HexLetters
                     [] C(c) = "b"          -> {"0", "1"}
                     [] C(c) \in Digits \ {"8", "9"} -> Digits \ {"8", "9"}
                     [] OTHER               -> Digits
        end == Run(c + 1, allowed)
    IN  IF end = c + 1 THEN Fail(r, end) ELSE Emit(r, end)

LooseNumber(r) ==
    LET int == IF C(r.at) \in {"+", "-"} THEN r.at + 1 ELSE r.at
        dot == Run(int, Digits)
    IN  CASE C(int) = "0" /\ int + 1 = Last    -> Fail(r, int + 1)
          [] C(int) = "0" /\ C(int + 1) = "."  -> LooseFraction(r, int + 1)
          [] C(int) = "0"                      -> LooseBase(r, int + 1)
          [] dot = Last                        -> Emit(r, dot)
          [] C(dot) = "."                      -> LooseFraction(r, dot)
          [] OTHER                             -> LooseExponent(r, dot)

parse_number(p, r) == IF p = "jsonish" THEN LooseNumber(r) ELSE StrictNumber(r)

-----------------------------------------------------------------------------
(* Literals, strings and keys.                                             *)

parse_literal(r, word) ==
    LET end == r.at + Len(word) IN
    IF end > Last THEN [r EXCEPT !.how = "overrun"]
    ELSE IF SubSeq(text, r.at, end - 1) = word THEN Emit(r, end)
    ELSE Fail(r, r.at)

\* The characters up to the closing quote.  A backslash takes the next
\* character unseen - the terminator too, and then nothing stops the walk;
\* \u wants four letters.
RECURSIVE Characters(_, _)
Characters(r, i) ==
    IF i = Last \/ C(i) = "\"" THEN [r EXCEPT !.at = i]
    ELSE IF C(i) # "\\" THEN Characters(r, i + 1)
    ELSE IF i + 1 = Last THEN [r EXCEPT !.how = "wild"]
    ELSE IF C(i + 1) # "u" THEN Characters(r, i + 2)
    ELSE LET hex == Run(i + 2, HexLetters) IN
         IF hex < i + 6 THEN Fail(r, hex) ELSE Characters(r, i + 6)


\* The packet runs from quote to quote.
parse_quoted(r) ==
    LET open  == Expect(r, "\"")
        chars == IF open.how = "going" THEN Characters(open, open.at) ELSE open
        close == Expect(chars, "\"")
    IN  IF close.how = "going" THEN Emit(r, close.at) ELSE close

\* jsonish keys, and its strings without quotes.
parse_identifier(r) ==
    IF r.how # "going" THEN r
    ELSE IF C(r.at) \notin Letters THEN Fail(r, r.at)
    ELSE Emit(r, Run(r.at, Letters \cup Digits))

parse_key(p, r) ==
    IF r.how # "going" THEN r
    ELSE IF p = "jsonish" THEN parse_identifier(r)
    ELSE parse_quoted(r)

-----------------------------------------------------------------------------
(* Arrays, objects and values.                                             *)

RECURSIVE parse_value(_, _), Elements(_, _), Members(_, _)

Close(r) == Emit(r, r.at + 1)

\* Blanks are skipped in front of a comma and behind it, not in front of the
\* closing bracket.
Elements_SkipsComma(p, r) ==
    IF r.how # "going" THEN r
    ELSE IF C(r.at) = "]" THEN Close(r)
    ELSE LET comma == consume_whitespace(p, r) IN
         Elements(p, parse_value(p, consume_whitespace(p,
             IF C(comma.at) = "," THEN Expect(comma, ",") ELSE comma)))

Elements(p, r) ==
    IF r.how # "going" THEN r
    ELSE IF C(r.at) = "]" THEN Close(r)
    ELSE Elements(p, parse_value(p, consume_whitespace(p,
             Expect(consume_whitespace(p, r), ","))))

parse_array(p, r) ==
    LET open == consume_whitespace(p, Emit(r, r.at + 1)) IN
    IF C(open.at) = "]" THEN Close(open) ELSE Elements(p, parse_value(p, open))

Member(p, r) ==
    LET key == consume_whitespace(p, parse_key(p, r))
    IN  consume_whitespace(p, parse_value(p, consume_whitespace(p, Expect(key, ":"))))

Members(p, r) ==
    IF r.how # "going" THEN r
    ELSE IF C(r.at) = "}" THEN Close(r)
    ELSE Members(p, Member(p, consume_whitespace(p, Expect(r, ","))))

parse_object(p, r) ==
    LET open == consume_whitespace(p, Emit(r, r.at + 1)) IN
    IF C(open.at) = "}" THEN Close(open) ELSE Members(p, Member(p, open))

\* parse_value, and parse_unknown of the two personalities.
parse_value(p, r) ==
    LET c == C(r.at) IN
    CASE r.how # "going"                -> r
      [] c \in Digits \cup {"+", "-"}   -> parse_number(p, r)
      [] c = "\""                       -> parse_quoted(r)
      [] c = "t"  -> parse_literal(r, <<"t", "r", "u", "e">>)
      [] c = "f"  -> parse_literal(r, <<"f", "a", "l", "s", "e">>)
      [] c = "n"  -> parse_literal(r, <<"n", "u", "l", "l">>)
      [] c = "["                        -> parse_array(p, r)
      [] c = "{"                        -> parse_object(p, r)
      [] OTHER -> IF p = "jsonish" THEN parse_identifier(r) ELSE Fail(r, r.at)

\* event::parse returns where it stopped; whatever follows is the caller's.
parse(p) ==
    LET r == consume_whitespace(p, parse_value(p, consume_whitespace(p, Start)))
    IN  IF r.how = "going" THEN [r EXCEPT !.how = "done"] ELSE r

Complete(r) == r.how = "done" /\ r.at = Last

\* packet::type, from the first character alone; unhandled for any other.
type(packet) ==
    LET c == C(packet.first) IN
    CASE c = "{" -> "OBJECT_BEGIN"  [] c = "}" -> "OBJECT_END"
      [] c = "[" -> "ARRAY_BEGIN"   [] c = "]" -> "ARRAY_END"
      [] c = "\"" -> "STRING"       [] c = "n" -> "NONE"
      [] c \in {"t", "f"} -> "BOOLEAN"
      [] c \in Digits \cup {"+", "-"} -> "NUMBER"
      [] OTHER -> "UNHANDLED"

-----------------------------------------------------------------------------
(***************************************************************************)
(* The two JSON readers of the library over the same texts: the event      *)
(* parser above with its two personalities and the flat parser             *)
(* (JsonFlat).  A text grows by one character at a time, for as long as    *)
(* one of the three has not rejected it in front of its end.               *)
(***************************************************************************)

CONSTANTS Alphabets,    \* the sets of characters texts are made of
          MaxText       \* bound: the length of the texts of each alphabet

VARIABLE alphabet

Flat == INSTANCE JsonFlat

textVars == <<text, alphabet>>

TextInit == text = <<>> /\ alphabet \in Alphabets

strict == parse("rfc7159")
loose == parse("jsonish")

Viable(r) == (r.how = "done" /\ r.at = Last) \/ (r.how = "error" /\ r.at = Last)
                \/ r.how = "overrun"

Type(c) ==
    /\ Len(text) < MaxText[alphabet]
    /\ Viable(strict) \/ Viable(loose) \/ Flat!Machine(text).place # "error"
    /\ text' = Append(text, c)
    /\ UNCHANGED alphabet

TextNext == \E c \in alphabet : Type(c)

TextSpec == TextInit /\ [][TextNext]_textVars

-----------------------------------------------------------------------------
(* Properties.                                                             *)

\* Between two packets lie blanks, commas and colons, and comments.
Gap(p, lo, hi) ==
    \A i \in lo..(hi - 1) :
        \/ C(i) \in Blanks \cup {",", ":"}
        \/ p = "jsonish" /\ \E k \in lo..i :
               C(k) = "#" /\ \A m \in k..(i - 1) : C(m) # "\n"

\* How deep arrays and objects are nested after the first n packets.
Depth(out, n) ==
    LET Count(kinds) == Cardinality({i \in 1..n : type(out[i]) \in kinds})
    IN  Count({"ARRAY_BEGIN", "OBJECT_BEGIN"}) - Count({"ARRAY_END", "OBJECT_END"})

\* The packets of a parse come in order and do not overlap, with nothing but
\* separators between them, and their brackets nest.
Nested(p, r, n) ==
    /\ \A i \in 1..n : r.out[i].first < r.out[i].last
    /\ \A i \in 1..n : Gap(p, IF i = 1 THEN 1 ELSE r.out[i - 1].last, r.out[i].first)
    /\ r.how = "done" => n > 0 /\ Depth(r.out, n) = 0 /\ Gap(p, r.out[n].last, r.at)
    /\ \A i \in 1..(n - 1) : Depth(r.out, i) > 0
Reported(p, r) == Nested(p, r, Len(r.out))


-----------------------------------------------------------------------------
\* A backslash that is not escaped itself, and is not the last character.
Escaped(i) ==
    /\ C(i) = "\\" /\ i < Last
    /\ \E k \in 1..i :
          /\ (i - k) % 2 = 0 /\ (k = 1 \/ C(k - 1) # "\\")
          /\ \A m \in k..i : C(m) = "\\"

\* A zero that no fraction follows, digits in a \u escape, and blanks between
\* the last element of an array and its bracket.
BareZero(items) ==
    \E k \in DOMAIN items : items[k].tag \in {"INTEGER", "REAL"} /\
        LET i == items[k].first + (IF C(items[k].first) = "-" THEN 1 ELSE 0)
        IN  C(i) = "0" /\ C(i + 1) # "."
DigitEscape ==
    \E i \in DOMAIN text :
        Escaped(i) /\ C(i + 1) = "u" /\ \E j \in 2..5 : C(i + j) \in Digits
BlankBeforeBracket(items) ==
    \E k \in DOMAIN items \ {1} :
        /\ items[k].tag = "ARRAY_END" /\ items[k - 1].tag # "ARRAY_BEGIN"
        /\ items[k - 1].last < items[k].first
LooseEscape == \E i \in DOMAIN text : Escaped(i) /\ C(i + 1) \notin Flat!Escapes \cup {"u"}

\* The kind of an item in the words of packet::type.
Kind(tag) ==
    CASE tag \in {"INTEGER", "REAL"} -> "NUMBER" [] tag = "NUL" -> "NONE" [] OTHER -> tag

\* What the strict reader, the loose one and the flat machine, whose items are
\* taken or not, have made of one text.
Agree(s, l, items, accepted) ==
    /\ accepted =>
          (Complete(s) <=> ~(BareZero(items) \/ DigitEscape \/ BlankBeforeBracket(items)))
    /\ Complete(s) /\ accepted =>
          /\ Len(s.out) = Len(items)
          /\ \A k \in DOMAIN items :
                /\ s.out[k] = [first |-> items[k].first, last |-> items[k].last]
                /\ type(s.out[k]) = Kind(items[k].tag)
    /\ Complete(s) /\ ~accepted => LooseEscape
    /\ Complete(s) /\ (\A i \in DOMAIN text : text[i] # "{") => Complete(l) /\ l.out = s.out

\* The library reads a text the same way twice: what both parsers accept they
\* cut into the same tokens of the same kinds; the event parser turns down
\* JSON exactly for three reasons of its own, and takes what is no JSON only
\* for an escape it does not look at; and outside objects, whose keys jsonish
\* wants without quotes, jsonish takes whatever the strict personality takes,
\* packet for packet (base.cpp:93-100, 165-180, 218-223; flat.cpp.rl:76-121).
ReadersAgree == Agree(strict, loose, Flat!Machine(text).items, Flat!Accepts(text))
=============================================================================
