------------------------------ MODULE JsonFlat ------------------------------
(***************************************************************************)
(* json::flat::parse (src/json/flat.cpp.rl): the state machine ragel makes *)
(* of the grammar, as a function from a state and a character to a state.  *)
(* A state is the place in the grammar, what that place still has to see,  *)
(* the arrays and objects that are open (ragelstack), and the items found. *)
(* Inside strings, characters are not told apart beyond what ends them.    *)
(***************************************************************************)
EXTENDS Naturals, Sequences, SequencesExt

NonZero == {"1", "2", "3", "4", "5", "6", "7", "8", "9"}
Digits == NonZero \cup {"0"}
Hex == Digits \cup {"a", "b", "c", "d", "e", "f", "A", "B", "C", "D", "E", "F"}
Blanks == {" ", "\t", "\n", "\r"}
Escapes == {"\\", "\"", "/", "b", "f", "n", "r", "t"}
Exponent == {"e", "E"}

HexThen == [hex4 |-> "hex3", hex3 |-> "hex2", hex2 |-> "hex1", hex1 |-> "string"]

Words == [t |-> <<"t", "r", "u", "e">>, f |-> <<"f", "a", "l", "s", "e">>,
          n |-> <<"n", "u", "l", "l">>]

Start == [place |-> "value", rest |-> <<>>, open |-> <<>>, items |-> <<>>]
Error == [place |-> "error", rest |-> <<>>, open |-> <<>>, items |-> <<>>]

Go(m, place) == [m EXCEPT !.place = place]

\* The actions first and tag_*, last, and tag_real.
First(m, tag, i, place) ==
    [m EXCEPT !.place = place,
              !.items = Append(@, [tag |-> tag, first |-> i, last |-> i])]
End(m, i, place) ==
    [m EXCEPT !.place = place, !.items = [@ EXCEPT ![Len(@)].last = i]]
Real(m) == [m EXCEPT !.place = "point", !.items = [@ EXCEPT ![Len(@)].tag = "REAL"]]

Bracket(m, tag, i, open, place) ==
    [m EXCEPT !.place = place, !.open = open,
              !.items = Append(@, [tag |-> tag, first |-> i, last |-> i + 1])]

Inside(m) == IF m.open = <<>> THEN "document" ELSE m.open[Len(m.open)]

\* A value begins.
Begin(m, c, i) ==
    CASE c \in Blanks -> m
      [] c = "\"" -> [First(m, "STRING", i, "string") EXCEPT !.rest = <<"value">>]
      [] c = "-" -> First(m, "INTEGER", i, "minus")
      [] c = "0" -> First(m, "INTEGER", i, "zero")
      [] c \in NonZero -> First(m, "INTEGER", i, "int")
      [] c \in {"t", "f", "n"} ->
            [First(m, IF c = "n" THEN "NUL" ELSE "BOOLEAN", i, "word")
                EXCEPT !.rest = Tail(Words[c])]
      [] c = "[" -> Bracket(m, "ARRAY_BEGIN", i, Append(m.open, "array"), "array")
      [] c = "{" -> Bracket(m, "OBJECT_BEGIN", i, Append(m.open, "object"), "object")
      [] OTHER -> Error

Key(m, c, i) ==
    CASE c \in Blanks -> m
      [] c = "\"" -> [First(m, "STRING", i, "string") EXCEPT !.rest = <<"key">>]
      [] OTHER -> Error

\* A value has ended: a comma, a bracket that fits, or blanks.
After(m, c, i) ==
    CASE c \in Blanks -> Go(m, "after")
      [] c = "," /\ Inside(m) = "array" -> Go(m, "value")
      [] c = "," /\ Inside(m) = "object" -> Go(m, "key")
      [] c = "]" /\ Inside(m) = "array" -> Bracket(m, "ARRAY_END", i, Front(m.open), "after")
      [] c = "}" /\ Inside(m) = "object" -> Bracket(m, "OBJECT_END", i, Front(m.open), "after")
      [] OTHER -> Error

\* A number goes on to one of the places of a function from characters, or
\* it has ended in front of c.
Numeral(m, c, i) ==
    CASE m.place \in {"int", "frac", "exp"} /\ c \in Digits -> m
      [] m.place \in {"int", "zero"} /\ c = "." -> Real(m)
      [] m.place \in {"int", "zero", "frac"} /\ c \in Exponent -> Go(m, "e")
      [] OTHER -> After(End(m, i, "after"), c, i)

Numerals == {"zero", "int", "frac", "exp"}

\* The machine.
Step(m, c, i) ==
    CASE m.place = "value"  -> Begin(m, c, i)
      [] m.place = "array"  -> IF c = "]" THEN After(m, c, i) ELSE Begin(m, c, i)
      [] m.place = "object" -> IF c = "}" THEN After(m, c, i) ELSE Key(m, c, i)
      [] m.place = "key"    -> Key(m, c, i)
      [] m.place = "colon"  -> IF c \in Blanks THEN m
                               ELSE IF c = ":" THEN Go(m, "value") ELSE Error
      [] m.place = "after"  -> After(m, c, i)
      [] m.place = "string" ->
            (CASE c = "\\" -> Go(m, "escape")
               [] c = "\"" -> End(m, i + 1, IF m.rest = <<"key">> THEN "colon" ELSE "after")
               [] OTHER -> m)
      [] m.place = "escape" -> IF c = "u" THEN Go(m, "hex4")
                               ELSE IF c \in Escapes THEN Go(m, "string") ELSE Error
      [] m.place \in DOMAIN HexThen -> IF c \in Hex THEN Go(m, HexThen[m.place]) ELSE Error
      [] m.place = "word"   ->
            (IF c # Head(m.rest) THEN Error
             ELSE IF Len(m.rest) = 1 THEN End(m, i + 1, "after")
             ELSE [m EXCEPT !.rest = Tail(@)])
      [] m.place = "minus"  -> IF c = "0" THEN Go(m, "zero")
                               ELSE IF c \in NonZero THEN Go(m, "int") ELSE Error
      [] m.place = "point"  -> IF c \in Digits THEN Go(m, "frac") ELSE Error
      [] m.place = "e"      -> IF c \in Digits THEN Go(m, "exp")
                               ELSE IF c \in {"+", "-"} THEN Go(m, "sign") ELSE Error
      [] m.place = "sign"   -> IF c \in Digits THEN Go(m, "exp") ELSE Error
      [] m.place \in Numerals -> Numeral(m, c, i)
      [] OTHER -> Error

\* The machine run over a whole text, and what it makes of the end.
Machine(text) ==
    LET run[i \in 0..Len(text)] ==
            IF i = 0 THEN Start ELSE Step(run[i - 1], text[i], i)
        m == run[Len(text)]
    IN  IF m.place \in Numerals THEN End(m, Len(text) + 1, "after") ELSE m

Accepts(text) == LET m == Machine(text) IN m.place = "after" /\ m.open = <<>>
=============================================================================
