---------------------------- MODULE MCDocumented ----------------------------
(***************************************************************************)
(* A small instance for TLC of what comments of the library promise and    *)
(* the code does not keep: one case of every part, side by side.  Only the *)
(* threads of the log move.                                                *)
(***************************************************************************)
EXTENDS Integers, Sequences

VARIABLES document, outcome, saves, saturates,                  \* JsonDocument
          curve, at,                                            \* Curves
          kind, figure, meant, done,                            \* Numbers
          word, bits, ops,                                      \* Words
          box, area, reach, seen, moves, inner, visited,        \* Regions
          uri, uriGrammar, digits, digitsGrammar, calendar,     \* Parsers, twice
          task, objects, kernel, story                          \* System

Tree == INSTANCE JsonTree WITH Wide <- 256, Narrow <- 16, Exact <- 128, KeyOrder <- <<>>
Limit(keyword, n) == Tree!Object([k \in {<<keyword>>} |-> n])

\* Three, which is neither at most -2 nor a multiple of two.
Doc == INSTANCE JsonDocument WITH Wide <- 256, Narrow <- 16, Exact <- 128, KeyOrder <- <<>>,
    Documents <- <<Tree!Uint(3)>>, MaxSaves <- 0,
    Schemas <- <<Limit("maximum", Tree!Sint(-2)), Limit("multipleOf", Tree!Uint(2))>>

Line == INSTANCE Curves WITH Bends <- {<< <<0, 0>>, <<2, 1>> >>}, Targets <- {}, Cuts <- {}, Parts <- 1

\* Floats of six bits, of which the least positive one is looked at.
Floating == INSTANCE Numbers WITH Pairs <- {}, Amounts <- {}, IntBits <- 4, FracBits <- 4,
    ByteBits <- 4, Functions <- {}, Brackets <- {}, Tolerance <- 1, Samples <- {}, ExpBits <- 2,
    SigBits <- 3, Ulps <- {3}, MaxNumber <- 1, MaxSteps <- 0

\* A word of sixteen bits, for floats of two to six digits.
Register == INSTANCE Words WITH Givens <- {<<16, 0>>}, ByteBits <- 4, Widest <- 16, MaxOps <- 0

Area == INSTANCE Regions WITH Points <- {<<3, 5>>}, Boxes <- {[p |-> <<0, 0>>, e |-> <<1, 2>>]},
    Offsets <- {}, MaxSeen <- 1, MaxMoves <- 0

\* A scheme and an empty path; the digits of 19, and the views of them.
Uris == INSTANCE Parsers WITH Grammars <- {}, LastYear <- 1968, Clocks <- {}, Zones <- {},
    Fractions <- {}, input <- uri, grammar <- uriGrammar
Views == INSTANCE Parsers WITH Grammars <- {}, LastYear <- 1968, Clocks <- {}, Zones <- {},
    Fractions <- {}, input <- digits, grammar <- digitsGrammar

Messages == INSTANCE System WITH Objects <- {}, Descriptors <- 0, Pages <- 0, MaxPages <- 0,
    Lengths <- {}, CHUNK_SIZE <- 1, Period <- 1, MaxTime <- 0, MaxTests <- 0, Threads <- {1, 2},
    MaxLogs <- 3, Names <- {}

logVars == <<task, objects, kernel, story>>
still == <<document, outcome, saves, saturates, curve, at, kind, figure, meant, done, word, bits, ops,
           box, area, reach, seen, moves, inner, visited,
           uri, uriGrammar, digits, digitsGrammar, calendar>>

Init ==
    /\ Doc!DocumentInit /\ Line!CurveInit /\ Register!WordInit /\ Area!RegionInit
    /\ Floating!NumberInit /\ kind = "float" /\ figure = <<1>>
    /\ uri = <<"a", ":">> /\ uriGrammar = <<"uri", {"a", ":"}, 2>>
    /\ digits = <<"1", "9">> /\ digitsGrammar = <<"integer", {"1", "9"}, 2>>
    /\ calendar = Uris!NoDate
    /\ Messages!SystemInit /\ task = "log"

Next == Messages!SystemNext /\ UNCHANGED still

Spec == Init /\ [][Next]_<<still, logVars>>

(***************************************************************************)
(* At least one of nine comments is right about its case: that limits and  *)
(* multiples of numbers hold (schema.cpp:221, 233, 289), coefficients are  *)
(* in terms of t (bezier.hpp:40), floats are continuous around zero        *)
(* (float.cpp:141), a fraction has the full extent of the integers         *)
(* (maths.hpp:764-767), a shift is a fill by 0 and a noop by S             *)
(* (coord/ops.hpp:1238-1239), uris of rfc3986 are parsed (uri.hpp:30), an  *)
(* integer is taken from its view (parse.hpp:29-31), and the level that is *)
(* not set yet is the most verbose one (log.cpp:133-134).  It does not     *)
(* hold: every one of them is wrong at once.                               *)
(***************************************************************************)
SomeCommentHolds ==
    \/ Messages!LogComplete
    \/ Doc!LimitsHold
    \/ Doc!MultiplesHold
    \/ Line!ExpandsInT
    \/ Floating!ZerosContinuous
    \/ Register!FullExtent
    \/ Area!ShiftAsDocumented
    \/ Uris!TakesUris
    \/ Views!ParsesTheView
=============================================================================
