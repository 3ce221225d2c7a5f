----------------------------- MODULE MCLibrary -----------------------------
(***************************************************************************)
(* Small instances for TLC, in one run, of the parts of the library that   *)
(* work on values, of the two memory buffers, and of what is held of the   *)
(* system: program says which of them is looked at and never changes, and  *)
(* the variables of the others stay where they are.                        *)
(***************************************************************************)
EXTENDS System, Views, Regions, Codecs, Buffers, TLC

VARIABLES program,
          text, alphabet,                       \* JsonTexts
          document, outcome, saves, saturates,  \* JsonDocument
          chain, applied, pose, frame,          \* Transforms
          word, bits, ops,                      \* Words
          kind, figure, meant, done,            \* Numbers
          curve, at,                            \* Curves
          data, length,                         \* Hashes
          generator, seed, state, states, drawn,  \* Hashes, its generators
          input, grammar, calendar              \* Parsers

-----------------------------------------------------------------------------
(* Texts for the JSON parsers.                                             *)

Arrays == {"[", "]", "{", "}", ",", " ", "1"}
Quoted == {"{", "}", ":", ",", "\"", "1"}
Plain == {"{", "}", ":", ",", " ", "a"}
Figures == {"-", "+", "0", "1", ".", "e", "x", "b"}
Escapes == {"\"", "\\", "u", "a", "1", "n"}
Hex == {"\"", "\\", "u", "a"}
Words == {"t", "r", "u", "e", "[", "]", "#", "\n"}
LengthOf ==
    (Arrays :> 7) @@ (Quoted :> 7) @@ (Plain :> 8) @@ (Figures :> 4)
    @@ (Escapes :> 5) @@ (Hex :> 8) @@ (Words :> 6)

Texts == INSTANCE JsonTexts WITH Alphabets <- DOMAIN LengthOf, MaxText <- LengthOf

-----------------------------------------------------------------------------
(* Documents and schemas.                                                  *)

KeysInOrder == << <<>>, <<"a">>, <<"a", "\n">>, <<"a", "\n", " ">>, <<"b">> >>

Tree == INSTANCE JsonTree WITH Wide <- 256, Narrow <- 16, Exact <- 128, KeyOrder <- KeysInOrder

Obj(pairs) == Tree!Object([k \in {pairs[i][1] : i \in DOMAIN pairs} |->
    pairs[CHOOSE i \in DOMAIN pairs : pairs[i][1] = k][2]])
A(s) == Tree!Array(s)
U(n) == Tree!Uint(n)
S(n) == Tree!Sint(n)
R(n) == Tree!Real(n)
T(s) == Tree!String(s)
Word(w) == T(<<w>>)
a == <<"a">>
b == <<"b">>
a1 == <<"a", "\n">>

Scalars ==
    << Tree!Null, Tree!Boolean(TRUE), Tree!Boolean(FALSE), T(<<>>), T(a), T(<<"a", "\n", "b">>),
       U(0), U(2), U(12), U(129), U(255), S(-1), S(-3), S(-128), S(5), R(1), R(4), R(-3), R(24) >>
Lists ==
    << A(<<>>), A(<<T(a)>>), A(<<T(a), U(1)>>), A(<<U(1), T(a)>>), A(<<T(<<"a", "\n", "b">>)>>),
       A(<<A(<<>>), A(<<R(4)>>)>>), A(<<A(<<S(2)>>), A(<<>>)>>), A(<<Obj(<<>>)>>) >>
Compounds ==
    << Obj(<<>>), Obj(<< <<a, U(1)>> >>), Obj(<< <<b, U(1)>> >>),
       Obj(<< <<b, T(a)>>, <<a, U(1)>> >>), Obj(<< << <<>>, T(a)>>, <<a, A(<<T(a)>>)>> >>),
       Obj(<< << <<>>, T(a)>>, <<a, U(1)>> >>), Obj(<< <<a1, Tree!Null>> >>),
       Obj(<< <<a, Obj(<< <<b, A(<<T(a), U(1)>>)>> >>)>> >>) >>
AllDocuments == Scalars \o Lists \o Compounds

\* A schema is a tree whose keys are keywords.
K(w, n) == <<<<w>>, n>>
Schema1(w, n) == Obj(<<K(w, n)>>)
Type(w) == Schema1("type", Word(w))
HasDefault(n) == Schema1("default", n)
Properties(pairs) == K("properties", Obj(pairs))
Fills(k, n) == Obj(<<Properties(<< <<k, HasDefault(n)>> >>)>>)
AllSchemas ==
    << Obj(<<>>), Type("integer"), Type("number"), Type("object"),
       Schema1("type", A(<<Word("integer"), Word("string"), Word("null")>>)),
       Schema1("type", U(1)), Schema1("title", U(1)),
       Schema1("maximum", U(2)), Schema1("maximum", S(-2)), Schema1("maximum", R(4)),
       Schema1("minimum", U(2)), Schema1("minimum", S(-2)), Schema1("minimum", R(-3)),
       Obj(<<K("maximum", U(12)), K("exclusiveMaximum", Tree!Boolean(TRUE)), K("multipleOf", U(2))>>),
       Obj(<<K("minimum", S(-1)), K("exclusiveMinimum", Tree!Boolean(TRUE)), K("multipleOf", R(3))>>),
       Schema1("exclusiveMinimum", Tree!Boolean(TRUE)), Schema1("maxLength", T(a)),
       Obj(<<K("minLength", U(1)), K("maxLength", U(2)), K("pattern", T(a))>>),
       Schema1("enum", A(<<U(2), T(a), Obj(<<>>), A(<<>>)>>)),
       Obj(<<Properties(<< <<a, Type("integer")>>, <<b, HasDefault(U(1))>> >>),
             K("required", A(<<T(b)>>)), K("maxProperties", U(2))>>),
       Obj(<<Properties(<< <<a, Obj(<<K("type", Word("object")), K("default", Obj(<<>>)),
                                      Properties(<< <<b, HasDefault(T(a))>> >>)>>)>> >>)>>),
       Obj(<<Properties(<< <<a, Type("integer")>> >>), K("additionalProperties", Tree!Boolean(FALSE))>>),
       Obj(<<Properties(<< <<b, Type("string")>> >>), K("additionalProperties", Type("number"))>>),
       Obj(<<K("patternProperties", Obj(<< <<a, Type("integer")>> >>)), K("minProperties", U(1))>>),
       Obj(<<K("items", Type("string")), K("minItems", U(1)), K("maxItems", U(1))>>),
       Obj(<<K("items", A(<<Type("string")>>)), K("additionalItems", Tree!Boolean(FALSE))>>),
       Obj(<<K("items", A(<<Type("string")>>)), K("additionalItems", Type("number"))>>),
       Schema1("items", A(<<Type("string"), Type("integer")>>)),
       Obj(<<K("uniqueItems", Tree!Boolean(TRUE)), K("items", Fills(a, U(1)))>>),
       Schema1("allOf", A(<<Type("object"), Schema1("maxProperties", U(1))>>)),
       Schema1("allOf", A(<<Schema1("maxProperties", U(1)), Fills(a, U(1)), Fills(b, U(2))>>)),
       Schema1("anyOf", A(<<Obj(<<Properties(<< <<a, HasDefault(U(1))>> >>),
                                  K("required", A(<<T(b)>>))>>), Type("object")>>)),
       Schema1("anyOf", A(<<Type("integer"), Schema1("pattern", T(a))>>)),
       Schema1("oneOf", A(<<Type("number"), Type("integer"), Fills(b, U(1))>>)),
       Schema1("not", A(<<Type("string"), Obj(<<Properties(<< <<a, HasDefault(U(1))>> >>),
                                                K("maxProperties", U(1))>>)>>)),
       Schema1("not", Type("string")), Schema1("dependencies", Obj(<<>>)) >>

Doc == INSTANCE JsonDocument WITH Wide <- 256, Narrow <- 16, Exact <- 128, KeyOrder <- KeysInOrder,
    Documents <- AllDocuments, Schemas <- AllSchemas, MaxSaves <- 1

documentIdle == document = Tree!Null /\ outcome = "none" /\ saves = 0 /\ saturates = TRUE

-----------------------------------------------------------------------------
(* Regions of two and three dimensions.                                    *)

Spots == {<<0, 0>>, <<2, -1>>, <<-1, 1>>, <<1, 1>>, <<1, 0>>}
    \union {<<0, 0, 0>>, <<1, 1, 0>>, <<1, 2, 1>>, <<0, 1, -1>>}
Blocks == [p : {<<0, 0>>, <<1, -1>>, <<-1, 1>>}, e : {<<0, 0>>, <<1, 2>>, <<2, 1>>, <<3, 0>>}]
    \union [p : {<<0, 0, 0>>, <<1, 1, 0>>}, e : {<<0, 1, 0>>, <<1, 1, 2>>, <<2, 1, 1>>}]
Shifts == {<<1, -1>>, <<-1, 0>>, <<1, 0, -1>>}

regionsIdle ==
    /\ box = "idle" /\ area = "idle" /\ reach = "idle" /\ seen = {} /\ moves = 0
    /\ inner = "idle" /\ visited = <<>>

-----------------------------------------------------------------------------
(* Transforms.  The matrices are chosen with no zero, no symmetry and no   *)
(* common factor where they can be, so that a wrong term shows.            *)

Mat == INSTANCE Transforms WITH Starts <- {}, Matrices <- {}, Turns <- {}, Vectors3 <- {},
    Directions <- {}, Corners <- {}, MaxApplied <- 0

Two == << <<2, -1>>, <<3, 1>> >>
Three == << <<2, -1, 3>>, <<1, 4, -2>>, <<5, 2, 1>> >>
Four == << <<2, -1, 3, 1>>, <<1, 4, -2, 2>>, <<5, 2, 1, -3>>, <<-1, 3, 2, 4>> >>
FirstMatrices == {Mat!identity(4), Mat!identity(2), Two, Three, Four, << <<0, 1, 2>>, <<3, 0, 4>>, <<5, 6, 0>> >>}
NextMatrices ==
    {Mat!translation(<<1, -2, 3>>), Mat!scale(<<2, 1, -1>>), Mat!scale_all(2),
     Mat!rotation(0, 1, <<0, 1, 0>>), Mat!rotation(-1, 0, <<1, 0, 0>>), Mat!rotation(0, -1, <<0, 0, 1>>),
     Mat!look_at(<<1, 2, 3>>, <<1, 2, 0>>, <<0, 1, 0>>), Mat!ortho2D(<<0, 0>>, <<2, 1>>),
     Mat!perspective(1, 1, 1, 2), Three, << <<1, 1, 0>>, <<0, 1, 2>>, <<1, 0, 1>> >>,
     Two, << <<0, 1>>, <<1, 1>> >>, << <<0, 1, 0, 2>>, <<1, 0, -1, 0>>, <<2, 0, 1, 1>>, <<1, 1, 0, 0>> >>}
FirstTurns ==
    {Mat!Q(1, 1, 0, 0), Mat!Q(1, 0, -1, 0), Mat!Q(0, 0, 0, 1), Mat!Q(1, 1, 1, 1), Mat!Q(2, 1, 0, -1),
     Mat!angle_axis(0, 1, <<0, 1, 0>>), Mat!from_euler(<<1, 1, 0>>, <<0, 0, 1>>)}
Axes == {v \in [1..3 -> -1..1] : Mat!norm2(v) = 1}

Spins == INSTANCE Transforms WITH Starts <- FirstMatrices, Matrices <- NextMatrices,
    Turns <- FirstTurns, Vectors3 <- {<<1, 0, 0>>, <<0, 1, 0>>, <<2, -1, 3>>}, Directions <- Axes,
    Corners <- {<<0, 0, 0>>, <<-1, 2, 1>>}, MaxApplied <- 2

transformsIdle == chain = "idle" /\ applied = <<>> /\ pose = "idle" /\ frame = "idle"

-----------------------------------------------------------------------------
(* Words of 4, 8 and 16 bits, where a byte has four.                       *)

GivenWords ==
    {<<4, v>> : v \in 0 .. 15}
    \union {<<8, v>> : v \in {0, 1, 2, 3, 5, 12, 64, 128, 150, 200, 254, 255}}
    \union {<<16, v>> : v \in {1, 258, 32768, 40001}}

Registers == INSTANCE Words WITH Givens <- GivenWords, ByteBits <- 4, Widest <- 16, MaxOps <- 3

wordsIdle == word = "idle" /\ bits = "idle" /\ ops = 0

-----------------------------------------------------------------------------
(* Rationals, fixed point numbers of four and four bits, the searches for  *)
(* a root: functions of one, three and no roots in their bracket; sums, and *)
(* floats of six bits.                                                      *)

Fractions == {<<1, 2>>, <<-3, -2>>, <<8, 12>>, <<2, -3>>, <<0, 4>>, <<5, 1>>}
Polynomials ==
    {<<1, <<5>> >>, <<-1, <<0>> >>, <<1, <<2, 9, 30>> >>, <<-1, <<7, 40, 40>> >>, <<1, <<64>> >>,
     <<1, <<1, 33>> >>}

Sums == INSTANCE Numbers WITH Pairs <- Fractions, Amounts <- {-3, -1, 0, 2, 7},
    IntBits <- 4, FracBits <- 4, ByteBits <- 4, Functions <- Polynomials,
    Brackets <- {<<0, 64>>, <<32, 0>>, <<0, 32>>}, Tolerance <- 1, MaxNumber <- 60, MaxSteps <- 4,
    Samples <- {-1, 0, 7}, ExpBits <- 2, SigBits <- 3, Ulps <- {0, 1, 3}

numbersIdle == kind = "idle" /\ figure = "idle" /\ meant = "idle" /\ done = 0

-----------------------------------------------------------------------------
(* Curves over points with coincident, collinear and crossing ones.        *)

Dots == {<<0, 0>>, <<2, 1>>, <<-1, 3>>, <<1, -2>>, <<2, 0>>, <<2, 4>>}
Lines == {s \in Dots \X Dots : s[1] # s[2]}
Cubics == [1..4 -> {<<0, 0>>, <<2, 1>>, <<-1, 3>>}]

Bent == INSTANCE Curves WITH Bends <- Lines \union [1..3 -> Dots] \union Cubics, Targets <- Dots,
    Cuts <- Lines, Parts <- 4

curvesIdle == curve = "idle" /\ at = 0

-----------------------------------------------------------------------------
(* Digests of eight bits over bytes of four, and data of up to a hundred   *)
(* bytes for the digests that take blocks.                                 *)
(* Generators of four bits: lcgs of full period, a mwc64x and two          *)
(* xorshifts, run through the whole of their cycles.                       *)

Lcg(m, mul, plus) == [kind |-> "lcg", M |-> m, A |-> mul, C |-> plus]
Xorshift(x, y, z) == [kind |-> "xorshift", a |-> x, b |-> y, c |-> z]
GeneratorKinds ==
    {Lcg(0, 5, 3), Lcg(8, 5, 1), Lcg(6, 1, 2), [kind |-> "mwc64x", A |-> 11],
     Xorshift(1, 3, 2), Xorshift(2, 1, 1)}

Digests == INSTANCE Hashes WITH ByteBits <- 4, DigestBits <- 8, DataBytes <- {0, 1, 6, 13, 15},
    MaxData <- 3, Divisors <- {7, 213}, Initials <- {0, 35, 255}, Modulus <- 13, Prime <- 19,
    Bias <- 197, MaxLength <- 100,
    Bits <- 4, MaxDraws <- 24, Kinds <- GeneratorKinds, Seeds <- {0, 1, 5, 7, 12, 19, 33, 100},
    visited <- states

digestsIdle == data = <<>> /\ length = 0
generatorsIdle == generator = "idle" /\ seed = 0 /\ state = 0 /\ states = {} /\ drawn = 0

-----------------------------------------------------------------------------
(* Octets for the codecs: long enough for the bases to begin a second      *)
(* group, and bytes on either side of every limit of utf8.                 *)

OctetSources ==
    {<< {0, 255, 97}, 4>>, << {90, 165}, 9>>, << {188}, 13>>,
     << {127, 128, 143, 160, 191, 193, 194, 223, 224, 237, 240, 247, 248}, 3>>,
     << {128, 143, 190, 191, 239, 240, 247}, 4>>}

LimitCodepoints ==
    {0, 127, 128, 2047, 2048, 55295, 55296, 57343, 57344, 65533, 65534, 65535, 65536, 2097151}

codecsIdle == octets = <<>> /\ source = <<>>

-----------------------------------------------------------------------------
(* Texts for the parsers, and dates until past the century that has no     *)
(* leap year.                                                              *)

GivenGrammars ==
    {<<"version", {"0", "1", "9", ".", "b", "x"}, 4>>, <<"version", {"1", "."}, 9>>,
     <<"uri", {"a", "1", ":", "/", "?", "#", "@"}, 6>>, <<"integer", {" ", "-", "0", "1", "9"}, 5>>,
     <<"integer", {"+", "0", "1", "x", "a"}, 5>>}

Parsed == INSTANCE Parsers WITH Grammars <- GivenGrammars, LastYear <- 2101,
    Clocks <- {<<0, 0, 0>>, <<23, 59, 60>>}, Zones <- {<<0, 0, 0>>, <<1, 1, 30>>, <<-1, 23, 59>>},
    Fractions <- {<<0>>, <<5, 2>>, <<9, 0, 0, 1>>, <<1, 2, 3, 4, 5, 6, 7, 8, 9>>}

parsersIdle == input = <<>> /\ grammar = "idle" /\ calendar = "idle"

viewsIdle == walk = "idle" /\ subject = "idle" /\ place = "idle" /\ given = "idle"

systemIdle == task = "idle" /\ objects = "idle" /\ kernel = "idle" /\ story = "idle"

-----------------------------------------------------------------------------
textVars == <<text, alphabet>>
docVars == <<document, outcome, saves, saturates>>
transformVars == <<chain, applied, pose, frame>>
wordVars == <<word, bits, ops>>
numberVars == <<kind, figure, meant, done>>
curveVars == <<curve, at>>
digestVars == <<data, length>>
generatorVars == <<generator, seed, state, states, drawn>>
codecVars == <<octets, source>>
parserVars == <<input, grammar, calendar>>

textIdle == text = <<>> /\ alphabet = {}

MCInit ==
    /\ \/ program = "texts" /\ Texts!TextInit
       \/ program = "document" /\ Doc!DocumentInit
       \/ program = "regions" /\ RegionInit
       \/ program = "transforms" /\ Spins!TransformInit
       \/ program = "words" /\ Registers!WordInit
       \/ program = "numbers" /\ Sums!NumberInit
       \/ program = "curves" /\ Bent!CurveInit
       \/ program = "digests" /\ Digests!HashInit
       \/ program = "generators" /\ Digests!GeneratorInit
       \/ program = "codecs" /\ CodecInit
       \/ program = "parsers" /\ Parsed!ParserInit
       \/ program = "views" /\ ViewInit
       \/ program = "system" /\ SystemInit
       \/ program \in {"paged", "circular"}
    /\ Init /\ RingInit
    /\ program # "texts" => textIdle
    /\ program # "document" => documentIdle
    /\ program # "regions" => regionsIdle
    /\ program # "transforms" => transformsIdle
    /\ program # "words" => wordsIdle
    /\ program # "numbers" => numbersIdle
    /\ program # "curves" => curvesIdle
    /\ program # "digests" => digestsIdle
    /\ program # "generators" => generatorsIdle
    /\ program # "codecs" => codecsIdle
    /\ program # "parsers" => parsersIdle
    /\ program # "views" => viewsIdle
    /\ program # "system" => systemIdle

MCNext ==
    /\ UNCHANGED program
    /\ \/ program = "texts" /\ Texts!TextNext
       \/ program = "document" /\ Doc!DocumentNext
       \/ program = "regions" /\ RegionNext
       \/ program = "transforms" /\ Spins!TransformNext
       \/ program = "words" /\ Registers!WordNext
       \/ program = "numbers" /\ Sums!NumberNext
       \/ program = "curves" /\ Bent!CurveNext
       \/ program = "digests" /\ Digests!HashNext
       \/ program = "generators" /\ Digests!GeneratorNext
       \/ program = "codecs" /\ CodecNext
       \/ program = "parsers" /\ Parsed!ParserNext
       \/ program = "views" /\ ViewNext
       \/ program = "system" /\ SystemNext
       \/ program = "paged" /\ Next
       \/ program = "circular" /\ RingNext
    /\ program # "texts" => UNCHANGED textVars
    /\ program # "document" => UNCHANGED docVars
    /\ program # "regions" => UNCHANGED regionVars
    /\ program # "transforms" => UNCHANGED transformVars
    /\ program # "words" => UNCHANGED wordVars
    /\ program # "numbers" => UNCHANGED numberVars
    /\ program # "curves" => UNCHANGED curveVars
    /\ program # "digests" => UNCHANGED digestVars
    /\ program # "generators" => UNCHANGED generatorVars
    /\ program # "codecs" => UNCHANGED codecVars
    /\ program # "parsers" => UNCHANGED parserVars
    /\ program # "views" => UNCHANGED viewVars
    /\ program # "system" => UNCHANGED systemVars
    /\ program # "paged" => UNCHANGED vars
    /\ program # "circular" => UNCHANGED ringVars

allVars == <<program, textVars, docVars, regionVars, transformVars, wordVars, numberVars, curveVars,
             digestVars, generatorVars, codecVars, parserVars,
             viewVars, systemVars, vars, ringVars>>

MCSpec == MCInit /\ [][MCNext]_allVars

\* One part alone.
StreamSpec == (program = "system" /\ MCInit) /\ [][MCNext]_allVars
BufferSpec == (program = "paged" /\ MCInit) /\ [][MCNext]_allVars

(***************************************************************************)
(* What each part promises is stated in full in the module of the part.    *)
(***************************************************************************)
Of(p, Holds) == program = p => Holds


\* The two descents and the flat machine accept the same texts, but for the
\* differences named with the property (src/json2/, src/json/flat.cpp.rl).
ReadersAgree == Of("texts", Texts!ReadersAgree)

\* A document that is written and read again is what it was, but for what the
\* indenter does to strings (write of src/json/tree.cpp, src/io.cpp).
RoundTrip == Of("document", Doc!RoundTrip(document))

\* When the tree counts two documents as equal (operator== of src/json/tree.cpp).
Comparison == Of("document",
    \A i \in DOMAIN AllDocuments : Doc!Comparison(document, AllDocuments[i]))

\* What a node becomes in another type, what access to it gives or throws, and
\* what is stored by an edit (as_*, operator[], insert of src/json/tree.cpp).
Conversions == Of("document", Doc!Conversions(document) /\ Doc!Accessible(document) /\ Doc!Stored)

\* Validation changes a document by the defaults it puts in, and by nothing
\* else (validate of src/json/schema.cpp).
DefaultsOnly == Doc!DefaultsOnly

\* A document is accepted when all the keywords of its schema accept it
\* (validate of src/json/schema.cpp).
Verdict == Of("document", Doc!Verdict)

\* A number is accepted by a limit that is tested at all for its kind and sign
\* exactly if it is on the right side of it (validate_number of
\* src/json/schema.cpp).
LimitsKept == Of("document", Doc!LimitsKept)

\* A word is its bits whatever was done to it, numbers are what they mean, matrices
\* and quaternions that turn together agree, and a curve runs along the polynomial it
\* expands to, one way or the other (src/bitwise.hpp, src/maths.hpp, src/rational.cpp, src/fixed.cpp, src/stats.cpp,
\* src/float.cpp, src/matrix.cpp, src/quaternion.cpp, src/bezier.cpp).
ArithmeticSound ==
    /\ Of("words", Registers!WordsSound)
    /\ Of("numbers", Sums!NumbersSound)
    /\ Of("transforms", Spins!ChainsSound /\ Spins!PosesSound)
    /\ Of("curves", Bent!CurvesSound)

\* A crc is a remainder, a sum is weighted, and a block digest reads every byte
\* once and none behind the end: murmur3 of 128 bits for less than 32 bytes,
\* xxhash32 for less than 16 and from 64 on, xxhash64 for less than 8, the
\* others for every length (src/hash/).
DigestsSound == Of("digests", Digests!DigestsSound)

\* No generator repeats a state before the end of its cycle (src/rand/).
CyclesWhole == Of("generators", Digests!CyclesWhole)

\* Versions, uris, integers and dates are parsed as their texts say
\* (src/version.cpp.rl, src/uri.cpp.rl, src/parse.cpp, src/time/parse8601.cpp.rl).
ParsersSound == Of("parsers", Parsed!ParsersSound)
=============================================================================
