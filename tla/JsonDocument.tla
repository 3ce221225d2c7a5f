---------------------------- MODULE JsonDocument ----------------------------
(***************************************************************************)
(* json::schema::validate (src/json/schema.cpp): a document is walked      *)
(* along a schema, which is a tree too.  The walk changes the document: a  *)
(* property that is missing gets its default.  A walk returns the node as  *)
(* it left it and the exception that ended it, of which only a             *)
(* schema_error is caught on the way, by anyOf, oneOf and not.             *)
(***************************************************************************)
EXTENDS JsonTree

VARIABLE saturates  \* what the build makes of a double's maximum as an integer

OK(n) == [node |-> n, err |-> "none"]
Fail(n, e) == [node |-> n, err |-> e]
Check(n, holds) == IF holds THEN OK(n) ELSE Fail(n, "schema")

\* The next part of a walk, unless an exception has ended it.
Then(r, F(_)) == IF r.err = "none" THEN F(r.node) ELSE r
Each(F(_, _), n, s) == FoldLeft(LAMBDA r, x : Then(r, LAMBDA m : F(m, x)), OK(n), s)

Has(s, keyword) == <<keyword>> \in DOMAIN s.datum
At(s, keyword) == s.datum[<<keyword>>]

\* The part of a schema under a keyword, if there is one; as_object and the
\* like throw when the value has another type.
OfType(s, keyword, types) == At(s, keyword).t \in types
When(n, s, keyword, types, F(_)) ==
    IF ~Has(s, keyword) THEN OK(n)
    ELSE IF ~OfType(s, keyword, types) THEN Fail(n, "type") ELSE F(At(s, keyword))

\* A limit that is a number, as an unsigned integer.
Count(n, s, keyword, Holds(_)) ==
    When(n, s, keyword, Numbers, LAMBDA limit :
        LET c == Convert(limit, "UINT")
        IN  IF c = Throws THEN Fail(n, "type") ELSE Check(n, Holds(c.datum)))

Size(n) == IF n.t = "object" THEN Cardinality(DOMAIN n.datum) ELSE Len(n.datum)

\* std::regex_search, for patterns of ordinary characters.
Search(s, pattern) ==
    \E i \in 0..(Len(s) - Len(pattern)) : SubSeq(s, i + 1, i + Len(pattern)) = pattern

-----------------------------------------------------------------------------
(* Numbers.  A limit is compared in the type T of the value, and only if   *)
(* it passes a test against the largest or least T.                        *)

Signed(n) == Sint(n).datum
Unsigned(n) == Uint(n).datum

\* numeric_limits<T>::max () and min () cast to the representation of a limit.
\* The cast of a double's max () is undefined: compilers saturate it, or the
\* processor wraps it.  min () of a double is its least positive number.
Largest(T, repr) ==
    IF T = "REAL" /\ ~saturates THEN IF repr = "SINT" THEN -(Wide \div 2) ELSE 0
    ELSE LET max == IF T = "SINT" \/ (T = "REAL" /\ repr = "SINT")
                    THEN Wide \div 2 - 1 ELSE Wide - 1
         IN  IF repr = "SINT" THEN Signed(max) ELSE Unsigned(max)
Least(T, repr) ==
    IF T # "SINT" THEN 0
    ELSE IF repr = "SINT" THEN Signed(-(Wide \div 2)) ELSE Unsigned(-(Wide \div 2))

\* T(limit), doubled.
Cast(T, limit) ==
    CASE T = "REAL" -> 2 * limit.datum
      [] T = "SINT" -> 2 * Signed(limit.datum)
      [] T = "UINT" -> 2 * Unsigned(limit.datum)

Multiple(x, by) == Twice(by) # 0 /\ Twice(x) % Twice(IF by.datum < 0 THEN [by EXCEPT !.datum = -by.datum] ELSE by) = 0

AboveMaximum(x, limit, exclusive) ==
    IF limit.t = "REAL" THEN Twice(x) > limit.datum \/ (exclusive /\ Twice(x) = limit.datum)
    ELSE Largest(x.t, limit.t) >= limit.datum /\ Twice(x) >= Cast(x.t, limit)

BelowMinimum_NoCast(x, limit, exclusive) ==
    IF limit.t = "REAL" \/ limit.t = x.t THEN
        Twice(x) < Twice(limit) \/ (~exclusive /\ Twice(x) = Twice(limit))
    ELSE FALSE

BelowMinimum(x, limit, exclusive) ==
    IF limit.t = "REAL" THEN Twice(x) < limit.datum \/ (~exclusive /\ Twice(x) = limit.datum)
    ELSE IF exclusive THEN limit.datum > Least(x.t, limit.t) /\ Twice(x) < Cast(x.t, limit)
    ELSE limit.datum >= Least(x.t, limit.t) /\ Twice(x) <= Cast(x.t, limit)

\* The exclusive keyword is looked at if there is a limit, and is an error
\* if there is none.
Bound(n, s, keyword, exclusive, Broken(_, _)) ==
    IF ~Has(s, keyword) THEN Check(n, ~Has(s, exclusive))
    ELSE When(n, s, keyword, Numbers, LAMBDA limit :
        IF Has(s, exclusive) /\ At(s, exclusive).t # "boolean" THEN Fail(n, "type")
        ELSE Check(n, ~Broken(limit, Has(s, exclusive) /\ At(s, exclusive).datum)))

validate_number(n, s) ==
    LET multiple == When(n, s, "multipleOf", Numbers, LAMBDA by : Check(n, ~Multiple(n, by)))
        maximum(m) == Bound(m, s, "maximum", "exclusiveMaximum",
                            LAMBDA limit, ex : AboveMaximum(n, limit, ex))
        minimum(m) == Bound(m, s, "minimum", "exclusiveMinimum",
                            LAMBDA limit, ex : BelowMinimum(n, limit, ex))
    IN  Then(Then(multiple, maximum), minimum)

validate_string(n, s) ==
    LET longest  == Count(n, s, "maxLength", LAMBDA c : Len(n.datum) <= c)
        shortest(m) == Count(m, s, "minLength", LAMBDA c : Len(n.datum) >= c)
        pattern(m) == When(m, s, "pattern", {"string"}, LAMBDA p : Check(m, Search(n.datum, p.datum)))
    IN  Then(Then(longest, shortest), pattern)

-----------------------------------------------------------------------------
RECURSIVE Validate(_, _)

\* The member k of a node, validated in its place.
In(n, k, s) ==
    LET r == Validate(n.datum[k], s)
    IN  [node |-> [t |-> n.t, datum |-> [j \in DOMAIN n.datum |-> IF j = k THEN r.node ELSE n.datum[j]]],
         err |-> r.err]

Property_Always(n, k, s, whole) ==
    IF s.t = "object" /\ Has(s, "default")
    THEN In(Object(Insert(n.datum, k, At(s, "default"))), k, s)
    ELSE IF k \in DOMAIN n.datum THEN In(n, k, s) ELSE OK(n)

\* A property the schema names.  One that is missing gets its default; without
\* one, additionalProperties is taken to be about it, and if that is anything
\* but false the code goes on with an iterator at the end.
Property(n, k, s, whole) ==
    CASE k \in DOMAIN n.datum -> In(n, k, s)
      [] k \notin DOMAIN n.datum /\ s.t # "object" -> Fail(n, "type")
      [] k \notin DOMAIN n.datum /\ s.t = "object" ->
            IF Has(s, "default") THEN In(Object(Insert(n.datum, k, At(s, "default"))), k, s)
            ELSE IF ~Has(whole, "additionalProperties") THEN OK(n)
            ELSE IF At(whole, "additionalProperties").t = "boolean"
                    /\ ~At(whole, "additionalProperties").datum THEN Fail(n, "schema")
            ELSE Fail(n, "undefined")

validate_object_Early(n, s) ==
    LET named(m) == When(m, s, "properties", {"object"}, LAMBDA ps :
            Each(LAMBDA m1, k : Property(m1, k, ps.datum[k], s), m, Keys(ps)))
        most == Count(n, s, "maxProperties", LAMBDA c : Size(n) <= c)
        least(m) == Count(m, s, "minProperties", LAMBDA c : Size(m) >= c)
    IN  Then(Then(most, least), named)

\* The counts and required come after the defaults.
validate_object(n, s) ==
    LET named == When(n, s, "properties", {"object"}, LAMBDA ps :
            Each(LAMBDA m, k : Property(m, k, ps.datum[k], s), n, Keys(ps)))
        patterned(m) == When(m, s, "patternProperties", {"object"}, LAMBDA ps :
            Each(LAMBDA m1, p :
                Each(LAMBDA m2, k : In(m2, k, ps.datum[p]), m1,
                     SelectSeq(Keys(m1), LAMBDA k : Search(k, p))), m, Keys(ps)))
        dependencies(m) == IF Has(s, "dependencies") THEN Fail(m, "unimplemented") ELSE OK(m)
        most(m) == Count(m, s, "maxProperties", LAMBDA c : Size(m) <= c)
        least(m) == Count(m, s, "minProperties", LAMBDA c : Size(m) >= c)
        required(m) == When(m, s, "required", {"array"}, LAMBDA names :
            Each(LAMBDA m1, k : IF k.t = "string" THEN Check(m1, k.datum \in DOMAIN m1.datum)
                                ELSE Fail(m1, "type"), m, names.datum))
    IN  Then(Then(Then(Then(Then(named, patterned), dependencies), most), least), required)

Positions(lo, hi) == [i \in 1..(hi - lo + 1) |-> lo + i - 1]

\* A list of schemas is for as many elements; once every one of them has its
\* element, additionalItems is looked at, also if no element is left, and
\* also if there is no such keyword: again an iterator at the end.
Items(n, s, list) ==
    LET both == Shorter(n.datum, list)
        listed == Each(LAMBDA m, i : In(m, i, list[i]), n, Positions(1, both))
        rest(m) ==
            IF both < Len(list) THEN OK(m)
            ELSE IF ~Has(s, "additionalItems") THEN Fail(m, "undefined")
            ELSE LET more == At(s, "additionalItems") IN
                CASE more.t = "boolean" -> Check(m, more.datum)
                  [] more.t = "object" ->
                        Each(LAMBDA m1, i : In(m1, i, more), m, Positions(both + 1, Len(n.datum)))
                  [] OTHER -> Fail(m, "schema")
    IN  Then(listed, rest)

validate_array(n, s) ==
    LET items == IF ~Has(s, "items") THEN OK(n)
                 ELSE CASE At(s, "items").t = "object" ->
                            Each(LAMBDA m, i : In(m, i, At(s, "items")), n, Positions(1, Len(n.datum)))
                        [] At(s, "items").t = "array" -> Items(n, s, At(s, "items").datum)
                        [] OTHER -> OK(n)
        most(m) == Count(m, s, "maxItems", LAMBDA c : Len(m.datum) <= c)
        least(m) == Count(m, s, "minItems", LAMBDA c : Len(m.datum) >= c)
        unique(m) == When(m, s, "uniqueItems", {"boolean"}, LAMBDA wanted :
            Check(m, wanted.datum => \A i, j \in 1..Len(m.datum) : i < j => ~Equal(m.datum[i], m.datum[j])))
    IN  Then(Then(Then(items, most), least), unique)

-----------------------------------------------------------------------------
\* to_string of a type, which does not know of integers, and is_type_valid,
\* which does.
Name(n) == IF n.t \in Numbers THEN "number" ELSE n.t
IsType(n, name) == name = <<Name(n)>> \/ (name = <<"integer">> /\ n.t \in {"SINT", "UINT"})

Typed(n, type) ==
    CASE type.t = "string" -> Check(n, IsType(n, type.datum))
      [] type.t = "array" ->
            LET at == SelectInSeq(type.datum, LAMBDA x : x.t # "string" \/ x.datum = <<Name(n)>>)
            IN  IF at > 0 /\ type.datum[at].t # "string" THEN Fail(n, "type") ELSE Check(n, at > 0)
      [] OTHER -> Fail(n, "schema")

\* The node against one schema after the other: how many it passed when that
\* is more than limit, or all have been tried.  What the failed ones have
\* changed stays.
Attempts(n, schemas, limit) ==
    FoldLeft(LAMBDA r, s :
        IF r.err # "none" \/ r.passed > limit THEN r
        ELSE LET v == Validate(r.node, s) IN
            CASE v.err = "none" -> [node |-> v.node, err |-> "none", passed |-> r.passed + 1]
              [] v.err = "schema" -> [r EXCEPT !.node = v.node]
              [] OTHER -> [r EXCEPT !.node = v.node, !.err = v.err],
        [node |-> n, err |-> "none", passed |-> 0], schemas)

Tried(n, schemas, limit, Holds(_)) ==
    LET a == Attempts(n, schemas, limit)
    IN  IF a.err # "none" THEN Fail(a.node, a.err) ELSE Check(a.node, Holds(a.passed))

Validate(n, s) ==
    LET listed == When(n, s, "enum", {"array"}, LAMBDA values :
            Check(n, \E i \in 1..Len(values.datum) : Equal(values.datum[i], n)))
        typed(m) == IF Has(s, "type") THEN Typed(m, At(s, "type")) ELSE OK(m)
        all(m) == When(m, s, "allOf", {"array"}, LAMBDA ss : Each(Validate, m, ss.datum))
        any(m) == When(m, s, "anyOf", {"array"}, LAMBDA ss :
                        Tried(m, ss.datum, 0, LAMBDA passed : passed > 0))
        one(m) == When(m, s, "oneOf", {"array"}, LAMBDA ss :
                        Tried(m, ss.datum, 1, LAMBDA passed : passed = 1))
        none(m) == When(m, s, "not", {"array"}, LAMBDA ss :
                        Tried(m, ss.datum, 0, LAMBDA passed : passed = 0))
        kind(m) == CASE m.t = "object" -> validate_object(m, s)
                     [] m.t = "array" -> validate_array(m, s)
                     [] m.t = "string" -> validate_string(m, s)
                     [] m.t \in Numbers -> validate_number(m, s)
                     [] OTHER -> OK(m)
    IN  IF s.t # "object" THEN Fail(n, "type")
        ELSE Then(Then(Then(Then(Then(Then(listed, typed), all), any), one), none), kind)

\* json::schema::validate
validate(n, s) ==
    LET Titled(keyword) == Has(s, keyword) => At(s, keyword).t = "string"
    IN  IF Titled("title") /\ Titled("description") THEN Validate(n, s) ELSE Fail(n, "schema")

-----------------------------------------------------------------------------
(***************************************************************************)
(* A document in memory, as a program keeps one that is a json::tree: it   *)
(* is validated against a schema, which may fill in defaults               *)
(* (validate, above), and it is saved and loaded again (JsonTree).         *)
(***************************************************************************)

CONSTANTS Documents,    \* sequence of the trees a document starts as
          Schemas,      \* sequence of the schemas there are
          MaxSaves      \* bound: how often the document is saved

VARIABLES document, outcome, saves

documentVars == <<document, outcome, saves, saturates>>

DocumentInit ==
    /\ \E i \in DOMAIN Documents : document = Documents[i]
    /\ outcome = "none" /\ saves = 0 /\ saturates \in BOOLEAN

\* json::schema::validate.  After undefined behaviour nothing is promised.
ValidateWith(s) ==
    LET r == validate(document, s) IN
    /\ outcome # "undefined"
    /\ document' = r.node /\ outcome' = r.err
    /\ UNCHANGED <<saves, saturates>>

\* json::write, and json::tree::parse of what was written.
Reload ==
    /\ outcome # "undefined" /\ saves < MaxSaves
    /\ document' = Parse(Write(document)) /\ saves' = saves + 1
    /\ UNCHANGED <<outcome, saturates>>

DocumentNext == Reload \/ \E i \in DOMAIN Schemas : ValidateWith(Schemas[i])

DocumentSpec == DocumentInit /\ [][DocumentNext]_documentVars

-----------------------------------------------------------------------------
(* What a schema says.                                                     *)

\* A keyword whose value has a type Draft 4 does not want there; a list of
\* types, in which the code does not know integers; a list of items.
Misused(s) ==
    \/ \E w \in {"type", "title", "description", "pattern"} : Has(s, w) /\ At(s, w).t # "string"
    \/ Has(s, "items") /\ At(s, "items").t # "object"
    \/ \E w \in {"maxLength", "minLength", "maxItems", "minItems", "maxProperties", "minProperties"} :
          Has(s, w) /\ At(s, w).t # "UINT"

\* The keywords of a schema and of the schemas in it, and the properties they
\* have a default for.
RECURSIVE Keywords(_), Defaulted(_)
Keywords(s) ==
    CASE s.t = "object" -> DOMAIN s.datum \cup UNION {Keywords(s.datum[k]) : k \in DOMAIN s.datum}
                               \cup (IF Misused(s) THEN {<<"misused">>} ELSE {})
      [] s.t = "array" -> UNION {Keywords(s.datum[i]) : i \in 1..Len(s.datum)}
      [] OTHER -> {}
Defaulted(s) ==
    CASE s.t = "object" ->
            UNION {Defaulted(s.datum[k]) : k \in DOMAIN s.datum} \cup
            (IF Has(s, "properties")
             THEN {k \in DOMAIN At(s, "properties").datum : Has(At(s, "properties").datum[k], "default")}
             ELSE {})
      [] s.t = "array" -> UNION {Defaulted(s.datum[i]) : i \in 1..Len(s.datum)}
      [] OTHER -> {}

Uses(s, words) == \E w \in words : <<w>> \in Keywords(s)

\* The keywords the code gives the meaning of Draft 4, which Meets states.
\* Not among them: enum and uniqueItems, which compare with Equal;
\* multipleOf, minimum and maximum; not, which wants a list; dependencies;
\* additionalProperties and lists of items, whose rest goes astray.
Undependable == {"enum", "uniqueItems", "multipleOf", "minimum", "maximum", "exclusiveMinimum",
    "exclusiveMaximum", "oneOf", "not", "misused", "dependencies", "additionalProperties",
    "additionalItems"}

RECURSIVE Meets(_, _)
Meets(n, s) ==
    LET Says(keyword, Holds(_)) == Has(s, keyword) => Holds(At(s, keyword).datum) IN
    /\ Has(s, "type") => IsType(n, At(s, "type").datum)
    /\ Says("allOf", LAMBDA ss : \A i \in DOMAIN ss : Meets(n, ss[i]))
    /\ Says("anyOf", LAMBDA ss : \E i \in DOMAIN ss : Meets(n, ss[i]))
    /\ n.t = "object" =>
          /\ Says("properties", LAMBDA ps :
                \A k \in DOMAIN n.datum \cap DOMAIN ps : Meets(n.datum[k], ps[k]))
          /\ Says("patternProperties", LAMBDA ps :
                \A k \in DOMAIN n.datum, p \in DOMAIN ps : Search(k, p) => Meets(n.datum[k], ps[p]))
          /\ Says("required", LAMBDA names : \A i \in DOMAIN names : names[i].datum \in DOMAIN n.datum)
          /\ Says("maxProperties", LAMBDA c : Size(n) <= c)
          /\ Says("minProperties", LAMBDA c : Size(n) >= c)
    /\ n.t = "array" =>
          /\ Says("items", LAMBDA ps : \A i \in DOMAIN n.datum : Meets(n.datum[i], At(s, "items")))
          /\ Says("maxItems", LAMBDA c : Len(n.datum) <= c)
          /\ Says("minItems", LAMBDA c : Len(n.datum) >= c)
    /\ n.t = "string" =>
          /\ Says("maxLength", LAMBDA c : Len(n.datum) <= c)
          /\ Says("minLength", LAMBDA c : Len(n.datum) >= c)
          /\ Says("pattern", LAMBDA p : Search(n.datum, p))

-----------------------------------------------------------------------------
(* Properties.                                                             *)

\* A document after it was walked along a schema: what was there is there.
RECURSIVE Grown(_, _, _)
Grown(a, b, names) ==
    /\ a.t = b.t
    /\ CASE a.t = "object" ->
                /\ DOMAIN a.datum \subseteq DOMAIN b.datum
                /\ DOMAIN b.datum \ DOMAIN a.datum \subseteq names
                /\ \A k \in DOMAIN a.datum : Grown(a.datum[k], b.datum[k], names)
         [] a.t = "array" ->
                Len(a.datum) = Len(b.datum) /\ \A i \in 1..Len(a.datum) : Grown(a.datum[i], b.datum[i], names)
         [] OTHER -> a.datum = b.datum

\* However validation ends, and whatever alternatives it tried on the way, it
\* only ever adds properties that the schema has a default for
\* (schema.cpp:63-84, 444-480).
DefaultsOnly ==
    [][document' # document /\ saves' = saves =>
          \E i \in DOMAIN Schemas :
              ValidateWith(Schemas[i]) /\ Grown(document, document', Defaulted(Schemas[i]))]_documentVars

\* Where it adds nothing, it accepts exactly what meets the schema, for the
\* keywords that are dependable; and where no two schemas can be about one
\* node, what it has accepted and filled in it accepts again as it is
\* (schema.cpp:53-215, 407-500).
Verdict ==
    \A i \in DOMAIN Schemas : LET s == Schemas[i]  r == validate(document, s) IN
        /\ ~Uses(s, Undependable) /\ r.node = document =>
              r.err = (IF Meets(document, s) THEN "none" ELSE "schema")
        /\ r.err = "none" /\ ~Uses(s, {"enum", "allOf", "anyOf", "oneOf", "not", "patternProperties"}) =>
              validate(r.node, s) = r

\* An integer limit that lets a value of the other sign pass: a minimum is not
\* tested if it is negative and the value is unsigned or real, or if it is not
\* and the value is signed; a signed maximum is tested as an unsigned number
\* against an unsigned value, and against a real one not at all if the build
\* wraps the largest double.
Untested(x, limit, keyword) ==
    /\ limit.t # "REAL"
    /\ IF keyword = "minimum" THEN
          \/ x.t # "SINT" /\ limit.datum < 0
          \/ x.t = "SINT" /\ limit.t = "UINT" /\ limit.datum < Wide \div 2
       ELSE
          \/ x.t = "UINT" /\ limit.t = "SINT" /\ (limit.datum < 0 => x.datum < Wide + limit.datum)
          \/ x.t = "REAL" /\ ~saturates

Within(x, limit, keyword) ==
    IF keyword = "maximum" THEN Twice(x) < Twice(limit) ELSE Twice(x) > Twice(limit)

\* What holds of the document, a number, and each limit that is all of a schema.
EachLimit(Holds(_, _, _)) ==
    document.t \in Numbers =>
        \A i \in DOMAIN Schemas, keyword \in {"maximum", "minimum"} : LET s == Schemas[i] IN
            DOMAIN s.datum = {<<keyword>>} =>
                Holds(validate(document, s).err = "none", At(s, keyword), keyword)

\* A limit that is tested at all is passed by the numbers on the right side of
\* it and by no others.  An integer limit is not itself passed
\* (test/json/schema/signed_min, unsigned_max); of a real one this does not say
\* (schema.cpp:233-343).
LimitsKept ==
    EachLimit(LAMBDA accepted, limit, keyword :
        ~Untested(document, limit, keyword) /\ (limit.t = "REAL" => Twice(document) # Twice(limit)) =>
            (accepted <=> Within(document, limit, keyword)))

\* No number that is accepted is on the wrong side of a limit: "check maximum
\* holds" (schema.cpp:233), "check minimum holds" (:289).  It does not hold:
\* the casts leave limits untested, and -1 passes a minimum of 2.
LimitsHold ==
    EachLimit(LAMBDA accepted, limit, keyword :
        accepted => Within(document, limit, keyword) \/ Twice(document) = Twice(limit))

\* A number that is accepted under multipleOf is a "strictly positive integer
\* multiple" (schema.cpp:221).  It does not hold: it is the multiples that the
\* code refuses.
MultiplesHold ==
    document.t \in Numbers =>
        \A i \in DOMAIN Schemas : LET s == Schemas[i] IN
            DOMAIN s.datum = {<<"multipleOf">>} /\ validate(document, s).err = "none" =>
                Multiple(document, At(s, "multipleOf"))
=============================================================================
