------------------------------ MODULE JsonTree ------------------------------
(***************************************************************************)
(* json::tree (src/json/tree.hpp, tree.cpp): values as a tree of nodes     *)
(* built from the items of the flat parser, compared, converted and        *)
(* written.  A node is a record of its type, a number's by representation, *)
(* and its value: an array's is a sequence of nodes, an object's a         *)
(* function from keys to nodes, a string's the characters between its      *)
(* quotes as they stand in the text, a real's twice the number it is.      *)
(***************************************************************************)
EXTENDS Integers, Sequences, SequencesExt

CONSTANTS Wide,         \* 2^64: the integers there are
          Narrow,       \* 2^32: the integers as<int32_t> and as<uint32_t> keep
          Exact,        \* 2^53: larger ones are doubles only if they are even
          KeyOrder      \* the keys in the order of std::string

Flat == INSTANCE JsonFlat

Null == [t |-> "null", datum |-> 0]
Boolean(b) == [t |-> "boolean", datum |-> b]
String(s) == [t |-> "string", datum |-> s]
Uint(n) == [t |-> "UINT", datum |-> n % Wide]
Sint(n) == [t |-> "SINT", datum |-> ((n + Wide \div 2) % Wide) - Wide \div 2]
Real(twice) == [t |-> "REAL", datum |-> twice]
Array(s) == [t |-> "array", datum |-> s]
Object(f) == [t |-> "object", datum |-> f]

\* An exception is what an access may return in the place of a node.
Exception(e) == [t |-> e, datum |-> 0]

Numbers == {"REAL", "SINT", "UINT"}
Keys(n) == SelectSeq(KeyOrder, LAMBDA k : k \in DOMAIN n.datum)

\* object::insert: a key that is there gets the new value.
Insert(f, key, node) ==
    [k \in DOMAIN f \cup {key} |-> IF k = key THEN node ELSE f[k]]

-----------------------------------------------------------------------------
(* Building a tree.  A parse returns the node and the item behind it.      *)

DigitOf(c) == CHOOSE d \in 0..9 : ToString(d) = c

\* The digits from position i on, as far as they go.
RECURSIVE Decimal(_, _, _)
Decimal(text, i, v) ==
    IF i > Len(text) \/ text[i] \notin Flat!Digits THEN v
    ELSE Decimal(text, i + 1, v * 10 + DigitOf(text[i]))

\* INTEGER: the digits and no further, so an exponent is dropped.  REAL: atof,
\* of texts that have one digit, 0 or 5, behind the point and no exponent.
NumberFrom(text, item) ==
    LET negative == text[item.first] = "-"
        start    == item.first + (IF negative THEN 1 ELSE 0)
        whole    == Decimal(text, start, 0)
        half     == IF text[item.last - 1] = "5" THEN 1 ELSE 0
    IN  CASE item.tag = "INTEGER" -> IF negative THEN Sint(-whole) ELSE Uint(whole)
          [] item.tag = "REAL" -> Real((IF negative THEN -1 ELSE 1) * (2 * whole + half))

RECURSIVE Build(_, _, _), BuildArray(_, _, _, _), BuildObject(_, _, _, _)

BuildArray(text, items, k, s) ==
    IF items[k].tag = "ARRAY_END" THEN [node |-> Array(s), next |-> k + 1]
    ELSE LET value == Build(text, items, k)
         IN  BuildArray(text, items, value.next, Append(s, value.node))

Unquoted(text, item) == SubSeq(text, item.first + 1, item.last - 2)

BuildObject_Keeps(text, items, k, f) ==
    IF items[k].tag = "OBJECT_END" THEN [node |-> Object(f), next |-> k + 1]
    ELSE LET value == Build(text, items, k + 1)
             key   == Unquoted(text, items[k])
         IN  BuildObject(text, items, value.next,
                 IF DOMAIN f # {} THEN f ELSE Insert(f, key, value.node))

BuildObject(text, items, k, f) ==
    IF items[k].tag = "OBJECT_END" THEN [node |-> Object(f), next |-> k + 1]
    ELSE LET value == Build(text, items, k + 1)
         IN  BuildObject(text, items, value.next,
                         Insert(f, Unquoted(text, items[k]), value.node))

Build(text, items, k) ==
    LET item == items[k]
        Leaf(n) == [node |-> n, next |-> k + 1]
    IN  CASE item.tag = "NUL" -> Leaf(Null)
          [] item.tag = "BOOLEAN" -> Leaf(Boolean(text[item.first] = "t"))
          [] item.tag = "STRING" -> Leaf(String(Unquoted(text, item)))
          [] item.tag \in {"INTEGER", "REAL"} -> Leaf(NumberFrom(text, item))
          [] item.tag = "ARRAY_BEGIN" -> BuildArray(text, items, k + 1, <<>>)
          [] item.tag = "OBJECT_BEGIN" -> BuildObject(text, items, k + 1, <<>>)

\* json::tree::parse of a text the flat parser accepts.
Parse(text) == Build(text, Flat!Machine(text).items, 1).node

-----------------------------------------------------------------------------
(* Writing.                                                                *)

\* util::indenter: what is written to it reaches the stream with a blank in
\* front of every line that is not empty, whatever the line is part of.
Indented(s) ==
    LET LineStart(i) == (i = 1 \/ s[i - 1] = "\n") /\ s[i] # "\n"
    IN  FlattenSeq([i \in 1..Len(s) |-> IF LineStart(i) THEN <<" ", s[i]>> ELSE <<s[i]>>])

RECURSIVE Figures(_)
Figures(n) == IF n < 10 THEN <<ToString(n)>> ELSE Figures(n \div 10) \o <<ToString(n % 10)>>

\* A real without a fraction is written without a point.
NumberText(n) ==
    LET size  == IF n.datum < 0 THEN -n.datum ELSE n.datum
        whole == IF n.t = "REAL" THEN size \div 2 ELSE size
        half  == n.t = "REAL" /\ size % 2 = 1
    IN  (IF n.datum < 0 THEN <<"-">> ELSE <<>>) \o Figures(whole)
        \o (IF half THEN <<".", "5">> ELSE <<>>)

Joined(parts) ==
    FlattenSeq([i \in 1..Len(parts) |->
        IF i < Len(parts) THEN parts[i] \o <<",", "\n">> ELSE parts[i]])

RECURSIVE Write(_)
WriteArray(n) ==
    <<"[", "\n">> \o Indented(Joined([i \in 1..Len(n.datum) |-> Write(n.datum[i])])) \o <<"\n", "]">>
WriteObject(n) ==
    LET Pair(k) == <<"\"">> \o k \o <<"\"", " ", ":", " ">> \o Write(n.datum[k])
    IN  <<"{", "\n">> \o Indented(Joined([i \in 1..Len(Keys(n)) |-> Pair(Keys(n)[i])])) \o <<"\n", "}">>
WriteString(n) == <<"\"">> \o n.datum \o <<"\"">>
WriteBoolean(n) == IF n.datum THEN <<"t", "r", "u", "e">> ELSE <<"f", "a", "l", "s", "e">>
Write(n) ==
    CASE n.t = "null" -> <<"n", "u", "l", "l">>
      [] n.t = "boolean" -> WriteBoolean(n)
      [] n.t = "string" -> WriteString(n)
      [] n.t \in Numbers -> NumberText(n)
      [] n.t = "array" -> WriteArray(n)
      [] n.t = "object" -> WriteObject(n)

-----------------------------------------------------------------------------
(* Comparing and converting.                                               *)

Shorter(s, t) == IF Len(s) < Len(t) THEN Len(s) ELSE Len(t)

\* operator==: nodes of one type, numbers of one representation; arrays and
\* objects are compared as far as the shorter one goes.
RECURSIVE Equal(_, _)

EqualItems_AnyOrder(a, b) ==
    \A i \in 1..Shorter(a, b) : \E j \in 1..Len(b) : Equal(a[i], b[j])

EqualItems(a, b) == \A i \in 1..Shorter(a, b) : Equal(a[i], b[i])

EqualEntries(a, b) ==
    \A i \in 1..Shorter(Keys(a), Keys(b)) :
        Keys(a)[i] = Keys(b)[i] /\ Equal(a.datum[Keys(a)[i]], b.datum[Keys(b)[i]])

EqualNumber(a, b) == a.t = b.t /\ a.datum = b.datum

Equal(a, b) ==
    CASE a.t \in Numbers -> EqualNumber(a, b)
      [] a.t # b.t -> FALSE
      [] a.t = "array" -> EqualItems(a.datum, b.datum)
      [] a.t = "object" -> EqualEntries(a, b)
      [] OTHER -> a.datum = b.datum

\* number::real, sint and uint.  A real is exact or throws.  Between the
\* integer types the test converts there and back, which always gives the
\* same number again, so it never throws.  A real that is no integer throws;
\* one out of the range of the integers is undefined, and not asked for here.
Throws == Exception("type_error")
Whole(n) == n.datum % 2 = 0
Convert_Clamps(n, to) ==
    CASE n.t = to -> n
      [] to = "REAL" -> Real(2 * n.datum)
      [] n.t = "REAL" -> IF Whole(n) THEN [t |-> to, datum |-> n.datum \div 2] ELSE Throws
      [] to = "SINT" -> IF n.datum >= Wide \div 2 THEN Sint(Wide \div 2 - 1) ELSE Sint(n.datum)
      [] to = "UINT" -> IF n.datum < 0 THEN Uint(0) ELSE Uint(n.datum)

Convert(n, to) ==
    CASE n.t = to -> n
      [] to = "REAL" -> IF n.datum \in -Exact..Exact \/ n.datum % 2 = 0 THEN Real(2 * n.datum)
                        ELSE Throws
      [] to = "SINT" /\ n.t = "REAL" -> IF Whole(n) THEN Sint(n.datum \div 2) ELSE Throws
      [] to = "UINT" /\ n.t = "REAL" -> IF Whole(n) THEN Uint(n.datum \div 2) ELSE Throws
      [] to = "SINT" -> Sint(n.datum)
      [] to = "UINT" -> Uint(n.datum)

-----------------------------------------------------------------------------
(* A node in the hands of a program.                                       *)

\* node::operator[] with a key, on any node, and object::operator[].
Entry(n, key) ==
    IF n.t # "object" THEN Throws
    ELSE IF key \in DOMAIN n.datum THEN n.datum[key] ELSE Exception("key_error")

\* array::operator[], from 0; beyond the end it is undefined, and not asked for.
Item(n, i) == IF n.t # "array" THEN Throws ELSE n.datum[i + 1]

has(n, key) == key \in DOMAIN n.datum

erase(n, key) ==
    IF ~has(n, key) THEN Exception("error")
    ELSE Object([k \in DOMAIN n.datum \ {key} |-> n.datum[k]])

\* array::clone, object::clone: every node is cloned and inserted again.
RECURSIVE Clone(_)
CloneArray(n) == FoldLeft(LAMBDA copy, i : Array(Append(copy.datum, Clone(i))), Array(<<>>), n.datum)
CloneObject(n) ==
    FoldLeft(LAMBDA copy, k : Object(Insert(copy.datum, k, Clone(n.datum[k]))), Object(<<>>), Keys(n))
Clone(n) == CASE n.t = "array" -> CloneArray(n) [] n.t = "object" -> CloneObject(n) [] OTHER -> n

\* as<T>: a number is converted to 64 bits and cut off at 32, a node of
\* another type than T's throws.
Signed32(v) == ((v + Narrow \div 2) % Narrow) - Narrow \div 2
as_number(n, repr) == IF n.t \in Numbers THEN Convert(n, repr) ELSE Throws
as(n, T) ==
    CASE T = "bool" -> IF n.t = "boolean" THEN n ELSE Throws
      [] T = "string" -> IF n.t = "string" THEN n ELSE Throws
      [] T = "double" -> as_number(n, "REAL")
      [] T = "uint32_t" -> LET m == as_number(n, "UINT") IN IF m = Throws THEN m ELSE Uint(m.datum % Narrow)
      [] T = "uint64_t" -> as_number(n, "UINT")
      [] T = "int32_t" -> LET m == as_number(n, "SINT") IN IF m = Throws THEN m ELSE Sint(Signed32(m.datum))
      [] T = "int64_t" -> as_number(n, "SINT")

\* to_json, io<T>::serialise: a signed integer stays one whatever its sign.
serialise(v, T) ==
    CASE T = "bool" -> Boolean(v)
      [] T = "nullptr_t" -> Null
      [] T = "string" -> String(v)
      [] T \in {"int32_t", "int64_t"} -> Sint(v)
      [] T \in {"uint32_t", "uint64_t"} -> Uint(v)
      [] T = "double" -> Real(v)

-----------------------------------------------------------------------------
(* Properties of a node, or of two.                                        *)

Twice(n) == IF n.t = "REAL" THEN n.datum ELSE 2 * n.datum

\* Two trees mean the same: they differ at most in how a number is kept.
RECURSIVE Same(_, _)
Same(a, b) ==
    CASE a.t \in Numbers -> b.t \in Numbers /\ Twice(a) = Twice(b)
      [] a.t # b.t -> FALSE
      [] a.t = "array" -> Len(a.datum) = Len(b.datum) /\ \A i \in 1..Len(a.datum) : Same(a.datum[i], b.datum[i])
      [] a.t = "object" -> DOMAIN a.datum = DOMAIN b.datum /\ \A k \in DOMAIN a.datum : Same(a.datum[k], b.datum[k])
      [] OTHER -> a.datum = b.datum

\* The strings, keys among them, a node holds.
RECURSIVE Strings(_)
Strings(n) ==
    CASE n.t = "string" -> {n.datum}
      [] n.t = "array" -> UNION {Strings(n.datum[i]) : i \in 1..Len(n.datum)}
      [] n.t = "object" -> DOMAIN n.datum \cup UNION {Strings(n.datum[k]) : k \in DOMAIN n.datum}
      [] OTHER -> {}

\* What is written is JSON, and it reads back as the same tree exactly when
\* no string inside an array or object has a line break, which the
\* indentation would follow into the string (tree.cpp:634-655, io.cpp:146-153).
RoundTrip(n) ==
    LET text == Write(n)
        Broken == n.t \in {"array", "object"} /\ \E s \in Strings(n) : "\n" \in {s[i] : i \in DOMAIN s}
    IN  Flat!Accepts(text) /\ (Same(n, Parse(text)) <=> ~Broken)

\* Two nodes have one shape: the same types, lengths and keys all the way down.
RECURSIVE Alike(_, _)
Alike(a, b) ==
    /\ a.t = b.t
    /\ a.t = "array" => Len(a.datum) = Len(b.datum) /\ \A i \in 1..Len(a.datum) : Alike(a.datum[i], b.datum[i])
    /\ a.t = "object" => DOMAIN a.datum = DOMAIN b.datum /\ \A k \in DOMAIN a.datum : Alike(a.datum[k], b.datum[k])

\* Although it looks no further than the shorter side, operator== is
\* symmetric, holds of every node and itself, and between nodes of one shape
\* holds only if they are the same: schemas and sets of items may rely on it
\* there and nowhere else (tree.cpp:544-560, 683-692; schema.cpp:159).
Comparison(a, b) ==
    /\ Equal(a, b) <=> Equal(b, a)
    /\ Equal(a, a)
    /\ Alike(a, b) /\ Equal(a, b) => Same(a, b)

\* A conversion that returns keeps the number where the target type has it,
\* and wraps where it has not (tree.cpp:868-925).
Conversions(n) ==
    n.t \in Numbers => \A to \in Numbers : LET m == Convert(n, to) IN
        m # Throws =>
            /\ Twice(m) % (2 * Wide) = Twice(n) % (2 * Wide)
            /\ Twice(n) \in 0..(Wide - 1) => Twice(m) = Twice(n)

\* A node a program reads, copies or edits: a clone is written, and equal,
\* like its original; what insert puts under a key is found there and erase
\* takes it out again, leaving the other entries; and what is neither there
\* nor of the type asked for is an exception and never another node
\* (tree.cpp:261-345, 480-500, 509-519, 549-626, 659-669).
Accessible(n) ==
    LET clone == Clone(n) IN
    /\ Alike(n, clone) /\ Equal(n, clone) /\ Write(clone) = Write(n)
    /\ n.t = "array" => \A i \in 1..Len(n.datum) : Item(n, i - 1) = n.datum[i]
    /\ \A i \in 1..Len(KeyOrder) : LET k == KeyOrder[i] IN
          IF n.t # "object" THEN Entry(n, k) = Throws
          ELSE LET put == Object(Insert(n.datum, k, n)) IN
               /\ Entry(put, k) = n /\ has(put, k) /\ ~has(erase(put, k), k)
               /\ \A j \in DOMAIN n.datum \ {k} : Entry(put, j) = Entry(n, j)
               /\ IF has(n, k) THEN Alike(erase(n, k), erase(put, k))
                  ELSE erase(n, k) = Exception("error") /\ Entry(n, k) = Exception("key_error")
                       /\ Same(erase(put, k), n)

\* What a program stores as a T it reads back as the same T, at once and
\* after the tree has been written and parsed, although the integers and
\* whole reals that return are of another representation then
\* (tree.cpp:376-452, 849-861, 880-946, 1022-1071).
Stored ==
    LET Values(T) ==
            CASE T = "bool" -> BOOLEAN
              [] T = "string" -> {<<>>, <<"a">>, <<"a", "\n">>}
              [] T = "double" -> {-3, 0, 1, 24}
              [] T = "uint32_t" -> 0..(Narrow - 1)
              [] T = "int32_t" -> -(Narrow \div 2)..(Narrow \div 2 - 1)
              [] T = "uint64_t" -> {0, 1, Wide \div 2, Wide - 1}
              [] T = "int64_t" -> {-(Wide \div 2), -1, 0, Wide \div 2 - 1}
    IN  \A T \in {"bool", "string", "double", "uint32_t", "int32_t", "uint64_t", "int64_t"} :
            \A v \in Values(T) : LET n == serialise(v, T) IN
                as(n, T).datum = v /\ as(Parse(Write(n)), T).datum = v
=============================================================================
