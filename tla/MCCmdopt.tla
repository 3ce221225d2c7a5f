------------------------------ MODULE MCCmdopt ------------------------------
(***************************************************************************)
(* Small instances of Cmdopt for TLC: parsers with up to three options of  *)
(* every kind, and every vector of up to MaxArgs arguments out of a set    *)
(* that has each form and each way a value can go wrong.  Vectors of three *)
(* use the forms that have something to do with their neighbours.          *)
(***************************************************************************)
EXTENDS Cmdopt

CONSTANTS MaxArgs, a, b, z

T(n, tail) == [n |-> n, tail |-> tail]

\* 0, 1; a number with a suffix; no number; nothing at all; too large a number.
MCTexts == {T(0, ""), T(1, ""), T(2, "k"), T(None, "yes"), T(None, ""), T(Top + 1, "")}

Words == {[form |-> "word", text |-> t] : t \in {T(1, ""), T(2, "k")}}
Marks == {[form |-> "stop"], [form |-> "dash"]}

MCArguments ==
    {[form |-> "short", keys |-> ks] : ks \in {<<a>>, <<b>>, <<a, b>>, <<b, Help>>}}
    \cup {[form |-> "long", key |-> k] : k \in {a, z, Help}}
    \cup {[form |-> "assign", key |-> b, text |-> t] : t \in MCTexts}
    \cup Words \cup Marks

Neighbours ==
    {[form |-> "short", keys |-> ks] : ks \in {<<a>>, <<a, b>>}}
    \cup {[form |-> "long", key |-> b]}
    \cup Words \cup Marks

MCArgs == UNION ({[1..n -> MCArguments] : n \in 0..2} \cup {[1..n -> Neighbours] : n \in 3..MaxArgs})

Adds(key, kind) == [call |-> "add", key |-> key, kind |-> kind]
Appends(kind) == [call |-> "append", kind |-> kind]
Requires(o) == [call |-> "required", option |-> o]

MCPrograms == {
    <<Adds(a, "null"), Requires(1), Adds(b, "value"), Appends("value")>>,
    <<Adds(a, "present"), Adds(b, "value"), Requires(2)>>,
    <<Adds(a, "count"), Adds(b, "bytes"), Appends("bool")>>,
    <<Adds(a, "present"), Requires(1), Adds(b, "bool"), Requires(2)>>,
    <<Adds(b, "bytes"), Adds(b, "null"), Requires(1)>>,
    <<Adds(Help, "null"), Adds(b, "count"), Appends("bytes")>> }
=============================================================================
