------------------------------- MODULE Cmdopt -------------------------------
(***************************************************************************)
(* util::cmdopt (src/cmdopt.hpp, cmdopt.ipp, cmdopt.cpp): the program      *)
(* registers options with a parser and has it scan its arguments, any      *)
(* number of times; each option writes to a variable of the program.       *)
(*                                                                         *)
(* What is told apart of an argument is whether it starts with one or two  *)
(* dashes, the letters or the name behind them and what follows a `='.  A  *)
(* text is the number it starts with, if it does, and what comes after it. *)
(* Texts do not start with a dash.  An option is known by its place in     *)
(* m_options; the letter and the long name it is added with are one key.   *)
(***************************************************************************)
EXTENDS Naturals, Sequences, FiniteSets

CONSTANTS
    Keys,       \* what the arguments may name
    Programs,   \* sequences of calls that set a parser up
    Args,       \* argument vectors, without the name of the program
    Top,        \* the largest number a variable holds
    Kilo,       \* what the suffix k multiplies with
    Help,       \* the key of -h and --help
    None,       \* no number at the front of a text
    NoText      \* execute (void)

Kinds == {"null", "present", "value", "bool", "count", "bytes"}

Registrations ==
    [call : {"add"}, key : Keys, kind : Kinds]
    \cup [call : {"append"}, kind : Kinds]
    \cup [call : {"required"}, option : Nat]

\* "k" stands for the suffixes, "yes" and "no" for the words that mean them.
Tails == {"", "k", "yes", "no", "other"}
Texts == [n : Nat \cup {None}, tail : Tails]

Arguments ==
    [form : {"short"}, keys : Seq(Keys) \ {<<>>}]
    \cup [form : {"long"}, key : Keys]
    \cup [form : {"assign"}, key : Keys, text : Texts]
    \cup [form : {"word"}, text : Texts]
    \cup [form : {"stop", "dash"}]

ASSUME CmdoptAssumption ==
    /\ Programs \subseteq Seq(Registrations) /\ Args \subseteq Seq(Arguments)
    /\ Top \in Nat \ {0} /\ Kilo \in Nat
    /\ None \notin Nat /\ NoText \notin Texts

VARIABLES
    program,    \* the calls still to come
    options,    \* m_options, each with its m_required, m_seen and m_data
    named,      \* m_short and m_long
    positional, \* m_positional
    phase,      \* where scan is
    argv,
    i,          \* the argument scan has got to
    cursor,     \* the variable of the loop inside of that
    outcome,    \* how the scan ended
    calls,      \* history: the calls of execute in this scan, in their order
    before      \* history: the options when it started

registry == <<program, named, positional>>
vars == <<program, options, named, positional, phase, argv, i, cursor, outcome,
          calls, before>>

Init ==
    /\ program \in Programs
    /\ options = <<>> /\ named = <<>> /\ positional = <<>>
    /\ phase = "idle" /\ argv = <<>> /\ i = 1 /\ cursor = 1
    /\ outcome = "none" /\ calls = <<>> /\ before = <<>>

-----------------------------------------------------------------------------
(* Setting the parser up.                                                  *)

Option(kind) ==
    [kind |-> kind, required |-> FALSE, seen |-> FALSE, data |-> 0]

Called(call) ==
    /\ phase = "idle" /\ program # <<>> /\ Head(program).call = call
    /\ program' = Tail(program)
    /\ UNCHANGED <<phase, argv, i, cursor, outcome, calls, before>>

Add ==
    /\ Called("add")
    /\ named' = Append(named, [key |-> Head(program).key, option |-> Len(options) + 1])
    /\ options' = Append(options, Option(Head(program).kind))
    /\ UNCHANGED positional

AppendPositional ==
    /\ Called("append")
    /\ positional' = Append(positional, Len(options) + 1)
    /\ options' = Append(options, Option(Head(program).kind))
    /\ UNCHANGED named

Require ==
    /\ Called("required")
    /\ options' = [options EXCEPT ![Head(program).option].required = TRUE]
    /\ UNCHANGED <<named, positional>>

-----------------------------------------------------------------------------
(* execute of each kind of option: what becomes of m_data and m_seen, and  *)
(* what is thrown, if anything.                                            *)

Done(data) == [data |-> data, seen |-> TRUE, error |-> "none"]
Unmarked(o, data) == [data |-> data, seen |-> o.seen, error |-> "none"]
Refused(o, data, error) == [data |-> data, seen |-> o.seen, error |-> error]

Bit(b) == IF b THEN 1 ELSE 0
Capped(n) == IF n > Top THEN Top ELSE n

True(t) == t \in {[n |-> None, tail |-> "yes"], [n |-> 1, tail |-> ""]}
False(t) == t \in {[n |-> None, tail |-> "no"], [n |-> 0, tail |-> ""]}

Execute_null(o, t) == Done(o.data)

Execute_present(o, t) ==
    IF t = NoText THEN Done(o.data) ELSE Refused(o, o.data, "invalid_value")

\* A stream that fails has stored 0 or the largest number by then, except for
\* the empty text; what follows a number is of no interest to it.
Execute_value(o, t) ==
    CASE t = NoText -> Refused(o, o.data, "invalid_null")
      [] t # NoText /\ t.n = None ->
           Refused(o, IF t.tail = "" THEN o.data ELSE 0, "invalid_value")
      [] t # NoText /\ t.n # None ->
           IF t.n > Top THEN Refused(o, Top, "invalid_value") ELSE Done(t.n)

\* Both of the ways out that set m_data return in front of seen (true).
Execute_bool(o, t) ==
    CASE t = NoText -> Refused(o, o.data, "invalid_null")
      [] t # NoText /\ (True(t) \/ False(t)) -> Unmarked(o, Bit(True(t)))
      [] t # NoText /\ ~True(t) /\ ~False(t) -> Refused(o, o.data, "invalid_value")

Execute_count_Sticks(o, t) ==
    IF t = NoText THEN Done(Capped(o.data + 1)) ELSE Execute_value(o, t)

Execute_count(o, t) ==
    IF t = NoText THEN Done((o.data + 1) % (Top + 1)) ELSE Execute_value(o, t)

\* strtoul saturates, the product wraps around; seen (true) is not called.
Execute_bytes(o, t) ==
    CASE t = NoText -> Refused(o, o.data, "invalid_null")
      [] t # NoText /\ (t.n = None \/ t.tail \notin {"", "k"}) ->
           Refused(o, o.data, "invalid_value")
      [] t # NoText /\ t.n # None /\ t.tail = "" -> Unmarked(o, Capped(t.n))
      [] t # NoText /\ t.n # None /\ t.tail = "k" ->
           Unmarked(o, (Capped(t.n) * Kilo) % (Top + 1))

Execute(o, t) ==
    CASE o.kind = "null" -> Execute_null(o, t)
      [] o.kind = "present" -> Execute_present(o, t)
      [] o.kind = "value" -> Execute_value(o, t)
      [] o.kind = "bool" -> Execute_bool(o, t)
      [] o.kind = "count" -> Execute_count(o, t)
      [] o.kind = "bytes" -> Execute_bytes(o, t)

-----------------------------------------------------------------------------
(* scan.                                                                   *)

\* start () of every option.
Scan_KeepsSeen(args) ==
    /\ phase = "idle" /\ phase' = "options"
    /\ argv' = args /\ i' = 1 /\ cursor' = 1
    /\ before' = options
    /\ UNCHANGED <<registry, options, outcome, calls>>

Scan(args) ==
    /\ phase = "idle" /\ phase' = "options"
    /\ options' = [o \in DOMAIN options |-> [options[o] EXCEPT !.seen = FALSE]]
    /\ argv' = args /\ i' = 1 /\ cursor' = 1
    /\ before' = options
    /\ UNCHANGED <<registry, outcome, calls>>

Throw(error) ==
    /\ phase' = "over" /\ outcome' = error
    /\ UNCHANGED <<i, cursor>>

\* execute of option o; the loops go on with argument n and cursor c.
Run(o, t, n, c) ==
    LET done == Execute(options[o], t) IN
    /\ options' = [options EXCEPT ![o].data = done.data, ![o].seen = done.seen]
    /\ calls' = Append(calls, [option |-> o, text |-> t, place |-> <<i, cursor>>])
    /\ IF done.error = "none"
       THEN i' = n /\ cursor' = c /\ UNCHANGED <<phase, outcome>>
       ELSE Throw(done.error)

Known(key) == \E e \in DOMAIN named : named[e].key = key

\* std::find_if: the option that was added first with this key.
Handler(key) ==
    LET e == CHOOSE e \in DOMAIN named :
                 named[e].key = key /\ \A d \in 1..(e - 1) : named[d].key # key
    IN named[e].option

Dispatch(key, t, n, c) ==
    \/ Known(key) /\ Run(Handler(key), t, n, c)
    \/ ~Known(key) /\ Throw("invalid_key") /\ UNCHANGED <<options, calls>>

\* print_help ends the process.
PrintHelp ==
    /\ phase' = "exited"
    /\ UNCHANGED <<options, calls, outcome, i, cursor>>

\* What execute makes of a whole argument.
Text(arg) == IF arg.form = "word" THEN arg.text ELSE [n |-> None, tail |-> "other"]

At(form) == phase = "options" /\ i <= Len(argv) /\ argv[i].form = form

\* The next argument is there and does not start with a dash.
ValueFollows_Any == i < Len(argv)
ValueFollows == i < Len(argv) /\ argv[i + 1].form = "word"

ParseLong ==
    /\ At("long")
    /\ \/ argv[i].key = Help /\ PrintHelp
       \/ /\ argv[i].key # Help /\ ValueFollows
          /\ Dispatch(argv[i].key, Text(argv[i + 1]), i + 2, 1)
       \/ /\ argv[i].key # Help /\ ~ValueFollows
          /\ Dispatch(argv[i].key, NoText, i + 1, 1)
    /\ UNCHANGED <<registry, argv, before>>

ParseAssign ==
    /\ At("assign")
    /\ \/ argv[i].key = Help /\ PrintHelp
       \/ argv[i].key # Help /\ Dispatch(argv[i].key, argv[i].text, i + 1, 1)
    /\ UNCHANGED <<registry, argv, before>>

\* A lone letter and its value: -h is a letter like any other here.
ParseShortValue ==
    /\ At("short") /\ Len(argv[i].keys) = 1 /\ ValueFollows
    /\ Dispatch(argv[i].keys[1], Text(argv[i + 1]), i + 2, 1)
    /\ UNCHANGED <<registry, argv, before>>

\* A run of letters, one at a time.
ParseShortRun ==
    /\ At("short") /\ ~(Len(argv[i].keys) = 1 /\ ValueFollows)
    /\ LET key == argv[i].keys[cursor]
           last == cursor = Len(argv[i].keys)
       IN \/ key = Help /\ PrintHelp
          \/ key # Help /\ Dispatch(key, NoText, IF last THEN i + 1 ELSE i,
                                                 IF last THEN 1 ELSE cursor + 1)
    /\ UNCHANGED <<registry, argv, before>>

\* `--' goes, and everything from a lone dash or a word on stays.
EndOfOptions ==
    /\ \/ At("stop") /\ i' = i + 1
       \/ (At("dash") \/ At("word") \/ (phase = "options" /\ i > Len(argv))) /\ i' = i
    /\ phase' = "positional" /\ cursor' = 1
    /\ UNCHANGED <<registry, options, argv, outcome, calls, before>>

Positional ==
    /\ phase = "positional" /\ i <= Len(argv) /\ cursor <= Len(positional)
    /\ Run(positional[cursor], Text(argv[i]), i + 1, cursor + 1)
    /\ UNCHANGED <<registry, argv, before>>

EndOfPositional ==
    /\ phase = "positional" /\ ~(i <= Len(argv) /\ cursor <= Len(positional))
    /\ \/ i <= Len(argv) /\ Throw("unhandled_argument")
       \/ /\ i > Len(argv) /\ phase' = "finish" /\ cursor' = 1
          /\ UNCHANGED <<i, outcome>>
    /\ UNCHANGED <<registry, options, argv, calls, before>>

\* finish () of one option: present stores its m_seen before base::finish.
Finish ==
    /\ phase = "finish" /\ cursor <= Len(options)
    /\ options' = [options EXCEPT ![cursor].data =
                       IF options[cursor].kind = "present" THEN Bit(options[cursor].seen) ELSE @]
    /\ IF options[cursor].required /\ ~options[cursor].seen
       THEN Throw("invalid_required")
       ELSE cursor' = cursor + 1 /\ UNCHANGED <<phase, outcome, i>>
    /\ UNCHANGED <<registry, argv, calls, before>>

Return ==
    /\ phase = "finish" /\ cursor > Len(options)
    /\ phase' = "over" /\ outcome' = "returned"
    /\ UNCHANGED <<registry, options, argv, i, cursor, calls, before>>

\* The program has seen how the scan ended, and may well go on.
Resume ==
    /\ phase = "over" /\ phase' = "idle"
    /\ argv' = <<>> /\ i' = 1 /\ cursor' = 1
    /\ outcome' = "none" /\ calls' = <<>> /\ before' = <<>>
    /\ UNCHANGED <<registry, options>>

\* A process that has printed its help is gone; the next one starts over.
Restart ==
    /\ phase = "exited"
    /\ program' \in Programs
    /\ options' = <<>> /\ named' = <<>> /\ positional' = <<>>
    /\ phase' = "idle" /\ argv' = <<>> /\ i' = 1 /\ cursor' = 1
    /\ outcome' = "none" /\ calls' = <<>> /\ before' = <<>>

Step ==
    \/ ParseLong \/ ParseAssign \/ ParseShortValue \/ ParseShortRun
    \/ EndOfOptions \/ Positional \/ EndOfPositional \/ Finish \/ Return

Next ==
    \/ Add \/ AppendPositional \/ Require
    \/ \E args \in Args : Scan(args)
    \/ Step
    \/ Resume \/ Restart

Spec == Init /\ [][Next]_vars

-----------------------------------------------------------------------------
(* What the arguments mean, without a cursor.                              *)

\* An argument that takes the word behind it for its value.
TakesValue(arg) == arg.form = "long" \/ (arg.form = "short" /\ Len(arg.keys) = 1)

IsValue(args, k) == k > 1 /\ args[k].form = "word" /\ TakesValue(args[k - 1])

Stops(args, k) ==
    args[k].form \in {"stop", "dash"} \/ (args[k].form = "word" /\ ~IsValue(args, k))

\* The options are in front of the first argument that stops them.
Stop(args) ==
    CHOOSE k \in 1..(Len(args) + 1) :
        /\ k <= Len(args) => Stops(args, k)
        /\ \A j \in 1..(k - 1) : ~Stops(args, j)

Value(args, k) ==
    IF TakesValue(args[k]) /\ k < Len(args) /\ args[k + 1].form = "word"
    THEN args[k + 1].text ELSE NoText

\* The keys that argument k names, each with its value.
Names(args, k) ==
    CASE args[k].form = "short" ->
           [j \in DOMAIN args[k].keys |-> <<args[k].keys[j], Value(args, k)>>]
      [] args[k].form = "long" -> <<<<args[k].key, Value(args, k)>>>>
      [] args[k].form = "assign" -> <<<<args[k].key, args[k].text>>>>
      [] args[k].form \notin {"short", "long", "assign"} -> <<>>

\* Behind the options, and behind a `--' if that is what stopped them.
From(args) ==
    LET k == Stop(args) IN
    IF k <= Len(args) /\ args[k].form = "stop" THEN k + 1 ELSE k

\* Where the arguments use an option: key j of argument k; and the arguments
\* that are left, each with its number among them.
OptionUses(args) ==
    UNION {{k} \X DOMAIN Names(args, k) : k \in 1..(Stop(args) - 1)}
LeftUses(args) == {<<k, k - From(args) + 1>> : k \in From(args)..Len(args)}
Uses(args) == OptionUses(args) \cup LeftUses(args)

Earlier(p, q) == p[1] < q[1] \/ (p[1] = q[1] /\ p[2] < q[2])
UpTo(args, p) == {q \in Uses(args) : Earlier(q, p)}

Key(args, p) == Names(args, p[1])[p[2]][1]

Places == {calls[c].place : c \in DOMAIN calls}

\* The calls of one option, those of them with a text, and the last of some.
CallsTo(o) == {c \in DOMAIN calls : calls[c].option = o}
TextsTo(o) == {c \in CallsTo(o) : calls[c].text # NoText}
Last(cs) == {c \in cs : \A d \in cs : d <= c}

Scanning == phase # "idle"

-----------------------------------------------------------------------------
(* Properties.                                                             *)

Data(kind) == IF kind \in {"present", "bool"} THEN 0..1 ELSE 0..Top

\* The registered options, the tables that point to them, and the cursors are
\* of their types; the tables hold an option for every add and append.
TypeOK ==
    /\ program \in Seq(Registrations)
    /\ options \in Seq([kind : Kinds, required : BOOLEAN, seen : BOOLEAN,
                        data : 0..Top])
    /\ \A o \in DOMAIN options : options[o].data \in Data(options[o].kind)
    /\ named \in Seq([key : Keys, option : DOMAIN options])
    /\ positional \in Seq(DOMAIN options)
    /\ Len(named) + Len(positional) = Len(options)
    /\ phase \in {"idle", "options", "positional", "finish", "over", "exited"}
    /\ argv \in Seq(Arguments)
    /\ i \in 1..(Len(argv) + 1)
    /\ cursor \in Nat \ {0}
    /\ calls \in Seq([option : DOMAIN options, text : Texts \cup {NoText},
                      place : (Nat \ {0}) \X (Nat \ {0})])

\* A call is the one that its place in the arguments asks for: of the option
\* that is named there with the value that goes with it, or of the positional
\* option with the number of the argument among those that are left.
AsAsked(call) ==
    LET p == call.place IN
    \/ /\ p \in OptionUses(argv) /\ Known(Key(argv, p))
       /\ call.option = Handler(Key(argv, p))
       /\ call.text = Names(argv, p[1])[p[2]][2]
    \/ /\ p \in LeftUses(argv) /\ p[2] \in DOMAIN positional
       /\ call.option = positional[p[2]]
       /\ call.text = Text(argv[p[1]])

\* parser::scan calls the options that the arguments name, in their order and
\* with their values, and after them the positional ones, and leaves none out;
\* it returns when it has used every argument up, and throws, or ends with the
\* help, at the first that it cannot use.
FollowsArguments ==
    Scanning =>
        /\ \A c \in DOMAIN calls : AsAsked(calls[c])
        /\ \A c, d \in DOMAIN calls : c < d => Earlier(calls[c].place, calls[d].place)
        /\ \A c \in DOMAIN calls : UpTo(argv, calls[c].place) \subseteq Places
        /\ outcome \in {"returned", "invalid_required"} => Uses(argv) \subseteq Places
        /\ outcome = "unhandled_argument" =>
               \E p \in LeftUses(argv) :
                   p[2] = Len(positional) + 1 /\ Places = UpTo(argv, p)
        /\ outcome = "invalid_key" =>
               \E p \in OptionUses(argv) : ~Known(Key(argv, p)) /\ Places = UpTo(argv, p)
        /\ phase = "exited" =>
               \E p \in OptionUses(argv) : Key(argv, p) = Help /\ Places = UpTo(argv, p)

\* The number a count starts from, and the calls that add to it: those behind
\* the last one with a text.
Counted(o) ==
    IF TextsTo(o) = {}
    THEN {before[o].data + Cardinality(CallsTo(o))}
    ELSE {calls[c].text.n + Cardinality({d \in CallsTo(o) : d > c}) : c \in Last(TextsTo(o))}

\* When scan has returned, the variable of an option says what the arguments
\* did: the last text wins, a count goes on from there, a presence is set or
\* cleared.  Variables of options that were not called keep their values, after
\* a throw as well, apart from the presences that finish has got to.
DataFollowsCalls ==
    Scanning => \A o \in DOMAIN before :
        LET kind == options[o].kind
            called == CallsTo(o) # {}
            finished == outcome = "returned"
                        \/ (phase = "finish" /\ o < cursor)
                        \/ (outcome = "invalid_required" /\ o <= cursor)
        IN  /\ kind = "present" => options[o].data =
                   IF finished THEN Bit(called) ELSE before[o].data
            /\ kind # "present" /\ ~called => options[o].data = before[o].data
            /\ kind = "count" /\ finished /\ called =>
                   \E n \in Counted(o) : options[o].data = n % (Top + 1)
            /\ kind \in {"value", "bool", "bytes"} /\ finished /\ called =>
                   \E c \in Last(CallsTo(o)) :
                       options[o].data = Execute(before[o], calls[c].text).data

\* A scan that returns has called every option that is required; what an
\* earlier scan saw does not count.
RequiredWereCalled ==
    outcome = "returned" =>
        \A o \in DOMAIN options :
            options[o].required => CallsTo(o) # {}

\* invalid_required, "required option not seen", is about an option that the
\* arguments do not name.
RequiredNotSeen == outcome = "invalid_required" => CallsTo(cursor) = {}
=============================================================================
