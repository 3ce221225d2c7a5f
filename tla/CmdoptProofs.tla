---------------------------- MODULE CmdoptProofs ----------------------------
(***************************************************************************)
(* For every set of keys, programs, argument vectors and width of the      *)
(* variables: the tables of a parser stay in step with its options, and a  *)
(* scan that returns has called every required option.                     *)
(***************************************************************************)
EXTENDS Cmdopt, TLAPS, FiniteSetTheorems, SequenceTheorems, WellFoundedInduction

Options == [kind : Kinds, required : BOOLEAN, seen : BOOLEAN, data : 0..Top]
Errors == {"none", "invalid_null", "invalid_value"}

\* A call of one of some options.
CallOf(them) ==
    [option : them, text : Texts \cup {NoText}, place : (Nat \ {0}) \X (Nat \ {0})]

-----------------------------------------------------------------------------
(* What the helpers return.                                                *)

\* value<T>::execute stores a number that fits.
LEMMA ValueType ==
    ASSUME NEW o \in Options, NEW t \in Texts \cup {NoText}
    PROVE  /\ Execute_value(o, t).data \in 0..Top
           /\ Execute_value(o, t).seen \in BOOLEAN
           /\ Execute_value(o, t).error \in Errors
<1>0. Top \in Nat \ {0} /\ o.data \in 0..Top /\ o.seen \in BOOLEAN
  BY CmdoptAssumption DEF Options
<1>1. CASE t = NoText
  BY <1>1 DEF Execute_value, Refused, Options, Errors
<1>2. CASE t # NoText
  <2>1. t \in Texts
    BY <1>2
  <2>2. CASE t.n = None
    <3>1. Execute_value(o, t) =
              Refused(o, IF t.tail = "" THEN o.data ELSE 0, "invalid_value")
      BY <1>2, <2>2 DEF Execute_value
    <3>2. 0 \in 0..Top
      BY <1>0
    <3>3. CASE t.tail = ""
      <4>1. Execute_value(o, t) = Refused(o, o.data, "invalid_value")
        BY <3>1, <3>3
      <4> QED
        BY ONLY <1>0, <4>1 DEF Refused, Errors
    <3>4. CASE t.tail # ""
      <4>1. Execute_value(o, t) = Refused(o, 0, "invalid_value")
        BY <3>1, <3>4
      <4> QED
        BY ONLY <1>0, <3>2, <4>1 DEF Refused, Errors
    <3> QED
      BY <3>3, <3>4
  <2>3. CASE t.n # None
    <3>1. t.n \in Nat
      BY <2>1, <2>3 DEF Texts
    <3>2. Execute_value(o, t) =
              IF t.n > Top THEN Refused(o, Top, "invalid_value") ELSE Done(t.n)
      BY <1>2, <2>3 DEF Execute_value
    <3>3. CASE t.n > Top
      BY <3>2, <3>3, CmdoptAssumption DEF Refused, Options, Errors
    <3>4. CASE ~(t.n > Top)
      <4>1. t.n \in 0..Top
        BY <1>0, <3>1, <3>4
      <4>2. Execute_value(o, t) = Done(t.n)
        BY <3>2, <3>4
      <4> QED
        BY ONLY <4>1, <4>2 DEF Done, Errors
    <3> QED
      BY <3>3, <3>4
  <2> QED
    BY <2>2, <2>3
<1> QED
  BY <1>1, <1>2

\* bytes::execute stores a number that fits: it saturates, or wraps around.
LEMMA BytesType ==
    ASSUME NEW o \in Options, NEW t \in Texts \cup {NoText}
    PROVE  /\ Execute_bytes(o, t).data \in 0..Top
           /\ Execute_bytes(o, t).seen \in BOOLEAN
           /\ Execute_bytes(o, t).error \in Errors
<1>1. CASE t = NoText
  BY <1>1 DEF Execute_bytes, Refused, Options, Errors
<1>2. CASE t # NoText /\ (t.n = None \/ t.tail \notin {"", "k"})
  BY <1>2 DEF Execute_bytes, Refused, Options, Errors
<1>3. CASE t # NoText /\ ~(t.n = None \/ t.tail \notin {"", "k"})
  <2>1. t.n \in Nat
    BY <1>3 DEF Texts
  <2>2. Capped(t.n) \in 0..Top
    BY <2>1, CmdoptAssumption DEF Capped
  <2>3. ((Capped(t.n) * Kilo) % (Top + 1)) \in 0..Top
    <3>1. Capped(t.n) * Kilo \in Nat
      <4>1. Capped(t.n) \in Nat /\ Kilo \in Nat
        BY <2>2, CmdoptAssumption
      <4> QED
        BY <4>1
    <3>2. Top + 1 \in Nat \ {0}
      BY CmdoptAssumption
    <3> DEFINE product == Capped(t.n) * Kilo
    <3>3. product \in Nat
      BY <3>1
    <3> HIDE DEF product
    <3>4. (product % (Top + 1)) \in 0..Top
      BY <3>2, <3>3, CmdoptAssumption
    <3> QED
      BY <3>4 DEF product
  <2>4. CASE t.tail = ""
    BY <1>3, <2>2, <2>4 DEF Execute_bytes, Unmarked, Options, Errors
  <2>5. CASE t.tail = "k"
    BY <1>3, <2>3, <2>5 DEF Execute_bytes, Unmarked, Options, Errors
  <2> QED
    BY <1>3, <2>4, <2>5
<1> QED
  BY <1>1, <1>2, <1>3

\* execute leaves the variable of an option of any kind in its type.
LEMMA ExecuteType ==
    ASSUME NEW o \in Options, o.data \in Data(o.kind), NEW t \in Texts \cup {NoText}
    PROVE  /\ Execute(o, t).data \in Data(o.kind)
           /\ Execute(o, t).data \in 0..Top
           /\ Execute(o, t).seen \in BOOLEAN
           /\ Execute(o, t).error \in Errors
<1>0. o.data \in 0..Top /\ o.seen \in BOOLEAN /\ o.kind \in Kinds /\ Top \in Nat \ {0}
  BY CmdoptAssumption DEF Options
<1>1. CASE o.kind = "null"
  BY <1>0, <1>1 DEF Execute, Execute_null, Done, Data, Errors
<1>2. CASE o.kind = "present"
  BY <1>0, <1>2 DEF Execute, Execute_present, Done, Refused, Data, Errors
<1>3. CASE o.kind = "value"
  BY <1>3, ValueType DEF Execute, Data
<1>4. CASE o.kind = "bool"
  <2>1. Execute(o, t) = Execute_bool(o, t)
    BY <1>4 DEF Execute
  <2>2. Bit(True(t)) \in 0..1
    BY DEF Bit
  <2>3. CASE t # NoText /\ (True(t) \/ False(t))
    BY <1>0, <1>4, <2>1, <2>2, <2>3 DEF Execute_bool, Unmarked, Data, Errors
  <2>4. CASE ~(t # NoText /\ (True(t) \/ False(t)))
    BY <1>0, <1>4, <2>1, <2>4 DEF Execute_bool, Refused, Data, Errors
  <2> QED
    BY <2>3, <2>4
<1>5. CASE o.kind = "count"
  <2>1. ((o.data + 1) % (Top + 1)) \in 0..Top
    <3>1. o.data + 1 \in Nat /\ Top + 1 \in Nat \ {0}
      BY <1>0
    <3> QED
      BY <1>0, <3>1
  <2> QED
    BY <1>5, <2>1, ValueType DEF Execute, Execute_count, Done, Data, Errors
<1>6. CASE o.kind = "bytes"
  BY <1>6, BytesType DEF Execute, Data
<1> QED
  BY <1>0, <1>1, <1>2, <1>3, <1>4, <1>5, <1>6 DEF Kinds

\* A key that was added has a first option.
LEMMA HandlerType ==
    ASSUME TypeOK, NEW key, Known(key)
    PROVE  Handler(key) \in DOMAIN options
<1> DEFINE those == {e \in DOMAIN named : named[e].key = key}
<1>0. named \in Seq([key : Keys, option : DOMAIN options]) /\ DOMAIN named = 1..Len(named)
      /\ Len(named) \in Nat
  BY DEF TypeOK
<1>1. those # {} /\ those \subseteq Nat
  BY <1>0 DEF Known
<1>2. PICK e \in those : \A d \in those : ~(<<d, e>> \in OpToRel(<, Nat))
  BY <1>1, NatLessThanWellFounded, WFMin
<1>3. \A d \in 1..(e - 1) : named[d].key # key
  <2> SUFFICES ASSUME NEW d \in 1..(e - 1), named[d].key = key
               PROVE  FALSE
    OBVIOUS
  <2>1. d \in those /\ d < e /\ d \in Nat /\ e \in Nat
    BY <1>0, <1>1
  <2> QED
    BY <1>2, <2>1 DEF OpToRel
<1>4. \E f \in DOMAIN named :
          named[f].key = key /\ \A d \in 1..(f - 1) : named[d].key # key
  BY <1>2, <1>3
<1> DEFINE first == CHOOSE f \in DOMAIN named :
                        named[f].key = key /\ \A d \in 1..(f - 1) : named[d].key # key
<1>5. first \in DOMAIN named
  BY <1>4
<1>6. named[first].option \in DOMAIN options
  <2> HIDE DEF first
  <2>1. named[first] \in [key : Keys, option : DOMAIN options]
    BY ONLY <1>0, <1>5, ElementOfSeq
  <2> QED
    BY <2>1
<1> QED
  BY <1>6 DEF Handler

LEMMA SeqWider ==
    ASSUME NEW S, NEW T, S \subseteq T, NEW s \in Seq(S)
    PROVE  s \in Seq(T)
OBVIOUS

-----------------------------------------------------------------------------
(* The invariant.                                                          *)

\* m_seen of an option is set in a scan only by a call of it in that scan.
SeenWasCalled ==
    phase # "idle" =>
        \A o \in DOMAIN options :
            options[o].seen => \E c \in DOMAIN calls : calls[c].option = o

\* finish () has looked at the options in front of the cursor, and at all of
\* them when scan has returned.
FinishChecked ==
    /\ phase = "finish" =>
           \A o \in DOMAIN options :
               o < cursor /\ options[o].required => options[o].seen
    /\ outcome = "returned" =>
           \A o \in DOMAIN options : options[o].required => options[o].seen
    /\ phase # "over" => outcome = "none"

CmdoptInv == TypeOK /\ SeenWasCalled /\ FinishChecked

Scanners == {"options", "positional"}

\* A call of an option keeps the invariant, whatever the option makes of it.
LEMMA RunKeeps ==
    ASSUME CmdoptInv, phase \in Scanners,
           NEW o \in DOMAIN options, NEW t \in Texts \cup {NoText},
           NEW n \in 1..(Len(argv) + 1), NEW c \in Nat \ {0},
           Run(o, t, n, c), UNCHANGED <<registry, argv, before>>
    PROVE  CmdoptInv'
<1> DEFINE done == Execute(options[o], t)
           call == [option |-> o, text |-> t, place |-> <<i, cursor>>]
<1>0. /\ options \in Seq(Options) /\ Len(options) \in Nat
      /\ DOMAIN options = 1..Len(options)
      /\ options[o] \in Options /\ options[o].data \in Data(options[o].kind)
  <2>1. options \in Seq(Options) /\ \A q \in DOMAIN options : options[q].data \in Data(options[q].kind)
    BY DEF CmdoptInv, TypeOK, Options
  <2>2. Len(options) \in Nat /\ DOMAIN options = 1..Len(options)
    BY <2>1
  <2>3. options[o] \in Options
    BY ONLY <2>1, <2>2, ElementOfSeq, o \in DOMAIN options
  <2> QED
    BY <2>1, <2>2, <2>3
<1>1. done.data \in Data(options[o].kind) /\ done.data \in 0..Top /\ done.seen \in BOOLEAN
  BY <1>0, ExecuteType
<1>c. call \in CallOf(DOMAIN options) /\ call.option = o
  <2>1. i \in Nat \ {0} /\ cursor \in Nat \ {0}
    BY DEF CmdoptInv, TypeOK
  <2> QED
    BY <2>1 DEF CallOf
<1>d. calls \in Seq(CallOf(DOMAIN options))
  BY DEF CmdoptInv, TypeOK, CallOf
<1> HIDE DEF done, call
<1>2. /\ options' = [options EXCEPT ![o].data = done.data, ![o].seen = done.seen]
      /\ calls' = Append(calls, call)
  BY DEF Run, done, call
<1>3. /\ \/ i' = n /\ cursor' = c /\ UNCHANGED <<phase, outcome>>
         \/ phase' = "over" /\ UNCHANGED <<i, cursor>>
      /\ outcome' # "returned" /\ (phase' # "over" => outcome' = "none")
  <2>1. outcome = "none"
    BY DEF CmdoptInv, FinishChecked, Scanners
  <2>2. CASE done.error = "none"
    BY <2>1, <2>2 DEF Run, done
  <2>3. CASE done.error # "none"
    <3>1. done.error \in Errors
      BY <1>0, ExecuteType DEF done
    <3>2. Throw(done.error)
      BY <2>3 DEF Run, done
    <3> QED
      BY ONLY <2>3, <3>1, <3>2 DEF Throw, Errors
  <2> QED
    BY <2>2, <2>3
<1>4. /\ options' \in Seq(Options) /\ DOMAIN options' = DOMAIN options
      /\ Len(options') = Len(options)
  <2>1. options' = [options EXCEPT ![o] =
                        [options[o] EXCEPT !.data = done.data, !.seen = done.seen]]
    BY <1>0, <1>2 DEF Options
  <2>2. [options[o] EXCEPT !.data = done.data, !.seen = done.seen] \in Options
    BY <1>0, <1>1 DEF Options
  <2> DEFINE new == [options[o] EXCEPT !.data = done.data, !.seen = done.seen]
  <2> HIDE DEF new
  <2>3. options' = [options EXCEPT ![o] = new] /\ new \in Options
    BY <2>1, <2>2 DEF new
  <2> QED
    BY ONLY <1>0, <2>3, ExceptSeq, o \in DOMAIN options
<1>5. \A q \in DOMAIN options' : options'[q].data \in Data(options'[q].kind)
  <2> SUFFICES ASSUME NEW q \in DOMAIN options
               PROVE  options'[q].data \in Data(options'[q].kind)
    BY <1>4
  <2>1. CASE q = o
    BY <1>0, <1>1, <1>2, <2>1 DEF Options
  <2>2. CASE q # o
    BY <1>0, <1>2, <2>2 DEF CmdoptInv, TypeOK
  <2> QED
    BY <2>1, <2>2
<1>6. calls' \in Seq(CallOf(DOMAIN options'))
  <2>1. calls' \in Seq(CallOf(DOMAIN options))
    BY ONLY <1>2, <1>c, <1>d
  <2> QED
    BY <1>4, <2>1
<1>7. TypeOK'
  BY <1>3, <1>4, <1>5, <1>6 DEF CmdoptInv, TypeOK, registry, Options, CallOf, Scanners
<1>8. SeenWasCalled'
  <2>2. /\ \A k \in DOMAIN calls : k \in DOMAIN calls' /\ calls'[k] = calls[k]
        /\ Len(calls) + 1 \in DOMAIN calls' /\ calls'[Len(calls) + 1] = call
    BY ONLY <1>2, <1>c, <1>d
  <2> SUFFICES ASSUME NEW q \in DOMAIN options, options'[q].seen
               PROVE  \E k \in DOMAIN calls' : calls'[k].option = q
    BY <1>4 DEF SeenWasCalled
  <2>3. CASE q = o
    BY <1>c, <2>2, <2>3
  <2>4. CASE q # o
    <3>1. options[q].seen
      BY <1>0, <1>2, <2>4
    <3>2. \E k \in DOMAIN calls : calls[k].option = q
      BY <3>1 DEF CmdoptInv, SeenWasCalled, Scanners
    <3> QED
      BY <2>2, <3>2
  <2> QED
    BY <2>3, <2>4
<1>9. FinishChecked'
  BY <1>3 DEF FinishChecked, Scanners
<1> QED
  BY <1>7, <1>8, <1>9 DEF CmdoptInv

\* So does a throw, or an end, that leaves the options as they are.
LEMMA ThrowKeeps ==
    ASSUME CmdoptInv, phase \in Scanners, NEW error \in {"invalid_key", "unhandled_argument"},
           Throw(error), UNCHANGED <<registry, options, argv, calls, before>>
    PROVE  CmdoptInv'
<1>1. TypeOK'
  BY DEF CmdoptInv, TypeOK, Throw, registry
<1>2. SeenWasCalled'
  BY DEF CmdoptInv, SeenWasCalled, Throw, Scanners
<1>3. FinishChecked'
  BY DEF FinishChecked, Throw
<1> QED
  BY <1>1, <1>2, <1>3 DEF CmdoptInv

LEMMA DispatchKeeps ==
    ASSUME CmdoptInv, phase = "options", NEW key, NEW t \in Texts \cup {NoText},
           NEW n \in 1..(Len(argv) + 1), NEW c \in Nat \ {0},
           Dispatch(key, t, n, c), UNCHANGED <<registry, argv, before>>
    PROVE  CmdoptInv'
<1>1. CASE Known(key) /\ Run(Handler(key), t, n, c)
  BY <1>1, HandlerType, RunKeeps DEF CmdoptInv, Scanners
<1>2. CASE Throw("invalid_key") /\ UNCHANGED <<options, calls>>
  BY <1>2, ThrowKeeps DEF Scanners
<1> QED
  BY <1>1, <1>2 DEF Dispatch

LEMMA PrintHelpKeeps ==
    ASSUME CmdoptInv, phase = "options", PrintHelp, UNCHANGED <<registry, argv, before>>
    PROVE  CmdoptInv'
<1>1. TypeOK'
  BY DEF CmdoptInv, TypeOK, PrintHelp, registry
<1>2. SeenWasCalled'
  BY DEF CmdoptInv, SeenWasCalled, PrintHelp
<1>3. FinishChecked'
  BY DEF CmdoptInv, FinishChecked, PrintHelp
<1> QED
  BY <1>1, <1>2, <1>3 DEF CmdoptInv

\* What the argument at hand, and the one behind it, consist of.
LEMMA ArgumentType ==
    ASSUME TypeOK, NEW form, At(form)
    PROVE  /\ argv[i] \in Arguments /\ argv[i].form = form /\ phase = "options"
           /\ i \in Nat /\ i + 1 \in 1..(Len(argv) + 1)
           /\ ValueFollows => i + 2 \in 1..(Len(argv) + 1) /\ Text(argv[i + 1]) \in Texts
<1>1. argv \in Seq(Arguments) /\ i \in 1..(Len(argv) + 1) /\ Len(argv) \in Nat
  BY DEF TypeOK
<1>2. i \in 1..Len(argv) /\ argv[i].form = form /\ phase = "options"
  BY <1>1 DEF At
<1>3. argv[i] \in Arguments
  BY ONLY <1>1, <1>2, ElementOfSeq
<1>4. ASSUME ValueFollows
      PROVE  i + 2 \in 1..(Len(argv) + 1) /\ Text(argv[i + 1]) \in Texts
  <2>1. i + 1 \in 1..Len(argv) /\ argv[i + 1].form = "word"
    BY <1>1, <1>4 DEF ValueFollows
  <2>2. argv[i + 1] \in Arguments
    BY ONLY <1>1, <2>1, ElementOfSeq
  <2>3. argv[i + 1].text \in Texts
    BY <2>1, <2>2 DEF Arguments
  <2> QED
    BY <1>1, <2>1, <2>3 DEF Text
<1> QED
  BY <1>1, <1>2, <1>3, <1>4

-----------------------------------------------------------------------------
(* Every step keeps the invariant.                                         *)

LEMMA InitInv == Init => CmdoptInv
<1> SUFFICES ASSUME Init PROVE CmdoptInv
  OBVIOUS
<1>1. program \in Seq(Registrations)
  BY CmdoptAssumption DEF Init
<1> QED
  BY <1>1 DEF Init, CmdoptInv, TypeOK, SeenWasCalled, FinishChecked

LEMMA SetupKeeps ==
    ASSUME CmdoptInv, Add \/ AppendPositional \/ Require
    PROVE  CmdoptInv'
<1>0. /\ program \in Seq(Registrations) /\ program # <<>>
      /\ options \in Seq(Options) /\ Len(options) \in Nat /\ DOMAIN options = 1..Len(options)
  <2>1. program \in Seq(Registrations) /\ options \in Seq(Options)
    BY DEF CmdoptInv, TypeOK, Options
  <2> QED
    BY <2>1 DEF Add, AppendPositional, Require, Called
<1>a. Head(program) \in Registrations /\ Tail(program) \in Seq(Registrations)
  BY <1>0
<1>1. TypeOK'
  <2>1. ASSUME Add \/ AppendPositional
        PROVE  /\ options' \in Seq(Options) /\ DOMAIN options' = 1..(Len(options) + 1)
               /\ Len(options') = Len(options) + 1
               /\ \A o \in DOMAIN options' : options'[o].data \in Data(options'[o].kind)
    <3>1. Head(program).kind \in Kinds
      BY <1>a, <2>1 DEF Add, AppendPositional, Called, Registrations
    <3> DEFINE new == Option(Head(program).kind)
    <3>2. new \in Options /\ new.data \in Data(new.kind)
      BY <3>1, CmdoptAssumption DEF Option, Options, Data
    <3>3. options' = Append(options, new)
      BY <2>1 DEF Add, AppendPositional
    <3> HIDE DEF new
    <3>4. /\ options' \in Seq(Options) /\ Len(options') = Len(options) + 1
          /\ DOMAIN options' = 1..(Len(options) + 1)
      BY <1>0, <3>2, <3>3
    <3>5. ASSUME NEW o \in DOMAIN options'
          PROVE  options'[o].data \in Data(options'[o].kind)
      <4>1. CASE o = Len(options) + 1
        BY <1>0, <3>2, <3>3, <4>1
      <4>2. CASE o # Len(options) + 1
        <5>1. o \in DOMAIN options /\ options'[o] = options[o]
          BY <1>0, <3>2, <3>3, <3>4, <4>2
        <5> QED
          BY <5>1 DEF CmdoptInv, TypeOK
      <4> QED
        BY <4>1, <4>2
    <3> QED
      BY <3>4, <3>5
  <2>0. ASSUME Add \/ AppendPositional
        PROVE  /\ named \in Seq([key : Keys, option : DOMAIN options'])
               /\ positional \in Seq(DOMAIN options')
               /\ calls \in Seq(CallOf(DOMAIN options'))
    <3>1. DOMAIN options \subseteq DOMAIN options'
      BY <1>0, <2>0, <2>1
    <3>2. /\ [key : Keys, option : DOMAIN options] \subseteq [key : Keys, option : DOMAIN options']
          /\ CallOf(DOMAIN options) \subseteq CallOf(DOMAIN options')
      BY <3>1 DEF CallOf
    <3>3. /\ named \in Seq([key : Keys, option : DOMAIN options])
          /\ positional \in Seq(DOMAIN options)
          /\ calls \in Seq(CallOf(DOMAIN options))
      BY DEF CmdoptInv, TypeOK, CallOf
    <3>4. named \in Seq([key : Keys, option : DOMAIN options'])
      BY ONLY <3>2, <3>3, SeqWider
    <3>5. positional \in Seq(DOMAIN options')
      BY ONLY <3>1, <3>3, SeqWider
    <3>6. calls \in Seq(CallOf(DOMAIN options'))
      BY ONLY <3>2, <3>3, SeqWider
    <3> QED
      BY <3>4, <3>5, <3>6
  <2>5. /\ Len(named) \in Nat /\ Len(positional) \in Nat /\ Len(options) \in Nat
        /\ Len(named) + Len(positional) = Len(options)
    BY DEF CmdoptInv, TypeOK
  <2>2. CASE Add
    <3>2. named \in Seq([key : Keys, option : DOMAIN options'])
      BY <2>0, <2>2
    <3>3. [key |-> Head(program).key, option |-> Len(options) + 1]
              \in [key : Keys, option : DOMAIN options']
      BY <1>0, <1>a, <2>1, <2>2 DEF Add, Called, Registrations
    <3>4. named' \in Seq([key : Keys, option : DOMAIN options']) /\ Len(named') = Len(named) + 1
      BY <2>2, <3>2, <3>3 DEF Add
    <3>5. positional' \in Seq(DOMAIN options') /\ calls' \in Seq(CallOf(DOMAIN options'))
      BY <2>0, <2>2 DEF Add, Called
    <3>6. Len(named') + Len(positional') = Len(options')
      BY <2>1, <2>2, <3>4, <2>5 DEF Add
    <3> QED
      BY <1>a, <2>1, <2>2, <3>4, <3>5, <3>6 DEF CmdoptInv, TypeOK, Add, Called, Options, CallOf
  <2>3. CASE AppendPositional
    <3>1. /\ named' \in Seq([key : Keys, option : DOMAIN options'])
          /\ calls' \in Seq(CallOf(DOMAIN options'))
      BY <2>0, <2>3 DEF AppendPositional, Called
    <3>2. positional \in Seq(DOMAIN options')
      BY <2>0, <2>3
    <3>3. positional' \in Seq(DOMAIN options') /\ Len(positional') = Len(positional) + 1
      BY <1>0, <2>1, <2>3, <3>2 DEF AppendPositional
    <3>4. Len(named') + Len(positional') = Len(options')
      BY <2>1, <2>3, <3>3, <2>5 DEF AppendPositional
    <3> QED
      BY <1>a, <2>1, <2>3, <3>1, <3>3, <3>4 DEF CmdoptInv, TypeOK, AppendPositional, Called, Options, CallOf
  <2>4. CASE Require
    <3> DEFINE x == Head(program).option
    <3>1. options' = [options EXCEPT ![x].required = TRUE]
      BY <2>4 DEF Require
    <3>2. /\ options' \in Seq(Options) /\ DOMAIN options' = DOMAIN options
          /\ Len(options') = Len(options)
          /\ \A o \in DOMAIN options : /\ options'[o].kind = options[o].kind
                                       /\ options'[o].data = options[o].data
      <4>1. CASE x \in DOMAIN options
        <5> DEFINE new == [options[x] EXCEPT !.required = TRUE]
        <5>1. options[x] \in Options
          BY ONLY <1>0, <4>1, ElementOfSeq
        <5>2. new \in Options /\ new.kind = options[x].kind /\ new.data = options[x].data
          BY <5>1 DEF Options
        <5>3. options' = [options EXCEPT ![x] = new]
          BY <3>1
        <5> HIDE DEF new, x
        <5>4. /\ options' \in Seq(Options) /\ Len(options') = Len(options)
              /\ \A o \in 1..Len(options) : options'[o] = IF o = x THEN new ELSE options[o]
          BY ONLY <1>0, <4>1, <5>2, <5>3, ExceptSeq
        <5> QED
          BY <1>0, <5>2, <5>4
      <4>2. CASE x \notin DOMAIN options
        <5>1. options' = options
          BY <1>0, <3>1, <4>2
        <5> QED
          BY <1>0, <5>1
      <4> QED
        BY <4>1, <4>2
    <3> HIDE DEF x
    <3> QED
      BY <1>a, <2>4, <3>2 DEF CmdoptInv, TypeOK, Require, Called, Options
  <2> QED
    BY <2>2, <2>3, <2>4
<1>2. SeenWasCalled' /\ FinishChecked'
  BY DEF CmdoptInv, SeenWasCalled, FinishChecked, Add, AppendPositional, Require, Called
<1> QED
  BY <1>1, <1>2 DEF CmdoptInv

LEMMA ScanKeeps ==
    ASSUME CmdoptInv, NEW args \in Args, Scan(args)
    PROVE  CmdoptInv'
<1>0. options \in Seq(Options) /\ Len(options) \in Nat /\ DOMAIN options = 1..Len(options)
  <2>1. options \in Seq(Options)
    BY DEF CmdoptInv, TypeOK, Options
  <2> QED
    BY <2>1
<1>a. options' = [o \in DOMAIN options |-> [options[o] EXCEPT !.seen = FALSE]]
  BY DEF Scan
<1>b. \A o \in DOMAIN options :
          /\ [options[o] EXCEPT !.seen = FALSE] \in Options
          /\ options'[o].seen = FALSE /\ options'[o].kind = options[o].kind
          /\ options'[o].data = options[o].data
  <2> SUFFICES ASSUME NEW o \in DOMAIN options
               PROVE  /\ [options[o] EXCEPT !.seen = FALSE] \in Options
                      /\ options'[o].seen = FALSE /\ options'[o].kind = options[o].kind
                      /\ options'[o].data = options[o].data
    OBVIOUS
  <2>1. options[o] \in Options
    BY ONLY <1>0, ElementOfSeq
  <2> QED
    BY <1>a, <2>1 DEF Options
<1>c. /\ options' \in Seq(Options) /\ DOMAIN options' = DOMAIN options
      /\ Len(options') = Len(options)
  BY <1>0, <1>a, <1>b
<1>d. args \in Seq(Arguments)
  BY CmdoptAssumption
<1>1. TypeOK'
  <2>1. \A o \in DOMAIN options' : options'[o].data \in Data(options'[o].kind)
    BY <1>b, <1>c DEF CmdoptInv, TypeOK
  <2>2. /\ argv' \in Seq(Arguments) /\ i' \in 1..(Len(argv') + 1) /\ cursor' \in Nat \ {0}
        /\ phase' = "options"
    BY <1>d DEF Scan
  <2> QED
    BY <1>c, <2>1, <2>2 DEF CmdoptInv, TypeOK, Scan, registry, Options
<1>2. SeenWasCalled' /\ FinishChecked'
  BY <1>b, <1>c DEF CmdoptInv, SeenWasCalled, FinishChecked, Scan
<1> QED
  BY <1>1, <1>2 DEF CmdoptInv

LEMMA ParseKeeps ==
    ASSUME CmdoptInv, ParseLong \/ ParseAssign \/ ParseShortValue \/ ParseShortRun
    PROVE  CmdoptInv'
<1>1. CASE ParseLong
  <2>1. At("long")
    BY <1>1 DEF ParseLong
  <2>2. CASE PrintHelp
    BY <1>1, <2>1, <2>2, PrintHelpKeeps DEF ParseLong, At
  <2>3. CASE ValueFollows /\ Dispatch(argv[i].key, Text(argv[i + 1]), i + 2, 1)
    BY <1>1, <2>1, <2>3, ArgumentType, DispatchKeeps DEF ParseLong, CmdoptInv
  <2>4. CASE Dispatch(argv[i].key, NoText, i + 1, 1)
    BY <1>1, <2>1, <2>4, ArgumentType, DispatchKeeps DEF ParseLong, CmdoptInv
  <2> QED
    BY <1>1, <2>2, <2>3, <2>4 DEF ParseLong
<1>2. CASE ParseAssign
  <2>1. At("assign")
    BY <1>2 DEF ParseAssign
  <2>2. CASE PrintHelp
    BY <1>2, <2>1, <2>2, PrintHelpKeeps DEF ParseAssign, At
  <2>3. CASE Dispatch(argv[i].key, argv[i].text, i + 1, 1)
    <3>1. argv[i] \in Arguments /\ argv[i].form = "assign"
      BY <2>1, ArgumentType DEF CmdoptInv
    <3>2. argv[i].text \in Texts
      BY <3>1 DEF Arguments
    <3> QED
      BY <1>2, <2>1, <2>3, <3>2, ArgumentType, DispatchKeeps DEF ParseAssign, CmdoptInv
  <2> QED
    BY <1>2, <2>2, <2>3 DEF ParseAssign
<1>3. CASE ParseShortValue
  BY <1>3, ArgumentType, DispatchKeeps DEF ParseShortValue, CmdoptInv
<1>4. CASE ParseShortRun
  <2> DEFINE key == argv[i].keys[cursor]
             last == cursor = Len(argv[i].keys)
             n == IF last THEN i + 1 ELSE i
             c == IF last THEN 1 ELSE cursor + 1
  <2>1. At("short")
    BY <1>4 DEF ParseShortRun
  <2>2. CASE PrintHelp
    BY <1>4, <2>1, <2>2, PrintHelpKeeps DEF ParseShortRun, At
  <2>3. CASE Dispatch(key, NoText, n, c)
    <3>1. i \in 1..(Len(argv) + 1) /\ cursor \in Nat \ {0} /\ phase = "options"
      BY <2>1 DEF CmdoptInv, TypeOK, At
    <3>2. n \in 1..(Len(argv) + 1) /\ c \in Nat \ {0}
      BY <2>1, <3>1, ArgumentType DEF CmdoptInv
    <3> HIDE DEF key, n, c
    <3> QED
      BY <1>4, <2>3, <3>1, <3>2, DispatchKeeps DEF ParseShortRun
  <2> QED
    BY <1>4, <2>2, <2>3 DEF ParseShortRun
<1> QED
  BY <1>1, <1>2, <1>3, <1>4

LEMMA PositionalKeeps ==
    ASSUME CmdoptInv, EndOfOptions \/ Positional \/ EndOfPositional
    PROVE  CmdoptInv'
<1>1. CASE EndOfOptions
  <2>1. i' \in 1..(Len(argv) + 1) /\ phase = "options"
    BY <1>1, ArgumentType DEF EndOfOptions, CmdoptInv, TypeOK, At
  <2>2. TypeOK'
    BY <1>1, <2>1 DEF CmdoptInv, TypeOK, EndOfOptions, registry
  <2> QED
    BY <1>1, <2>1, <2>2 DEF CmdoptInv, SeenWasCalled, FinishChecked, EndOfOptions
<1>2. CASE Positional
  <2>1. /\ positional \in Seq(DOMAIN options) /\ Len(positional) \in Nat
        /\ cursor \in 1..Len(positional) /\ cursor + 1 \in Nat \ {0}
        /\ argv \in Seq(Arguments) /\ i \in 1..Len(argv) /\ i + 1 \in 1..(Len(argv) + 1)
    <3>1. /\ positional \in Seq(DOMAIN options) /\ cursor \in Nat \ {0}
          /\ cursor <= Len(positional)
      BY <1>2 DEF CmdoptInv, TypeOK, Positional
    <3>2. Len(positional) \in Nat
      BY <3>1
    <3>3. argv \in Seq(Arguments) /\ i \in 1..(Len(argv) + 1) /\ i <= Len(argv)
      BY <1>2 DEF CmdoptInv, TypeOK, Positional
    <3>4. Len(argv) \in Nat
      BY <3>3
    <3> QED
      BY ONLY <3>1, <3>2, <3>3, <3>4
  <2>2. positional[cursor] \in DOMAIN options
    BY ONLY <2>1, ElementOfSeq
  <2>3. Text(argv[i]) \in Texts \cup {NoText}
    <3>1. argv[i] \in Arguments
      BY ONLY <2>1, ElementOfSeq
    <3>2. CASE argv[i].form = "word"
      <4>1. argv[i].text \in Texts
        BY <3>1, <3>2 DEF Arguments
      <4> QED
        BY <3>2, <4>1 DEF Text
    <3>3. CASE argv[i].form # "word"
      <4>1. [n |-> None, tail |-> "other"] \in Texts
        BY DEF Texts, Tails
      <4> QED
        BY <3>3, <4>1 DEF Text
    <3> QED
      BY <3>2, <3>3
  <2> QED
    BY <1>2, <2>1, <2>2, <2>3, RunKeeps DEF Positional, Scanners
<1>3. CASE EndOfPositional
  <2>1. CASE Throw("unhandled_argument")
    BY <1>3, <2>1, ThrowKeeps DEF EndOfPositional, Scanners
  <2>2. CASE phase' = "finish" /\ cursor' = 1 /\ UNCHANGED <<i, outcome>>
    <3>1. TypeOK'
      BY <1>3, <2>2 DEF CmdoptInv, TypeOK, EndOfPositional, registry
    <3>2. SeenWasCalled'
      BY <1>3, <2>2 DEF CmdoptInv, SeenWasCalled, EndOfPositional
    <3>3. FinishChecked'
      <4>1. outcome' = "none" /\ \A o \in DOMAIN options' : ~(o < cursor')
        BY <1>3, <2>2 DEF CmdoptInv, TypeOK, FinishChecked, EndOfPositional
      <4> QED
        BY <2>2, <4>1 DEF FinishChecked
    <3> QED
      BY <3>1, <3>2, <3>3 DEF CmdoptInv
  <2> QED
    BY <1>3, <2>1, <2>2 DEF EndOfPositional
<1> QED
  BY <1>1, <1>2, <1>3

LEMMA FinishKeeps ==
    ASSUME CmdoptInv, Finish \/ Return
    PROVE  CmdoptInv'
<1>1. CASE Finish
  <2>0. /\ options \in Seq(Options) /\ Len(options) \in Nat /\ DOMAIN options = 1..Len(options)
        /\ cursor \in 1..Len(options) /\ cursor + 1 \in Nat \ {0}
    <3>1. options \in Seq(Options) /\ cursor \in Nat \ {0} /\ cursor <= Len(options)
      BY <1>1 DEF CmdoptInv, TypeOK, Options, Finish
    <3> QED
      BY <3>1
  <2> DEFINE data == IF options[cursor].kind = "present"
                     THEN Bit(options[cursor].seen) ELSE options[cursor].data
             new == [options[cursor] EXCEPT !.data = data]
  <2>1. options[cursor] \in Options /\ options[cursor].data \in Data(options[cursor].kind)
    <3>1. options[cursor] \in Options
      BY ONLY <2>0, ElementOfSeq
    <3> QED
      BY <2>0, <3>1 DEF CmdoptInv, TypeOK
  <2>2. data \in Data(options[cursor].kind) /\ data \in 0..Top
    <3>1. Bit(options[cursor].seen) \in 0..1
      BY DEF Bit
    <3> QED
      BY <2>1, <3>1, CmdoptAssumption DEF Options, Data
  <2>3. options' = [options EXCEPT ![cursor] = new]
    BY <1>1, <2>0 DEF Finish
  <2>4. /\ new \in Options /\ new.kind = options[cursor].kind /\ new.data = data
        /\ new.seen = options[cursor].seen /\ new.required = options[cursor].required
    <3> HIDE DEF data
    <3> QED
      BY <2>1, <2>2 DEF Options
  <2> HIDE DEF new, data
  <2>5. /\ options' \in Seq(Options) /\ Len(options') = Len(options)
        /\ \A o \in 1..Len(options) : options'[o] = IF o = cursor THEN new ELSE options[o]
    BY ONLY <2>0, <2>3, <2>4, ExceptSeq
  <2>6. /\ DOMAIN options' = DOMAIN options
        /\ \A o \in DOMAIN options : /\ options'[o].data \in Data(options'[o].kind)
                                     /\ options'[o].seen = options[o].seen
                                     /\ options'[o].required = options[o].required
    <3>1. DOMAIN options' = DOMAIN options
      BY <2>0, <2>5
    <3>2. ASSUME NEW o \in DOMAIN options
          PROVE  /\ options'[o].data \in Data(options'[o].kind)
                 /\ options'[o].seen = options[o].seen
                 /\ options'[o].required = options[o].required
      <4>1. CASE o = cursor
        BY <2>0, <2>2, <2>4, <2>5, <4>1
      <4>2. CASE o # cursor
        BY <2>0, <2>5, <4>2 DEF CmdoptInv, TypeOK
      <4> QED
        BY <4>1, <4>2
    <3> QED
      BY <3>1, <3>2
  <2>7. \/ Throw("invalid_required")
        \/ /\ options[cursor].required => options[cursor].seen
           /\ cursor' = cursor + 1 /\ UNCHANGED <<phase, outcome, i>>
    BY <1>1 DEF Finish
  <2>8. TypeOK'
    <3>1. cursor' \in Nat \ {0} /\ i' = i /\ phase' \in {"finish", "over"}
      BY <1>1, <2>0, <2>7 DEF Throw, Finish
    <3> QED
      BY <1>1, <2>5, <2>6, <3>1 DEF CmdoptInv, TypeOK, Finish, registry, Options
  <2>9. SeenWasCalled'
    BY <1>1, <2>6 DEF CmdoptInv, SeenWasCalled, Finish
  <2>10. FinishChecked'
    <3>1. phase = "finish" /\ outcome = "none"
      BY <1>1 DEF CmdoptInv, FinishChecked, Finish
    <3>2. CASE Throw("invalid_required")
      BY <3>2 DEF FinishChecked, Throw
    <3>3. CASE /\ options[cursor].required => options[cursor].seen
               /\ cursor' = cursor + 1 /\ UNCHANGED <<phase, outcome, i>>
      <4>1. ASSUME NEW o \in DOMAIN options', o < cursor', options'[o].required
            PROVE  options'[o].seen
        <5>1. o = cursor \/ o < cursor
          BY <2>0, <2>6, <3>3, <4>1
        <5> QED
          BY <2>6, <3>1, <3>3, <4>1, <5>1 DEF CmdoptInv, FinishChecked
      <4> QED
        BY <3>1, <3>3, <4>1 DEF FinishChecked
    <3> QED
      BY <2>7, <3>2, <3>3
  <2> QED
    BY <2>8, <2>9, <2>10 DEF CmdoptInv
<1>2. CASE Return
  <2>1. TypeOK'
    BY <1>2 DEF CmdoptInv, TypeOK, Return, registry
  <2>2. SeenWasCalled'
    BY <1>2 DEF CmdoptInv, SeenWasCalled, Return
  <2>3. \A o \in DOMAIN options : options[o].required => options[o].seen
    <3>1. \A o \in DOMAIN options : o < cursor
      BY <1>2 DEF CmdoptInv, TypeOK, Return
    <3> QED
      BY <1>2, <3>1 DEF CmdoptInv, FinishChecked, Return
  <2>4. FinishChecked'
    BY <1>2, <2>3 DEF FinishChecked, Return
  <2> QED
    BY <2>1, <2>2, <2>4 DEF CmdoptInv
<1> QED
  BY <1>1, <1>2

LEMMA NextKeeps == CmdoptInv /\ [Next]_vars => CmdoptInv'
<1> SUFFICES ASSUME CmdoptInv, [Next]_vars PROVE CmdoptInv'
  OBVIOUS
<1>1. CASE Resume
  BY <1>1 DEF CmdoptInv, TypeOK, SeenWasCalled, FinishChecked, Resume, registry
<1>2. CASE Restart
  BY <1>2, CmdoptAssumption DEF CmdoptInv, TypeOK, SeenWasCalled, FinishChecked, Restart
<1>3. CASE UNCHANGED vars
  BY <1>3 DEF vars, CmdoptInv, TypeOK, SeenWasCalled, FinishChecked
<1> QED
  BY <1>1, <1>2, <1>3, SetupKeeps, ScanKeeps, ParseKeeps, PositionalKeeps, FinishKeeps
     DEF Next, Step

-----------------------------------------------------------------------------
(* The places in the arguments.                                            *)

\* There is an argument that stops the options, if only the end of them.
LEMMA StopFits ==
    ASSUME NEW args \in Seq(Arguments)
    PROVE  /\ Stop(args) \in 1..(Len(args) + 1)
           /\ Stop(args) <= Len(args) => Stops(args, Stop(args))
           /\ \A j \in 1..(Stop(args) - 1) : ~Stops(args, j)
           /\ Len(args) \in Nat
<1> DEFINE ends == {k \in 1..(Len(args) + 1) : k <= Len(args) => Stops(args, k)}
           P(k) == /\ k <= Len(args) => Stops(args, k)
                   /\ \A j \in 1..(k - 1) : ~Stops(args, j)
<1>0. Len(args) \in Nat
  OBVIOUS
<1>1. ends # {} /\ ends \subseteq Nat
  <2>1. Len(args) + 1 \in ends
    BY <1>0
  <2> QED
    BY <1>0, <2>1
<1>2. PICK k \in ends : \A j \in ends : ~(<<j, k>> \in OpToRel(<, Nat))
  <2> HIDE DEF ends
  <2> QED
    BY <1>1, NatLessThanWellFounded, WFMin
<1>3. P(k)
  <2>1. ASSUME NEW j \in 1..(k - 1), Stops(args, j)
        PROVE  FALSE
    <3>1. j \in ends /\ j < k /\ j \in Nat /\ k \in Nat
      BY <1>0, <2>1
    <3> QED
      BY <1>2, <3>1 DEF OpToRel
  <2> QED
    BY <2>1
<1>4. \E n \in 1..(Len(args) + 1) : P(n)
  BY <1>3
<1>5. Stop(args) = CHOOSE n \in 1..(Len(args) + 1) : P(n)
  BY DEF Stop
<1> HIDE DEF P, ends
<1>6. Stop(args) \in 1..(Len(args) + 1) /\ P(Stop(args))
  BY <1>4, <1>5
<1> QED
  BY <1>0, <1>6 DEF P

\* Keys are counted from one; an argument that is no option names none.
LEMMA NamesShape ==
    ASSUME NEW args \in Seq(Arguments), NEW k \in DOMAIN args
    PROVE  /\ args[k] \in Arguments
           /\ DOMAIN Names(args, k) \subseteq Nat \ {0}
           /\ args[k].form = "short" =>
                  /\ Len(args[k].keys) \in Nat \ {0}
                  /\ DOMAIN Names(args, k) = 1..Len(args[k].keys)
                  /\ \A j \in DOMAIN Names(args, k) :
                         Names(args, k)[j] = <<args[k].keys[j], Value(args, k)>>
           /\ args[k].form = "long" =>
                  /\ DOMAIN Names(args, k) = {1}
                  /\ Names(args, k)[1] = <<args[k].key, Value(args, k)>>
           /\ args[k].form = "assign" =>
                  /\ DOMAIN Names(args, k) = {1}
                  /\ Names(args, k)[1] = <<args[k].key, args[k].text>>
           /\ args[k].form \notin {"short", "long", "assign"} =>
                  DOMAIN Names(args, k) = {}
<1>1. args[k] \in Arguments
  BY ElementOfSeq
<1>2. CASE args[k].form = "short"
  <2>1. args[k].keys \in Seq(Keys) \ {<<>>}
    BY <1>1, <1>2 DEF Arguments
  <2>2. /\ Len(args[k].keys) \in Nat \ {0} /\ DOMAIN args[k].keys = 1..Len(args[k].keys)
    BY <2>1, EmptySeq
  <2>3. Names(args, k) = [j \in DOMAIN args[k].keys |-> <<args[k].keys[j], Value(args, k)>>]
    BY <1>2 DEF Names
  <2> QED
    BY <1>1, <1>2, <2>2, <2>3
<1>3. CASE args[k].form = "long"
  <2>1. Names(args, k) = <<<<args[k].key, Value(args, k)>>>>
    BY <1>3 DEF Names
  <2> QED
    BY <1>1, <1>3, <2>1
<1>4. CASE args[k].form = "assign"
  <2>1. Names(args, k) = <<<<args[k].key, args[k].text>>>>
    BY <1>4 DEF Names
  <2> QED
    BY <1>1, <1>4, <2>1
<1>5. CASE args[k].form \notin {"short", "long", "assign"}
  <2>1. Names(args, k) = <<>>
    BY <1>5 DEF Names
  <2> QED
    BY <1>1, <1>5, <2>1
<1> QED
  BY <1>2, <1>3, <1>4, <1>5

\* Options are used in front of the stop, and what is left from behind it on.
LEMMA UsesShape ==
    ASSUME NEW args \in Seq(Arguments)
    PROVE  /\ From(args) \in {Stop(args), Stop(args) + 1} /\ From(args) \in 1..(Len(args) + 1)
           /\ \A p : p \in OptionUses(args) <=>
                  \E k \in 1..(Stop(args) - 1) : \E j \in DOMAIN Names(args, k) : p = <<k, j>>
           /\ \A p : p \in LeftUses(args) <=>
                  \E k \in From(args)..Len(args) : p = <<k, k - From(args) + 1>>
           /\ Uses(args) \subseteq (Nat \ {0}) \X (Nat \ {0})
<1>0. Stop(args) \in 1..(Len(args) + 1) /\ Len(args) \in Nat /\ DOMAIN args = 1..Len(args)
  BY StopFits
<1>1. From(args) \in {Stop(args), Stop(args) + 1} /\ From(args) \in 1..(Len(args) + 1)
  BY <1>0 DEF From
<1>2. \A p : p \in OptionUses(args) <=>
          \E k \in 1..(Stop(args) - 1) : \E j \in DOMAIN Names(args, k) : p = <<k, j>>
  BY DEF OptionUses
<1>3. \A p : p \in LeftUses(args) <=>
          \E k \in From(args)..Len(args) : p = <<k, k - From(args) + 1>>
  BY DEF LeftUses
<1>4. OptionUses(args) \subseteq (Nat \ {0}) \X (Nat \ {0})
  <2> SUFFICES ASSUME NEW k \in 1..(Stop(args) - 1), NEW j \in DOMAIN Names(args, k)
               PROVE  <<k, j>> \in (Nat \ {0}) \X (Nat \ {0})
    BY <1>2
  <2>1. k \in DOMAIN args
    BY <1>0
  <2>2. j \in Nat \ {0} /\ k \in Nat \ {0}
    BY <1>0, <2>1, NamesShape
  <2> QED
    BY <2>2
<1>5. LeftUses(args) \subseteq (Nat \ {0}) \X (Nat \ {0})
  <2> SUFFICES ASSUME NEW k \in From(args)..Len(args)
               PROVE  <<k, k - From(args) + 1>> \in (Nat \ {0}) \X (Nat \ {0})
    BY <1>3
  <2>1. k \in Nat \ {0} /\ k - From(args) + 1 \in Nat \ {0}
    BY <1>0, <1>1
  <2> QED
    BY <2>1
<1> QED
  BY <1>1, <1>2, <1>3, <1>4, <1>5 DEF Uses

\* The next key of an argument, behind its key j.
LEMMA NextKey ==
    ASSUME NEW args \in Seq(Arguments), NEW k \in 1..(Stop(args) - 1),
           NEW j \in DOMAIN Names(args, k)
    PROVE  UpTo(args, <<k, j + 1>>) = UpTo(args, <<k, j>>) \cup {<<k, j>>}
<1>0. k \in Nat \ {0} /\ j \in Nat \ {0} /\ <<k, j>> \in Uses(args)
  <2>1. k \in DOMAIN args
    BY StopFits
  <2> QED
    BY <2>1, StopFits, NamesShape, UsesShape DEF Uses
<1>1. ASSUME NEW q \in Uses(args)
      PROVE  Earlier(q, <<k, j + 1>>) <=> Earlier(q, <<k, j>>) \/ q = <<k, j>>
  <2>1. q = <<q[1], q[2]>> /\ q[1] \in Nat /\ q[2] \in Nat
    BY UsesShape
  <2> QED
    BY <1>0, <2>1 DEF Earlier
<1> QED
  BY <1>0, <1>1 DEF UpTo

\* The next argument, behind the last key of one that has any.
LEMMA NextArgument ==
    ASSUME NEW args \in Seq(Arguments), NEW k \in 1..(Stop(args) - 1),
           NEW j \in DOMAIN Names(args, k), \A l \in DOMAIN Names(args, k) : l <= j
    PROVE  UpTo(args, <<k + 1, 1>>) = UpTo(args, <<k, j>>) \cup {<<k, j>>}
<1>0. k \in Nat \ {0} /\ j \in Nat \ {0} /\ <<k, j>> \in Uses(args)
  <2>1. k \in DOMAIN args
    BY StopFits
  <2> QED
    BY <2>1, StopFits, NamesShape, UsesShape DEF Uses
<1>1. ASSUME NEW q \in Uses(args)
      PROVE  Earlier(q, <<k + 1, 1>>) <=> Earlier(q, <<k, j>>) \/ q = <<k, j>>
  <2>1. q = <<q[1], q[2]>> /\ q[1] \in Nat \ {0} /\ q[2] \in Nat \ {0}
    BY UsesShape
  <2>2. q[1] = k => q[2] \in DOMAIN Names(args, k)
    <3>1. CASE q \in OptionUses(args)
      BY <2>1, <3>1, UsesShape
    <3>2. CASE q \in LeftUses(args)
      <4>1. PICK l \in From(args)..Len(args) : q = <<l, l - From(args) + 1>>
        BY <3>2, UsesShape
      <4>2. q[1] = l
        BY <4>1
      <4> QED
        BY <4>2, UsesShape, StopFits
    <3> QED
      BY <3>1, <3>2 DEF Uses
  <2> QED
    BY <1>0, <2>1, <2>2 DEF Earlier
<1> QED
  BY <1>0, <1>1 DEF UpTo

\* An argument in front of the stop that names nothing is the value of another.
LEMMA NextIsValue ==
    ASSUME NEW args \in Seq(Arguments), NEW k \in 1..(Stop(args) - 1),
           DOMAIN Names(args, k) = {}
    PROVE  UpTo(args, <<k + 1, 1>>) = UpTo(args, <<k, 1>>)
<1>1. ASSUME NEW q \in Uses(args)
      PROVE  Earlier(q, <<k + 1, 1>>) <=> Earlier(q, <<k, 1>>)
  <2>1. q = <<q[1], q[2]>> /\ q[1] \in Nat \ {0} /\ q[2] \in Nat \ {0}
    BY UsesShape
  <2>2. q[1] # k
    <3>1. CASE q \in OptionUses(args)
      BY <2>1, <3>1, UsesShape
    <3>2. CASE q \in LeftUses(args)
      <4>1. PICK l \in From(args)..Len(args) : q = <<l, l - From(args) + 1>>
        BY <3>2, UsesShape
      <4>2. q[1] = l
        BY <4>1
      <4> QED
        BY <4>2, UsesShape, StopFits
    <3> QED
      BY <3>1, <3>2 DEF Uses
  <2>3. k \in Nat
    BY StopFits
  <2> QED
    BY <2>1, <2>2, <2>3 DEF Earlier
<1> QED
  BY <1>1 DEF UpTo

\* Between the stop and the first argument that is left nothing is used.
LEMMA NextIsLeft ==
    ASSUME NEW args \in Seq(Arguments)
    PROVE  UpTo(args, <<From(args), 1>>) = UpTo(args, <<Stop(args), 1>>)
<1>1. ASSUME NEW q \in Uses(args)
      PROVE  Earlier(q, <<From(args), 1>>) <=> Earlier(q, <<Stop(args), 1>>)
  <2>1. q = <<q[1], q[2]>> /\ q[1] \in Nat \ {0} /\ q[2] \in Nat \ {0}
    BY UsesShape
  <2>2. q[1] < Stop(args) \/ From(args) <= q[1]
    <3>1. CASE q \in OptionUses(args)
      <4>1. PICK k \in 1..(Stop(args) - 1) : \E j \in DOMAIN Names(args, k) : q = <<k, j>>
        BY <3>1, UsesShape
      <4> QED
        BY <4>1, StopFits
    <3>2. CASE q \in LeftUses(args)
      <4>1. PICK k \in From(args)..Len(args) : q = <<k, k - From(args) + 1>>
        BY <3>2, UsesShape
      <4> QED
        BY <4>1, UsesShape, StopFits
    <3> QED
      BY <3>1, <3>2 DEF Uses
  <2> QED
    BY <2>1, <2>2, UsesShape, StopFits DEF Earlier
<1> QED
  BY <1>1 DEF UpTo

\* The next of the arguments that are left.
LEMMA NextLeft ==
    ASSUME NEW args \in Seq(Arguments), NEW k \in From(args)..Len(args),
           NEW j, j = k - From(args) + 1
    PROVE  /\ <<k, j>> \in LeftUses(args) /\ j \in Nat \ {0}
           /\ UpTo(args, <<k + 1, j + 1>>) = UpTo(args, <<k, j>>) \cup {<<k, j>>}
<1>0. k \in Nat \ {0} /\ j \in Nat \ {0} /\ <<k, j>> \in LeftUses(args)
  BY StopFits, UsesShape
<1>1. ASSUME NEW q \in Uses(args)
      PROVE  Earlier(q, <<k + 1, j + 1>>) <=> Earlier(q, <<k, j>>) \/ q = <<k, j>>
  <2>1. q = <<q[1], q[2]>> /\ q[1] \in Nat \ {0} /\ q[2] \in Nat \ {0}
    BY UsesShape
  <2>2. q[1] < Stop(args) \/ (q[2] = q[1] - From(args) + 1 /\ From(args) <= q[1])
    <3>1. CASE q \in OptionUses(args)
      <4>1. PICK l \in 1..(Stop(args) - 1) : \E m \in DOMAIN Names(args, l) : q = <<l, m>>
        BY <3>1, UsesShape
      <4> QED
        BY <4>1, StopFits
    <3>2. CASE q \in LeftUses(args)
      <4>1. PICK l \in From(args)..Len(args) : q = <<l, l - From(args) + 1>>
        BY <3>2, UsesShape
      <4> QED
        BY <4>1, UsesShape, StopFits
    <3> QED
      BY <3>1, <3>2 DEF Uses
  <2>3. CASE q[1] < Stop(args)
    <3>1. q[1] < k
      BY <1>0, <2>1, <2>3, UsesShape, StopFits
    <3>2. q[1] < k + 1 /\ q # <<k, j>>
      BY <1>0, <2>1, <3>1
    <3> QED
      BY <3>1, <3>2 DEF Earlier
  <2>4. CASE q[2] = q[1] - From(args) + 1
    <3> DEFINE m == q[1]
    <3>1. q = <<m, m - From(args) + 1>> /\ m \in Nat /\ From(args) \in Nat
      BY <2>1, <2>4, UsesShape, StopFits
    <3> HIDE DEF m
    <3>2. CASE m <= k
      BY <1>0, <3>1, <3>2 DEF Earlier
    <3>3. CASE m = k + 1
      BY <1>0, <3>1, <3>3 DEF Earlier
    <3>4. CASE m > k + 1
      BY <1>0, <3>1, <3>4 DEF Earlier
    <3> QED
      BY <1>0, <3>1, <3>2, <3>3, <3>4
  <2> QED
    BY <2>2, <2>3, <2>4
<1> QED
  BY <1>0, <1>1 DEF UpTo, Uses

\* Behind the last argument everything has been used.
LEMMA NoneBehind ==
    ASSUME NEW args \in Seq(Arguments), NEW k, NEW j, k = Len(args) + 1
    PROVE  UpTo(args, <<k, j>>) = Uses(args)
<1>1. ASSUME NEW q \in Uses(args)
      PROVE  Earlier(q, <<k, j>>)
  <2>1. q[1] < k
    <3>1. CASE q \in OptionUses(args)
      <4>1. PICK l \in 1..(Stop(args) - 1) : \E m \in DOMAIN Names(args, l) : q = <<l, m>>
        BY <3>1, UsesShape
      <4> QED
        BY <4>1, StopFits
    <3>2. CASE q \in LeftUses(args)
      <4>1. PICK l \in From(args)..Len(args) : q = <<l, l - From(args) + 1>>
        BY <3>2, UsesShape
      <4> QED
        BY <4>1, UsesShape, StopFits
    <3> QED
      BY <1>1, <3>1, <3>2 DEF Uses
  <2> QED
    BY <2>1 DEF Earlier
<1> QED
  BY <1>1 DEF UpTo

-----------------------------------------------------------------------------
(* The way through the arguments.                                          *)

\* Where a scan stands among the options: at a key, or at the front of an
\* argument that is not the value of the one before it.
InOptions(args, n, c) ==
    /\ n <= Stop(args)
    /\ c = 1 \/ (n < Stop(args) /\ c \in DOMAIN Names(args, n))
    /\ c = 1 /\ n <= Len(args) => ~IsValue(args, n)

\* What has been called is what is used in front of the place of the scan.
Reached ==
    /\ phase = "options" =>
           InOptions(argv, i, cursor) /\ Places = UpTo(argv, <<i, cursor>>)
    /\ phase = "positional" =>
           /\ i = From(argv) + cursor - 1 /\ cursor <= Len(positional) + 1
           /\ Places = UpTo(argv, <<i, cursor>>)
    /\ phase = "finish" \/ outcome = "returned" => Places = Uses(argv)
    /\ phase = "idle" => calls = <<>>

PathInv == CmdoptInv /\ Reached /\ FollowsArguments

\* A call that its place asks for keeps the way, if the scan goes on at the
\* next place or throws.
LEMMA RunFollows ==
    ASSUME PathInv, phase \in Scanners,
           NEW o \in DOMAIN options, NEW t \in Texts \cup {NoText},
           NEW n \in 1..(Len(argv) + 1), NEW c \in Nat \ {0},
           Run(o, t, n, c), UNCHANGED <<registry, argv, before>>,
           AsAsked([option |-> o, text |-> t, place |-> <<i, cursor>>]),
           UpTo(argv, <<n, c>>) = UpTo(argv, <<i, cursor>>) \cup {<<i, cursor>>},
           phase = "options" => InOptions(argv, n, c),
           phase = "positional" => n = From(argv) + c - 1 /\ c <= Len(positional) + 1
    PROVE  Reached' /\ FollowsArguments'
<1> DEFINE call == [option |-> o, text |-> t, place |-> <<i, cursor>>]
           here == <<i, cursor>>
           done == Execute(options[o], t)
<1>0. /\ calls \in Seq(CallOf(DOMAIN options)) /\ Len(calls) \in Nat
      /\ DOMAIN calls = 1..Len(calls) /\ call \in CallOf(DOMAIN options)
  <2>1. calls \in Seq(CallOf(DOMAIN options)) /\ i \in Nat \ {0} /\ cursor \in Nat \ {0}
    BY DEF PathInv, CmdoptInv, TypeOK, CallOf
  <2> QED
    BY <2>1 DEF CallOf
<1>1. calls' = Append(calls, call) /\ call.place = here
  BY DEF Run
<1>2. /\ \/ i' = n /\ cursor' = c /\ UNCHANGED <<phase, outcome>>
         \/ phase' = "over" /\ UNCHANGED <<i, cursor>>
      /\ outcome' \in Errors
  <2>1. outcome = "none"
    BY DEF PathInv, CmdoptInv, FinishChecked, Scanners
  <2>2. CASE done.error = "none"
    BY <2>1, <2>2 DEF Run, done, Errors
  <2>3. CASE done.error # "none"
    <3>1. options[o] \in Options /\ options[o].data \in Data(options[o].kind)
      <4>1. options \in Seq(Options)
        BY DEF PathInv, CmdoptInv, TypeOK, Options
      <4>2. options[o] \in Options
        BY ONLY <4>1, ElementOfSeq, o \in DOMAIN options, LenProperties
      <4> QED
        BY <4>2 DEF PathInv, CmdoptInv, TypeOK
    <3>2. done.error \in Errors
      BY <3>1, ExecuteType DEF done
    <3> QED
      BY <2>3, <3>2 DEF Run, done, Throw
  <2> QED
    BY <2>2, <2>3
<1> HIDE DEF call, done
<1>3. /\ DOMAIN calls' = 1..(Len(calls) + 1) /\ calls'[Len(calls) + 1] = call
      /\ \A k \in DOMAIN calls : calls'[k] = calls[k]
  BY ONLY <1>0, <1>1
<1>4. Places = UpTo(argv, here)
  BY DEF PathInv, Reached, Scanners
<1>5. Places' = Places \cup {here}
  <2>1. DOMAIN calls' = DOMAIN calls \cup {Len(calls) + 1}
    BY <1>0, <1>3
  <2>2. Places' = {calls'[k].place : k \in DOMAIN calls'} /\ Places = {calls[k].place : k \in DOMAIN calls}
    BY DEF Places
  <2>3. calls'[Len(calls) + 1].place = here /\ \A k \in DOMAIN calls : calls'[k].place = calls[k].place
    BY <1>1, <1>3
  <2> HIDE DEF here
  <2> QED
    BY ONLY <2>1, <2>2, <2>3
<1>6. UNCHANGED <<argv, named, positional>>
  BY DEF registry
<1>7. Reached'
  <2>1. CASE phase' = "over"
    BY <1>2, <2>1 DEF Reached, Errors
  <2>2. CASE i' = n /\ cursor' = c /\ UNCHANGED <<phase, outcome>>
    <3>1. Places' = UpTo(argv, <<n, c>>)
      BY <1>4, <1>5
    <3> QED
      BY <1>2, <1>6, <2>2, <3>1 DEF Reached, Scanners, Errors
  <2> QED
    BY <1>2, <2>1, <2>2
<1>8. \A k \in DOMAIN calls' : AsAsked(calls[k])'
  <2> SUFFICES ASSUME NEW k \in DOMAIN calls'
               PROVE  AsAsked(calls[k])'
    OBVIOUS
  <2>1. AsAsked(calls'[k])
    <3>1. CASE k \in DOMAIN calls
      BY <1>3, <3>1 DEF PathInv, FollowsArguments, Scanning, Scanners
    <3>2. CASE k = Len(calls) + 1
      BY <1>3, <3>2 DEF call
    <3> QED
      BY <1>0, <1>3, <3>1, <3>2
  <2> QED
    BY <1>6, <2>1 DEF AsAsked, Known, Handler
<1>9. \A k, l \in DOMAIN calls' : k < l => Earlier(calls'[k].place, calls'[l].place)
  <2> SUFFICES ASSUME NEW k \in DOMAIN calls', NEW l \in DOMAIN calls', k < l
               PROVE  Earlier(calls'[k].place, calls'[l].place)
    OBVIOUS
  <2>1. k \in DOMAIN calls
    BY <1>0, <1>3
  <2>2. CASE l \in DOMAIN calls
    BY <1>3, <2>1, <2>2 DEF PathInv, FollowsArguments, Scanning, Scanners
  <2>3. CASE l = Len(calls) + 1
    <3>1. calls[k].place \in UpTo(argv, here)
      BY <1>4, <2>1 DEF Places
    <3> QED
      BY <1>1, <1>3, <2>1, <2>3, <3>1 DEF UpTo
  <2> QED
    BY <1>0, <1>3, <2>2, <2>3
<1>10. \A k \in DOMAIN calls' : UpTo(argv', calls'[k].place) \subseteq Places'
  <2> SUFFICES ASSUME NEW k \in DOMAIN calls'
               PROVE  UpTo(argv', calls'[k].place) \subseteq Places'
    OBVIOUS
  <2>1. CASE k \in DOMAIN calls
    BY <1>3, <1>5, <1>6, <2>1 DEF PathInv, FollowsArguments, Scanning, Scanners
  <2>2. CASE k = Len(calls) + 1
    BY <1>1, <1>3, <1>4, <1>5, <1>6, <2>2
  <2> QED
    BY <1>0, <1>3, <2>1, <2>2
<1>11. FollowsArguments'
  <2>1. outcome' \in Errors /\ phase' # "exited"
    BY <1>2 DEF Scanners
  <2> QED
    BY <1>8, <1>9, <1>10, <2>1 DEF FollowsArguments, Errors
<1> QED
  BY <1>7, <1>11

\* What holds of the calls holds as long as they and the arguments stay.
LEMMA CallsStay ==
    ASSUME FollowsArguments, Scanning, UNCHANGED <<argv, named, positional, calls>>
    PROVE  /\ \A k \in DOMAIN calls' : AsAsked(calls[k])'
           /\ \A k, l \in DOMAIN calls' : k < l => Earlier(calls'[k].place, calls'[l].place)
           /\ \A k \in DOMAIN calls' : UpTo(argv', calls'[k].place) \subseteq Places'
<1>1. Places' = Places
  BY DEF Places
<1>2. /\ \A k \in DOMAIN calls : AsAsked(calls[k])
      /\ \A k, l \in DOMAIN calls : k < l => Earlier(calls[k].place, calls[l].place)
      /\ \A k \in DOMAIN calls : UpTo(argv, calls[k].place) \subseteq Places
  BY DEF FollowsArguments
<1>3. ASSUME NEW k \in DOMAIN calls'
      PROVE  AsAsked(calls[k])'
  <2>1. AsAsked(calls'[k])
    BY <1>2
  <2> QED
    BY <2>1 DEF AsAsked, Known, Handler
<1> QED
  BY <1>1, <1>2, <1>3

\* The scan goes on, or ends after its last argument.
LEMMA FollowsOn ==
    ASSUME FollowsArguments, Scanning, UNCHANGED <<argv, named, positional, calls>>,
           outcome' \in {"none", "returned", "invalid_required"}, phase' # "exited",
           outcome' # "none" => Places = Uses(argv)
    PROVE  FollowsArguments'
<1>1. Places' = Places
  BY DEF Places
<1> QED
  BY <1>1, CallsStay DEF FollowsArguments

\* The end of a scan at a place it cannot use.
LEMMA EndFollows ==
    ASSUME PathInv, phase \in Scanners,
           UNCHANGED <<registry, calls, argv>>,
           \/ phase' = "exited" /\ UNCHANGED outcome
           \/ phase' = "over" /\ outcome' \in {"invalid_key", "unhandled_argument"},
           outcome' = "unhandled_argument" =>
               <<i, cursor>> \in LeftUses(argv) /\ cursor = Len(positional) + 1,
           outcome' = "invalid_key" =>
               <<i, cursor>> \in OptionUses(argv) /\ ~Known(Key(argv, <<i, cursor>>)),
           phase' = "exited" =>
               <<i, cursor>> \in OptionUses(argv) /\ Key(argv, <<i, cursor>>) = Help
    PROVE  Reached' /\ FollowsArguments'
<1> DEFINE here == <<i, cursor>>
<1>1. Places = UpTo(argv, here) /\ outcome = "none"
  BY DEF PathInv, CmdoptInv, FinishChecked, Reached, Scanners
<1>2. UNCHANGED <<argv, named, positional, calls>> /\ Places' = Places
  BY DEF registry, Places
<1>3. Reached'
  BY <1>1 DEF Reached
<1>4. /\ \A k \in DOMAIN calls' : AsAsked(calls[k])'
      /\ \A k, l \in DOMAIN calls' : k < l => Earlier(calls'[k].place, calls'[l].place)
      /\ \A k \in DOMAIN calls' : UpTo(argv', calls'[k].place) \subseteq Places'
  BY <1>2, CallsStay DEF PathInv, Scanning, Scanners
<1>5. /\ outcome' = "unhandled_argument" =>
             \E p \in LeftUses(argv) : p[2] = Len(positional) + 1 /\ Places = UpTo(argv, p)
      /\ outcome' = "invalid_key" =>
             \E p \in OptionUses(argv) : ~Known(Key(argv, p)) /\ Places = UpTo(argv, p)
      /\ phase' = "exited" =>
             \E p \in OptionUses(argv) : Key(argv, p) = Help /\ Places = UpTo(argv, p)
  <2>1. here[2] = cursor
    OBVIOUS
  <2> HIDE DEF here
  <2> QED
    BY <1>1, <2>1 DEF here
<1>6. outcome' \notin {"returned", "invalid_required"}
  BY <1>1
<1> QED
  BY <1>2, <1>3, <1>4, <1>5, <1>6 DEF FollowsArguments, Known

\* An argument goes with the word behind it.
TakesNext(args, k) == TakesValue(args[k]) /\ k < Len(args) /\ args[k + 1].form = "word"

\* What follows an argument in front of the stop: behind its value, if it takes
\* one, and behind itself otherwise.
LEMMA Onward ==
    ASSUME NEW args \in Seq(Arguments), NEW k \in 1..(Stop(args) - 1),
           NEW j \in DOMAIN Names(args, k), \A l \in DOMAIN Names(args, k) : l <= j
    PROVE  /\ TakesNext(args, k) =>
                  /\ Value(args, k) = args[k + 1].text
                  /\ UpTo(args, <<k + 2, 1>>) = UpTo(args, <<k, j>>) \cup {<<k, j>>}
                  /\ InOptions(args, k + 2, 1)
           /\ ~TakesNext(args, k) =>
                  /\ Value(args, k) = NoText
                  /\ UpTo(args, <<k + 1, 1>>) = UpTo(args, <<k, j>>) \cup {<<k, j>>}
                  /\ InOptions(args, k + 1, 1)
<1>0. /\ Stop(args) \in 1..(Len(args) + 1) /\ Len(args) \in Nat /\ DOMAIN args = 1..Len(args)
      /\ k \in Nat \ {0} /\ k <= Len(args) /\ k + 1 <= Stop(args)
  BY StopFits
<1>1. UpTo(args, <<k + 1, 1>>) = UpTo(args, <<k, j>>) \cup {<<k, j>>}
  BY NextArgument
<1>2. ASSUME TakesNext(args, k)
      PROVE  /\ Value(args, k) = args[k + 1].text
             /\ UpTo(args, <<k + 2, 1>>) = UpTo(args, <<k, j>>) \cup {<<k, j>>}
             /\ InOptions(args, k + 2, 1)
  <2>1. k + 1 \in DOMAIN args /\ args[k + 1].form = "word" /\ (k + 1) - 1 = k /\ k + 1 > 1
    BY <1>0, <1>2 DEF TakesNext
  <2>2. IsValue(args, k + 1)
    BY <1>2, <2>1 DEF IsValue, TakesNext
  <2>3. ~Stops(args, k + 1)
    BY <2>1, <2>2 DEF Stops
  <2>4. k + 1 \in 1..(Stop(args) - 1)
    BY <1>0, <2>1, <2>3, StopFits
  <2>5. DOMAIN Names(args, k + 1) = {}
    BY <2>1, NamesShape
  <2>6. UpTo(args, <<k + 2, 1>>) = UpTo(args, <<k + 1, 1>>)
    <3>1. (k + 1) + 1 = k + 2
      BY <1>0
    <3> QED
      BY <2>4, <2>5, <3>1, NextIsValue
  <2>7. ~TakesValue(args[k + 1])
    BY <2>1 DEF TakesValue
  <2>8. InOptions(args, k + 2, 1)
    <3>1. k + 2 <= Stop(args) /\ (k + 2) - 1 = k + 1
      BY <1>0, <2>4
    <3> QED
      BY <2>7, <3>1 DEF InOptions, IsValue
  <2> QED
    BY <1>1, <1>2, <2>1, <2>6, <2>8 DEF Value, TakesNext
<1>3. ASSUME ~TakesNext(args, k)
      PROVE  Value(args, k) = NoText /\ InOptions(args, k + 1, 1)
  <2>1. (k + 1) - 1 = k /\ k + 1 <= Stop(args)
    BY <1>0
  <2>2. k + 1 <= Len(args) => k < Len(args)
    BY <1>0
  <2>3. ASSUME k + 1 <= Len(args) PROVE ~IsValue(args, k + 1)
    BY <1>3, <2>1, <2>2, <2>3 DEF IsValue, TakesNext
  <2> QED
    BY <1>3, <2>1, <2>3 DEF Value, InOptions, TakesNext
<1> QED
  BY <1>1, <1>2, <1>3

\* The same of the place of the scan.
LEMMA Ahead ==
    ASSUME argv \in Seq(Arguments), i \in 1..(Stop(argv) - 1),
           cursor \in DOMAIN Names(argv, i), \A l \in DOMAIN Names(argv, i) : l <= cursor
    PROVE  /\ TakesNext(argv, i) =>
                  /\ Value(argv, i) = argv[i + 1].text
                  /\ UpTo(argv, <<i + 2, 1>>) = UpTo(argv, <<i, cursor>>) \cup {<<i, cursor>>}
                  /\ InOptions(argv, i + 2, 1)
           /\ ~TakesNext(argv, i) =>
                  /\ Value(argv, i) = NoText
                  /\ UpTo(argv, <<i + 1, 1>>) = UpTo(argv, <<i, cursor>>) \cup {<<i, cursor>>}
                  /\ InOptions(argv, i + 1, 1)
BY ONLY Onward, argv \in Seq(Arguments), i \in 1..(Stop(argv) - 1),
        cursor \in DOMAIN Names(argv, i), \A l \in DOMAIN Names(argv, i) : l <= cursor

\* An option at hand is in front of the stop, and the scan at one of its keys.
LEMMA OptionAt ==
    ASSUME PathInv, NEW form \in {"short", "long", "assign"}, At(form)
    PROVE  /\ phase = "options" /\ argv \in Seq(Arguments) /\ argv[i].form = form
           /\ i \in 1..(Stop(argv) - 1) /\ i \in DOMAIN argv
           /\ cursor \in DOMAIN Names(argv, i) /\ cursor \in Nat \ {0}
           /\ <<i, cursor>> \in OptionUses(argv)
           /\ InOptions(argv, i, cursor)
<1>1. /\ argv \in Seq(Arguments) /\ i \in 1..(Len(argv) + 1) /\ i <= Len(argv)
      /\ phase = "options" /\ argv[i].form = form /\ cursor \in Nat \ {0}
  BY DEF PathInv, CmdoptInv, TypeOK, At
<1>2. i \in DOMAIN argv /\ Len(argv) \in Nat /\ Stop(argv) \in 1..(Len(argv) + 1)
  BY <1>1, StopFits
<1>3. InOptions(argv, i, cursor)
  BY <1>1 DEF PathInv, Reached
<1>4. ~Stops(argv, i)
  BY <1>1 DEF Stops
<1>5. i \in 1..(Stop(argv) - 1)
  BY <1>1, <1>2, <1>3, <1>4, StopFits DEF InOptions
<1>6. cursor \in DOMAIN Names(argv, i)
  <2>1. 1 \in DOMAIN Names(argv, i)
    BY <1>1, <1>2, NamesShape
  <2> QED
    BY <1>3, <2>1 DEF InOptions
<1>7. <<i, cursor>> \in OptionUses(argv)
  BY <1>1, <1>5, <1>6, UsesShape
<1> QED
  BY <1>1, <1>2, <1>3, <1>5, <1>6, <1>7

\* What is dispatched is what the place asks for.
LEMMA DispatchFollows ==
    ASSUME PathInv, NEW form \in {"short", "long", "assign"}, At(form),
           NEW key, NEW t \in Texts \cup {NoText},
           Names(argv, i)[cursor] = <<key, t>>,
           NEW n \in 1..(Len(argv) + 1), NEW c \in Nat \ {0},
           Dispatch(key, t, n, c), UNCHANGED <<registry, argv, before>>,
           UpTo(argv, <<n, c>>) = UpTo(argv, <<i, cursor>>) \cup {<<i, cursor>>},
           InOptions(argv, n, c)
    PROVE  Reached' /\ FollowsArguments'
<1> DEFINE here == <<i, cursor>>
<1>1. /\ phase = "options" /\ here \in OptionUses(argv)
      /\ Key(argv, here) = key /\ Names(argv, here[1])[here[2]][2] = t
  BY OptionAt DEF Key
<1>2. CASE Known(key) /\ Run(Handler(key), t, n, c)
  <2>1. Handler(key) \in DOMAIN options
    BY <1>2, HandlerType DEF PathInv, CmdoptInv
  <2>2. AsAsked([option |-> Handler(key), text |-> t, place |-> here])
    <3> DEFINE call == [option |-> Handler(key), text |-> t, place |-> here]
    <3>1. call.option = Handler(key) /\ call.text = t /\ call.place = here
      OBVIOUS
    <3> HIDE DEF call, here
    <3>2. AsAsked(call)
      BY <1>1, <1>2, <3>1 DEF AsAsked
    <3> QED
      BY <3>2 DEF call
  <2> QED
    BY <1>1, <1>2, <2>1, <2>2, RunFollows DEF Scanners
<1>3. CASE ~Known(key) /\ Throw("invalid_key") /\ UNCHANGED <<options, calls>>
  BY <1>1, <1>3, EndFollows DEF Throw, Scanners
<1> QED
  BY <1>2, <1>3 DEF Dispatch

\* Help is asked for at the place of the scan.
LEMMA HelpFollows ==
    ASSUME PathInv, NEW form \in {"short", "long", "assign"}, At(form),
           Names(argv, i)[cursor][1] = Help,
           PrintHelp, UNCHANGED <<registry, argv, before>>
    PROVE  Reached' /\ FollowsArguments'
<1>1. phase = "options" /\ <<i, cursor>> \in OptionUses(argv) /\ Key(argv, <<i, cursor>>) = Help
  BY OptionAt DEF Key
<1>2. outcome = "none"
  BY <1>1 DEF PathInv, CmdoptInv, FinishChecked
<1> QED
  BY <1>1, <1>2, EndFollows DEF PrintHelp, Scanners

LEMMA ParseFollows ==
    ASSUME PathInv, ParseLong \/ ParseAssign \/ ParseShortValue \/ ParseShortRun
    PROVE  Reached' /\ FollowsArguments'
<1> DEFINE here == <<i, cursor>>
<1>0. TypeOK
  BY DEF PathInv, CmdoptInv
<1>a. TakesNext(argv, i) <=> TakesValue(argv[i]) /\ ValueFollows
  BY DEF ValueFollows, TakesNext
<1>b. NoText \in Texts \cup {NoText} /\ 1 \in Nat \ {0}
  OBVIOUS
<1>1. CASE ParseLong
  <2>1. At("long")
    BY <1>1 DEF ParseLong
  <2>2. /\ argv \in Seq(Arguments) /\ argv[i].form = "long" /\ TakesValue(argv[i])
        /\ i \in 1..(Stop(argv) - 1) /\ i \in DOMAIN argv
        /\ cursor \in DOMAIN Names(argv, i)
    BY <2>1, OptionAt DEF TakesValue
  <2>3. /\ \A l \in DOMAIN Names(argv, i) : l <= cursor
        /\ Names(argv, i)[cursor] = <<argv[i].key, Value(argv, i)>>
    <3>1. DOMAIN Names(argv, i) = {1} /\ Names(argv, i)[1] = <<argv[i].key, Value(argv, i)>>
      BY ONLY <2>2, NamesShape
    <3>2. cursor = 1
      BY <2>2, <3>1
    <3> QED
      BY ONLY <3>1, <3>2
  <2>4. CASE argv[i].key = Help /\ PrintHelp
    BY <1>1, <2>1, <2>3, <2>4, HelpFollows DEF ParseLong
  <2>5. CASE ValueFollows /\ Dispatch(argv[i].key, Text(argv[i + 1]), i + 2, 1)
    <3>1. Text(argv[i + 1]) = Value(argv, i)
      BY <1>a, <2>2, <2>3, <2>5, Ahead DEF Text, ValueFollows
    <3>2. /\ UpTo(argv, <<i + 2, 1>>) = UpTo(argv, here) \cup {here}
          /\ InOptions(argv, i + 2, 1)
      <4>1. TakesNext(argv, i)
        BY <1>a, <2>2, <2>5
      <4> QED
        BY ONLY <2>2, <2>3, <4>1, Ahead
    <3>3. Text(argv[i + 1]) \in Texts /\ i + 2 \in 1..(Len(argv) + 1)
      BY <1>0, <2>1, <2>5, ArgumentType
    <3> QED
      BY <1>1, <1>b, <2>1, <2>3, <2>5, <3>1, <3>2, <3>3, DispatchFollows DEF ParseLong
  <2>6. CASE ~ValueFollows /\ Dispatch(argv[i].key, NoText, i + 1, 1)
    <3>1. /\ Value(argv, i) = NoText
          /\ UpTo(argv, <<i + 1, 1>>) = UpTo(argv, here) \cup {here}
          /\ InOptions(argv, i + 1, 1)
      <4>1. ~TakesNext(argv, i)
        BY <1>a, <2>6
      <4> QED
        BY ONLY <2>2, <2>3, <4>1, Ahead
    <3>2. i + 1 \in 1..(Len(argv) + 1)
      BY <1>0, <2>1, ArgumentType
    <3> QED
      BY <1>1, <1>b, <2>1, <2>3, <2>6, <3>1, <3>2, DispatchFollows DEF ParseLong
  <2> QED
    BY <1>1, <2>4, <2>5, <2>6 DEF ParseLong
<1>2. CASE ParseAssign
  <2>1. At("assign")
    BY <1>2 DEF ParseAssign
  <2>2. /\ argv \in Seq(Arguments) /\ argv[i].form = "assign" /\ ~TakesValue(argv[i])
        /\ i \in 1..(Stop(argv) - 1) /\ i \in DOMAIN argv
        /\ cursor \in DOMAIN Names(argv, i)
    BY <2>1, OptionAt DEF TakesValue
  <2>3. /\ \A l \in DOMAIN Names(argv, i) : l <= cursor
        /\ Names(argv, i)[cursor] = <<argv[i].key, argv[i].text>>
    <3>1. DOMAIN Names(argv, i) = {1} /\ Names(argv, i)[1] = <<argv[i].key, argv[i].text>>
      BY ONLY <2>2, NamesShape
    <3>2. cursor = 1
      BY <2>2, <3>1
    <3> QED
      BY ONLY <3>1, <3>2
  <2>4. CASE argv[i].key = Help /\ PrintHelp
    BY <1>2, <2>1, <2>3, <2>4, HelpFollows DEF ParseAssign
  <2>5. CASE Dispatch(argv[i].key, argv[i].text, i + 1, 1)
    <3>1. /\ UpTo(argv, <<i + 1, 1>>) = UpTo(argv, here) \cup {here}
          /\ InOptions(argv, i + 1, 1)
      <4>1. ~TakesNext(argv, i)
        BY <1>a, <2>2
      <4> QED
        BY ONLY <2>2, <2>3, <4>1, Ahead
    <3>2. i + 1 \in 1..(Len(argv) + 1) /\ argv[i].text \in Texts
      <4>1. argv[i] \in Arguments /\ i + 1 \in 1..(Len(argv) + 1)
        BY <1>0, <2>1, ArgumentType
      <4> QED
        BY <2>2, <4>1 DEF Arguments
    <3> QED
      BY <1>2, <1>b, <2>1, <2>3, <2>5, <3>1, <3>2, DispatchFollows DEF ParseAssign
  <2> QED
    BY <1>2, <2>4, <2>5 DEF ParseAssign
<1>3. CASE ParseShortValue
  <2>1. At("short") /\ Len(argv[i].keys) = 1 /\ ValueFollows
    BY <1>3 DEF ParseShortValue
  <2>2. /\ argv \in Seq(Arguments) /\ argv[i].form = "short" /\ TakesValue(argv[i])
        /\ i \in 1..(Stop(argv) - 1) /\ i \in DOMAIN argv
        /\ cursor \in DOMAIN Names(argv, i)
    BY <2>1, OptionAt DEF TakesValue
  <2>3. /\ cursor = 1 /\ \A l \in DOMAIN Names(argv, i) : l <= cursor
        /\ Names(argv, i)[cursor] = <<argv[i].keys[1], Value(argv, i)>>
    BY <2>1, <2>2, NamesShape
  <2>4. /\ Text(argv[i + 1]) = Value(argv, i)
        /\ UpTo(argv, <<i + 2, 1>>) = UpTo(argv, here) \cup {here}
        /\ InOptions(argv, i + 2, 1)
    BY <1>a, <2>1, <2>2, <2>3, Ahead DEF Text, ValueFollows
  <2>5. Text(argv[i + 1]) \in Texts /\ i + 2 \in 1..(Len(argv) + 1)
    BY <1>0, <2>1, ArgumentType
  <2> QED
    BY <1>3, <1>b, <2>1, <2>3, <2>4, <2>5, DispatchFollows DEF ParseShortValue
<1>4. CASE ParseShortRun
  <2> DEFINE key == argv[i].keys[cursor]
             last == cursor = Len(argv[i].keys)
             n == IF last THEN i + 1 ELSE i
             c == IF last THEN 1 ELSE cursor + 1
  <2>1. At("short") /\ ~(Len(argv[i].keys) = 1 /\ ValueFollows)
    BY <1>4 DEF ParseShortRun
  <2>2. /\ argv \in Seq(Arguments) /\ argv[i].form = "short"
        /\ ~(TakesValue(argv[i]) /\ ValueFollows)
        /\ i \in 1..(Stop(argv) - 1) /\ i \in DOMAIN argv
        /\ cursor \in DOMAIN Names(argv, i) /\ cursor \in Nat \ {0}
    BY <2>1, OptionAt DEF TakesValue
  <2>3. /\ Len(argv[i].keys) \in Nat \ {0} /\ DOMAIN Names(argv, i) = 1..Len(argv[i].keys)
        /\ Names(argv, i)[cursor] = <<key, Value(argv, i)>>
    BY <2>2, NamesShape
  <2>4. Value(argv, i) = NoText
    <3>1. ASSUME ValueFollows PROVE ~TakesValue(argv[i])
      BY <2>2, <3>1
    <3> QED
      BY <1>a, <2>2, <3>1 DEF Value, TakesNext
  <2>5. CASE key = Help /\ PrintHelp
    BY <1>4, <2>1, <2>3, <2>5, HelpFollows DEF ParseShortRun
  <2>6. CASE Dispatch(key, NoText, n, c)
    <3>1. /\ n \in 1..(Len(argv) + 1) /\ c \in Nat \ {0}
          /\ UpTo(argv, <<n, c>>) = UpTo(argv, here) \cup {here}
          /\ InOptions(argv, n, c)
      <4>1. CASE last
        <5>1. \A l \in DOMAIN Names(argv, i) : l <= cursor
          BY <2>3, <4>1
        <5>2. /\ UpTo(argv, <<i + 1, 1>>) = UpTo(argv, here) \cup {here}
              /\ InOptions(argv, i + 1, 1)
          BY <1>a, <2>2, <5>1, Ahead
        <5>3. i + 1 \in 1..(Len(argv) + 1)
          BY <1>0, <2>1, ArgumentType
        <5> QED
          BY <4>1, <5>2, <5>3
      <4>2. CASE ~last
        <5>1. cursor + 1 \in DOMAIN Names(argv, i) /\ cursor + 1 # 1 /\ cursor + 1 \in Nat \ {0}
          BY <2>2, <2>3, <4>2
        <5>2. UpTo(argv, <<i, cursor + 1>>) = UpTo(argv, here) \cup {here}
          BY <2>2, NextKey
        <5>3. i < Stop(argv) /\ i <= Stop(argv) /\ i \in 1..(Len(argv) + 1)
          BY <2>2, StopFits
        <5>4. InOptions(argv, i, cursor + 1)
          BY <5>1, <5>3 DEF InOptions
        <5> QED
          BY <4>2, <5>1, <5>2, <5>3, <5>4
      <4> QED
        BY <4>1, <4>2
    <3>2. Names(argv, i)[cursor] = <<key, NoText>>
      BY <2>3, <2>4
    <3> HIDE DEF key, n, c, last
    <3> QED
      BY <1>4, <1>b, <2>1, <2>6, <3>1, <3>2, DispatchFollows DEF ParseShortRun
  <2> QED
    BY <1>4, <2>5, <2>6 DEF ParseShortRun
<1> QED
  BY <1>1, <1>2, <1>3, <1>4

LEMMA PositionalFollows ==
    ASSUME PathInv, EndOfOptions \/ Positional \/ EndOfPositional
    PROVE  Reached' /\ FollowsArguments'
<1> DEFINE here == <<i, cursor>>
<1>0. /\ argv \in Seq(Arguments) /\ Len(argv) \in Nat /\ i \in 1..(Len(argv) + 1)
      /\ DOMAIN argv = 1..Len(argv) /\ cursor \in Nat \ {0}
      /\ positional \in Seq(DOMAIN options) /\ Len(positional) \in Nat
      /\ DOMAIN positional = 1..Len(positional)
  <2>1. /\ argv \in Seq(Arguments) /\ i \in 1..(Len(argv) + 1) /\ cursor \in Nat \ {0}
        /\ positional \in Seq(DOMAIN options)
    BY DEF PathInv, CmdoptInv, TypeOK
  <2> QED
    BY <2>1
<1>1. CASE EndOfOptions
  <2>1. phase = "options" /\ InOptions(argv, i, cursor) /\ Places = UpTo(argv, here)
        /\ outcome = "none"
    BY <1>1 DEF EndOfOptions, At, PathInv, CmdoptInv, FinishChecked, Reached
  <2>2. i > Len(argv) \/ (i \in DOMAIN argv /\ argv[i].form \in {"stop", "dash", "word"})
    BY <1>0, <1>1 DEF EndOfOptions, At
  <2>3. cursor = 1
    <3>1. i \in DOMAIN argv => DOMAIN Names(argv, i) = {}
      BY <1>0, <2>2, NamesShape
    <3>2. i < Stop(argv) => i \in DOMAIN argv
      BY <1>0, StopFits
    <3> QED
      BY <2>1, <3>1, <3>2 DEF InOptions
  <2>4. i = Stop(argv)
    <3>1. i <= Stop(argv)
      BY <2>1 DEF InOptions
    <3>2. CASE i > Len(argv)
      BY <1>0, <3>1, <3>2, StopFits
    <3>3. CASE i \in DOMAIN argv /\ argv[i].form \in {"stop", "dash", "word"}
      <4>1. ~IsValue(argv, i)
        BY <1>0, <2>1, <2>3, <3>3 DEF InOptions
      <4>2. Stops(argv, i)
        BY <3>3, <4>1 DEF Stops
      <4> QED
        BY <1>0, <3>1, <4>2, StopFits
    <3> QED
      BY <2>2, <3>2, <3>3
  <2>5. i' = From(argv)
    BY <1>0, <1>1, <2>4 DEF EndOfOptions, At, From
  <2>6. /\ phase' = "positional" /\ cursor' = 1 /\ outcome' = "none" /\ Places' = Places
        /\ UNCHANGED <<argv, named, positional, calls>>
    BY <1>1, <2>1 DEF EndOfOptions, registry, Places
  <2>7. Places = UpTo(argv, <<From(argv), 1>>)
    BY <1>0, <2>1, <2>3, <2>4, NextIsLeft
  <2>8. From(argv) = From(argv) + 1 - 1 /\ 1 <= Len(positional) + 1
    BY <1>0, UsesShape
  <2>9. Reached'
    BY <2>5, <2>6, <2>7, <2>8 DEF Reached
  <2>10. FollowsArguments'
    BY <2>1, <2>6, FollowsOn DEF PathInv, Scanning
  <2> QED
    BY <2>9, <2>10
<1>2. CASE Positional
  <2>1. /\ phase = "positional" /\ i <= Len(argv) /\ cursor <= Len(positional)
        /\ i = From(argv) + cursor - 1
    BY <1>2 DEF Positional, PathInv, Reached
  <2>2. /\ i \in From(argv)..Len(argv) /\ cursor = i - From(argv) + 1
        /\ cursor \in DOMAIN positional /\ i + 1 = From(argv) + (cursor + 1) - 1
        /\ cursor + 1 <= Len(positional) + 1
        /\ i + 1 \in 1..(Len(argv) + 1) /\ cursor + 1 \in Nat \ {0}
    BY <1>0, <2>1, UsesShape
  <2>3. /\ here \in LeftUses(argv)
        /\ UpTo(argv, <<i + 1, cursor + 1>>) = UpTo(argv, here) \cup {here}
    BY <1>0, <2>2, NextLeft
  <2>4. positional[cursor] \in DOMAIN options
    BY ONLY <1>0, <2>2, ElementOfSeq
  <2>5. Text(argv[i]) \in Texts \cup {NoText}
    <3>1. argv[i] \in Arguments
      BY <1>0, <2>1, NamesShape
    <3>2. CASE argv[i].form = "word"
      BY <3>1, <3>2 DEF Arguments, Text
    <3>3. CASE argv[i].form # "word"
      BY <3>3 DEF Text, Texts, Tails
    <3> QED
      BY <3>2, <3>3
  <2>6. AsAsked([option |-> positional[cursor], text |-> Text(argv[i]), place |-> here])
    <3> DEFINE call == [option |-> positional[cursor], text |-> Text(argv[i]), place |-> here]
    <3>1. /\ call.option = positional[here[2]] /\ call.text = Text(argv[here[1]])
          /\ call.place = here /\ here[2] \in DOMAIN positional
      BY <2>2
    <3> HIDE DEF call, here
    <3>2. AsAsked(call)
      BY <2>3, <3>1 DEF AsAsked
    <3> QED
      BY <3>2 DEF call
  <2> QED
    BY <1>2, <2>1, <2>2, <2>3, <2>4, <2>5, <2>6, RunFollows DEF Positional, Scanners
<1>3. CASE EndOfPositional
  <2>1. /\ phase = "positional" /\ ~(i <= Len(argv) /\ cursor <= Len(positional))
        /\ i = From(argv) + cursor - 1 /\ cursor <= Len(positional) + 1
        /\ Places = UpTo(argv, here) /\ outcome = "none"
    BY <1>3 DEF EndOfPositional, PathInv, CmdoptInv, FinishChecked, Reached
  <2>2. CASE i <= Len(argv) /\ Throw("unhandled_argument")
    <3>1. cursor = Len(positional) + 1
      BY <1>0, <2>1, <2>2
    <3>2. i \in From(argv)..Len(argv) /\ cursor = i - From(argv) + 1
      BY <1>0, <2>1, <2>2, UsesShape
    <3>3. here \in LeftUses(argv)
      BY <1>0, <3>2, NextLeft
    <3> QED
      BY <1>3, <2>1, <2>2, <3>1, <3>3, EndFollows DEF EndOfPositional, Throw, Scanners
  <2>3. CASE i > Len(argv) /\ phase' = "finish" /\ cursor' = 1 /\ UNCHANGED <<i, outcome>>
    <3>1. i = Len(argv) + 1
      BY <1>0, <2>3
    <3>2. Places = Uses(argv)
      BY <1>0, <2>1, <3>1, NoneBehind
    <3>3. /\ phase' = "finish" /\ outcome' = "none" /\ Places' = Places
          /\ UNCHANGED <<argv, named, positional, calls>>
      BY <1>3, <2>1, <2>3 DEF EndOfPositional, registry, Places
    <3>4. Reached'
      BY <3>2, <3>3 DEF Reached
    <3>5. FollowsArguments'
      BY <2>1, <3>3, FollowsOn DEF PathInv, Scanning
    <3> QED
      BY <3>4, <3>5
  <2> QED
    BY <1>3, <2>2, <2>3 DEF EndOfPositional
<1> QED
  BY <1>1, <1>2, <1>3

LEMMA FinishFollows ==
    ASSUME PathInv, Finish \/ Return
    PROVE  Reached' /\ FollowsArguments'
<1>1. /\ phase = "finish" /\ outcome = "none" /\ Places = Uses(argv)
      /\ phase' \in {"finish", "over"} /\ outcome' \in {"none", "returned", "invalid_required"}
      /\ Places' = Places /\ UNCHANGED <<argv, named, positional, calls>>
  BY DEF Finish, Return, Throw, PathInv, CmdoptInv, FinishChecked, Reached, registry, Places
<1>2. Reached'
  BY <1>1 DEF Reached
<1>3. FollowsArguments'
  BY <1>1, FollowsOn DEF PathInv, Scanning
<1> QED
  BY <1>2, <1>3

\* A scan starts at its first argument and with no calls behind it.
LEMMA ScanFollows ==
    ASSUME PathInv, calls = <<>>, NEW args \in Args, Scan(args)
    PROVE  Reached' /\ FollowsArguments'
<1>1. /\ phase' = "options" /\ argv' = args /\ i' = 1 /\ cursor' = 1 /\ calls' = <<>>
      /\ outcome' = "none"
  BY DEF Scan, PathInv, CmdoptInv, FinishChecked
<1>2. args \in Seq(Arguments)
  BY CmdoptAssumption
<1>3. Places' = {}
  BY <1>1 DEF Places
<1>4. UpTo(args, <<1, 1>>) = {}
  <2>1. ASSUME NEW q \in Uses(args) PROVE ~Earlier(q, <<1, 1>>)
    <3>1. q[1] \in Nat \ {0} /\ q[2] \in Nat \ {0}
      BY <1>2, UsesShape
    <3> QED
      BY <3>1 DEF Earlier
  <2> QED
    BY <2>1 DEF UpTo
<1>5. InOptions(args, 1, 1)
  BY <1>2, StopFits DEF InOptions, IsValue
<1>6. Reached'
  BY <1>1, <1>3, <1>4, <1>5 DEF Reached
<1>7. FollowsArguments'
  BY <1>1 DEF FollowsArguments
<1> QED
  BY <1>6, <1>7

LEMMA InitFollows == Init => PathInv
<1>1. Init => Reached /\ FollowsArguments
  BY DEF Init, Reached, FollowsArguments, Scanning
<1> QED
  BY <1>1, InitInv DEF PathInv

LEMMA NextFollows == PathInv /\ [Next]_vars => PathInv'
<1> SUFFICES ASSUME PathInv, [Next]_vars PROVE Reached' /\ FollowsArguments'
  BY NextKeeps DEF PathInv
<1>1. CASE \E args \in Args : Scan(args)
  <2>1. calls = <<>>
    BY <1>1 DEF Scan, PathInv, Reached
  <2> QED
    BY <1>1, <2>1, ScanFollows
<1>2. CASE Add \/ AppendPositional \/ Require
  <2>1. /\ phase = "idle" /\ phase' = "idle" /\ outcome' = outcome /\ calls' = calls
        /\ outcome = "none" /\ calls = <<>>
    BY <1>2 DEF Add, AppendPositional, Require, Called, PathInv, CmdoptInv, FinishChecked, Reached
  <2> QED
    BY <2>1 DEF Reached, FollowsArguments, Scanning
<1>3. CASE Resume \/ Restart
  BY <1>3 DEF Resume, Restart, Reached, FollowsArguments, Scanning
<1>4. CASE UNCHANGED vars
  <2>1. /\ UNCHANGED <<named, positional, phase, argv, i, cursor, outcome, calls>>
        /\ Places' = Places
    BY <1>4 DEF vars, Places
  <2>2. Reached'
    BY <2>1 DEF PathInv, Reached
  <2>3. CASE Scanning
    <3>1. FollowsArguments
      BY DEF PathInv
    <3>2. FollowsArguments'
      BY <2>1, <2>3, <3>1, CallsStay DEF FollowsArguments, Known
    <3> QED
      BY <2>2, <3>2
  <2>4. CASE ~Scanning
    BY <2>1, <2>2, <2>4 DEF FollowsArguments, Scanning
  <2> QED
    BY <2>3, <2>4
<1> QED
  BY <1>1, <1>2, <1>3, <1>4, ParseFollows, PositionalFollows, FinishFollows DEF Next, Step

-----------------------------------------------------------------------------
(* The variables.                                                          *)

\* A count that wraps around at every step has wrapped around at the end.
LEMMA CountWraps ==
    ASSUME NEW m \in Nat \ {0}, NEW n \in Nat
    PROVE  /\ ((n % m) + 1) % m = (n + 1) % m
           /\ n < m => n % m = n
<1> DEFINE q == n \div m
           r == n % m
<1>1. q \in Nat /\ r \in 0..(m - 1) /\ n = m * q + r
  OBVIOUS
<1>2. n < m => n % m = n
  OBVIOUS
<1>0. \A x \in Nat, s \in 0..(m - 1) : (m * x + s) % m = s
  OBVIOUS
<1> HIDE DEF q, r
<1>3. CASE r + 1 < m
  <2>1. r + 1 \in 0..(m - 1) /\ n + 1 = m * q + (r + 1)
    BY <1>1, <1>3
  <2>2. (m * q + (r + 1)) % m = r + 1
    BY ONLY <1>0, <1>1, <2>1
  <2>3. (r + 1) % m = r + 1
    BY ONLY <2>1, m \in Nat \ {0}
  <2> QED
    BY <1>2, <2>1, <2>2, <2>3 DEF r
<1>4. CASE r + 1 = m
  <2>1. n + 1 = m * (q + 1) + 0 /\ q + 1 \in Nat /\ 0 \in 0..(m - 1)
    BY <1>1, <1>4
  <2>2. (m * (q + 1) + 0) % m = 0
    BY ONLY <1>0, <2>1
  <2>3. (r + 1) % m = 0
    BY <1>4
  <2> QED
    BY <1>2, <2>1, <2>2, <2>3 DEF r
<1> QED
  BY <1>1, <1>3, <1>4

\* What execute stores without an error does not depend on what was there,
\* apart from a count that is given no text.
LEMMA ExecuteForgets ==
    ASSUME NEW o, NEW p, NEW t, o.kind = p.kind,
           Execute(o, t).error = "none"
    PROVE  /\ o.kind = "present" => Execute(o, t).seen = TRUE
           /\ o.kind \in {"value", "bool", "bytes"} => Execute(o, t).data = Execute(p, t).data
           /\ o.kind = "count" /\ t = NoText => Execute(o, t).data = (o.data + 1) % (Top + 1)
           /\ o.kind = "count" /\ t # NoText =>
                  t.n # None /\ ~(t.n > Top) /\ Execute(o, t).data = t.n
<1>1. CASE o.kind = "present"
  BY <1>1 DEF Execute, Execute_present, Done, Refused
<1>2. ASSUME Execute_value(o, t).error = "none"
      PROVE  /\ t # NoText /\ t.n # None /\ ~(t.n > Top)
             /\ Execute_value(o, t).data = t.n /\ Execute_value(p, t).data = t.n
  <2>1. t # NoText
    BY <1>2 DEF Execute_value, Refused
  <2>2. t.n # None
    <3> SUFFICES ASSUME t.n = None PROVE FALSE
      OBVIOUS
    <3>1. Execute_value(o, t) =
              Refused(o, IF t.tail = "" THEN o.data ELSE 0, "invalid_value")
      BY <2>1 DEF Execute_value
    <3>2. \A d : Refused(o, d, "invalid_value").error = "invalid_value"
      BY DEF Refused
    <3> QED
      BY ONLY <1>2, <3>1, <3>2
  <2>3. /\ Execute_value(o, t) = IF t.n > Top THEN Refused(o, Top, "invalid_value") ELSE Done(t.n)
        /\ Execute_value(p, t) = IF t.n > Top THEN Refused(p, Top, "invalid_value") ELSE Done(t.n)
    BY <2>1, <2>2 DEF Execute_value
  <2>4. ~(t.n > Top)
    BY ONLY <1>2, <2>3 DEF Refused
  <2> QED
    BY ONLY <2>1, <2>2, <2>3, <2>4 DEF Done
<1>3. CASE o.kind = "value"
  BY <1>2, <1>3 DEF Execute
<1>4. CASE o.kind = "count"
  BY <1>2, <1>4 DEF Execute, Execute_count, Done
<1>5. CASE o.kind = "bool"
  <2>1. /\ Execute(o, t) = Execute_bool(o, t) /\ Execute(p, t) = Execute_bool(p, t)
    BY <1>5 DEF Execute
  <2>2. t # NoText /\ (True(t) \/ False(t))
    BY <2>1 DEF Execute_bool, Refused
  <2>3. /\ Execute_bool(o, t) = Unmarked(o, Bit(True(t)))
        /\ Execute_bool(p, t) = Unmarked(p, Bit(True(t)))
    BY <2>2 DEF Execute_bool
  <2> QED
    BY <1>5, <2>1, <2>3 DEF Unmarked
<1>6. CASE o.kind = "bytes"
  <2>1. /\ Execute(o, t) = Execute_bytes(o, t) /\ Execute(p, t) = Execute_bytes(p, t)
    BY <1>6 DEF Execute
  <2>0. Execute_bytes(o, t).error = "none"
    BY <2>1
  <2>a. \A d, e : Refused(o, d, e).error = e
    BY DEF Refused
  <2>2. t # NoText
    <3> SUFFICES ASSUME t = NoText PROVE FALSE
      OBVIOUS
    <3>1. Execute_bytes(o, t) = Refused(o, o.data, "invalid_null")
      BY DEF Execute_bytes
    <3> QED
      BY ONLY <2>0, <2>a, <3>1
  <2>3. t.n # None /\ t.tail \in {"", "k"}
    <3> SUFFICES ASSUME t.n = None \/ t.tail \notin {"", "k"} PROVE FALSE
      OBVIOUS
    <3>1. Execute_bytes(o, t) = Refused(o, o.data, "invalid_value")
      BY <2>2 DEF Execute_bytes
    <3> QED
      BY ONLY <2>0, <2>a, <3>1
  <2>4. CASE t.tail = ""
    <3>1. /\ Execute_bytes(o, t) = Unmarked(o, Capped(t.n))
          /\ Execute_bytes(p, t) = Unmarked(p, Capped(t.n))
      BY <2>2, <2>3, <2>4 DEF Execute_bytes
    <3> QED
      BY <1>6, <2>1, <3>1 DEF Unmarked
  <2>5. CASE t.tail = "k"
    <3>1. /\ Execute_bytes(o, t) = Unmarked(o, (Capped(t.n) * Kilo) % (Top + 1))
          /\ Execute_bytes(p, t) = Unmarked(p, (Capped(t.n) * Kilo) % (Top + 1))
      BY <2>2, <2>3, <2>5 DEF Execute_bytes
    <3> QED
      BY <1>6, <2>1, <3>1 DEF Unmarked
  <2> QED
    BY <2>3, <2>4, <2>5
<1> QED
  BY <1>1, <1>3, <1>4, <1>5, <1>6

\* finish has stored the presence.
Finished(o) ==
    \/ outcome = "returned"
    \/ phase = "finish" /\ o < cursor
    \/ outcome = "invalid_required" /\ o <= cursor

\* No execute has thrown.
Worked == outcome \notin {"invalid_value", "invalid_null"}

\* The variable of an option at any point of a scan.
DataOf(o) ==
    /\ before[o].kind = options[o].kind
    /\ options[o].kind = "present" =>
           /\ Worked => (options[o].seen <=> CallsTo(o) # {})
           /\ options[o].data = IF Finished(o) THEN Bit(CallsTo(o) # {}) ELSE before[o].data
    /\ options[o].kind # "present" /\ CallsTo(o) = {} => options[o].data = before[o].data
    /\ options[o].kind = "count" /\ Worked =>
           /\ \A c \in TextsTo(o) : calls[c].text.n \in Nat
           /\ CallsTo(o) # {} =>
                  \E n \in Counted(o) : n \in Nat /\ options[o].data = n % (Top + 1)
    /\ options[o].kind \in {"value", "bool", "bytes"} /\ Worked /\ CallsTo(o) # {} =>
           \E c \in Last(CallsTo(o)) :
               options[o].data = Execute(before[o], calls[c].text).data

DataInv ==
    Scanning => /\ before \in Seq(Options) /\ DOMAIN before = DOMAIN options
                /\ \A o \in DOMAIN options : DataOf(o)

\* A variable that a step does not touch, of an option that it does not call.
LEMMA DataKept ==
    ASSUME NEW q, DataOf(q), before' = before,
           CallsTo(q)' = CallsTo(q), \A c \in CallsTo(q) : calls'[c] = calls[c],
           options'[q].kind = options[q].kind, options'[q].data = options[q].data,
           options'[q].seen = options[q].seen,
           options[q].kind = "present" => (Finished(q)' <=> Finished(q)),
           Worked' => Worked
    PROVE  DataOf(q)'
<1>1. TextsTo(q)' = TextsTo(q)
  BY DEF TextsTo
<1>2. Counted(q)' = Counted(q)
  <2>1. \A c \in TextsTo(q) : calls'[c] = calls[c]
    BY DEF TextsTo
  <2> QED
    BY <1>1, <2>1 DEF Counted, Last
<1>3. \A c \in Last(CallsTo(q)) : calls'[c] = calls[c]
  BY DEF Last
<1>4. \A c \in TextsTo(q)' : calls'[c] = calls[c]
  BY <1>1 DEF TextsTo
<1> QED
  BY <1>1, <1>2, <1>3, <1>4 DEF DataOf

\* One more call, of option o, and what is counted then.
LEMMA CallsGrow ==
    ASSUME NEW them, calls \in Seq(CallOf(them)), NEW call \in CallOf(them),
           calls' = Append(calls, call)
    PROVE  /\ Len(calls) \in Nat /\ DOMAIN calls = 1..Len(calls)
           /\ calls'[Len(calls) + 1] = call
           /\ \A c \in DOMAIN calls : calls'[c] = calls[c]
           /\ \A q : CallsTo(q) \subseteq DOMAIN calls /\ IsFiniteSet(CallsTo(q))
           /\ \A q : CallsTo(q)' = IF q = call.option
                                   THEN CallsTo(q) \cup {Len(calls) + 1} ELSE CallsTo(q)
<1>1. /\ Len(calls) \in Nat /\ DOMAIN calls = 1..Len(calls)
      /\ DOMAIN calls' = DOMAIN calls \cup {Len(calls) + 1}
      /\ calls'[Len(calls) + 1] = call
      /\ \A c \in DOMAIN calls : calls'[c] = calls[c]
  OBVIOUS
<1>2. ASSUME NEW q
      PROVE  /\ CallsTo(q) \subseteq DOMAIN calls /\ IsFiniteSet(CallsTo(q))
             /\ CallsTo(q)' = IF q = call.option
                              THEN CallsTo(q) \cup {Len(calls) + 1} ELSE CallsTo(q)
  <2>1. CallsTo(q) \subseteq 1..Len(calls)
    BY <1>1 DEF CallsTo
  <2>2. IsFiniteSet(1..Len(calls))
    BY <1>1, FS_Interval
  <2>3. IsFiniteSet(CallsTo(q))
    BY ONLY <2>1, <2>2, FS_Subset
  <2>4. CallsTo(q)' = IF q = call.option
                      THEN CallsTo(q) \cup {Len(calls) + 1} ELSE CallsTo(q)
    BY ONLY <1>1 DEF CallsTo
  <2> QED
    BY <1>1, <2>1, <2>3, <2>4
<1> QED
  BY <1>1, <1>2

\* What a call of a count without an error leaves.
CountedOn(o, t) == IF t = NoText THEN (options[o].data + 1) % (Top + 1) ELSE t.n

\* A call of a count counts, and starts anew from a text.
LEMMA CountGrows ==
    ASSUME NEW o \in DOMAIN options, NEW t \in Texts \cup {NoText},
           calls \in Seq(CallOf(DOMAIN options)),
           NEW call \in CallOf(DOMAIN options), call.option = o, call.text = t,
           calls' = Append(calls, call), before' = before,
           before[o].data \in Nat, options[o].data \in 0..Top,
           CallsTo(o) = {} => options[o].data = before[o].data,
           CallsTo(o) # {} => \E n \in Counted(o) : n \in Nat /\ options[o].data = n % (Top + 1),
           \A c \in TextsTo(o) : calls[c].text.n \in Nat,
           t # NoText => t.n # None /\ ~(t.n > Top)
    PROVE  /\ \A c \in TextsTo(o)' : calls'[c].text.n \in Nat
           /\ \E n \in Counted(o)' : n \in Nat /\ CountedOn(o, t) = n % (Top + 1)
<1> DEFINE data == CountedOn(o, t)
           N == Len(calls) + 1
           m == Top + 1
           C == CallsTo(o)
           T == TextsTo(o)
           Behind(c) == {d \in C : d > c}
<1>1. /\ Len(calls) \in Nat /\ C \subseteq 1..Len(calls) /\ IsFiniteSet(C)
      /\ CallsTo(o)' = C \cup {N} /\ calls'[N] = call
      /\ \A c \in C : calls'[c] = calls[c]
  BY CallsGrow
<1>2. T \subseteq C /\ N \notin C /\ N \in Nat
  BY <1>1 DEF TextsTo
<1>3. m \in Nat \ {0} /\ Top \in Nat
  BY CmdoptAssumption
<1>4. CASE t = NoText
  <2>1. TextsTo(o)' = T
    BY <1>1, <1>4 DEF TextsTo
  <2>2. data = (options[o].data + 1) % m
    BY <1>4 DEF CountedOn
  <2>3. ASSUME NEW n \in Nat, options[o].data = n % m, n + 1 \in Counted(o)'
        PROVE  \E k \in Counted(o)' : k \in Nat /\ data = k % m
    <3>1. data = (n + 1) % m
      BY ONLY <1>3, <2>2, <2>3, CountWraps
    <3> QED
      BY ONLY <2>3, <3>1
  <2>6. \A c \in TextsTo(o)' : calls'[c].text.n \in Nat
    BY <1>1, <1>2, <2>1
  <2>4. CASE T = {}
    <3> DEFINE n == before[o].data + Cardinality(C)
    <3>1. Cardinality(C \cup {N}) = Cardinality(C) + 1 /\ Cardinality(C) \in Nat
      BY <1>1, <1>2, FS_AddElement, FS_CardinalityType
    <3>2. Counted(o)' = {n + 1} /\ Counted(o) = {n} /\ n \in Nat
      <4>1. Counted(o)' = {before[o].data + Cardinality(C \cup {N})}
        BY <1>1, <2>1, <2>4 DEF Counted
      <4>2. Counted(o) = {n}
        BY <2>4 DEF Counted
      <4>3. before[o].data + Cardinality(C \cup {N}) = n + 1 /\ n \in Nat
        <5> DEFINE k == Cardinality(C)
                   l == before[o].data
        <5>1. l \in Nat /\ k \in Nat /\ Cardinality(C \cup {N}) = k + 1
          BY <3>1
        <5> HIDE DEF k, l
        <5>2. l + Cardinality(C \cup {N}) = (l + k) + 1 /\ l + k \in Nat
          BY ONLY <5>1
        <5> QED
          BY <5>2 DEF k, l
      <4> QED
        BY ONLY <4>1, <4>2, <4>3
    <3>3. options[o].data = n % m
      <4>1. CASE C = {}
        <5>1. Cardinality(C) = 0
          BY <4>1, FS_EmptySet
        <5>2. n = options[o].data /\ options[o].data \in Nat /\ options[o].data < m
          BY <1>3, <4>1, <5>1
        <5> HIDE DEF n, m
        <5> QED
          BY ONLY <1>3, <5>2, CountWraps
      <4>2. CASE C # {}
        BY <3>2, <4>2
      <4> QED
        BY <4>1, <4>2
    <3> HIDE DEF n
    <3>4. n + 1 \in Counted(o)' /\ n \in Nat
      BY <3>2
    <3>5. \E k \in Counted(o)' : k \in Nat /\ data = k % m
      BY ONLY <2>3, <3>3, <3>4
    <3> QED
      BY <2>6, <3>5
  <2>5. CASE T # {}
    <3>1. C # {}
      BY <1>2, <2>5
    <3>2. PICK c \in Last(T) :
              /\ calls[c].text.n + Cardinality(Behind(c)) \in Nat
              /\ options[o].data = (calls[c].text.n + Cardinality(Behind(c))) % m
      BY <2>5, <3>1 DEF Counted
    <3>3. c \in C /\ c \in 1..Len(calls)
      BY <1>1, <1>2 DEF Last
    <3>4. /\ Cardinality(Behind(c) \cup {N}) = Cardinality(Behind(c)) + 1
          /\ Cardinality(Behind(c)) \in Nat
      <4>1. IsFiniteSet(Behind(c)) /\ N \notin Behind(c)
        BY <1>1, <1>2, FS_Subset
      <4> HIDE DEF Behind
      <4> QED
        BY <4>1, FS_AddElement, FS_CardinalityType
    <3>5. {d \in CallsTo(o)' : d > c} = Behind(c) \cup {N}
      BY <1>1, <3>3
    <3>6. calls[c].text.n + Cardinality(Behind(c) \cup {N}) \in Counted(o)'
      <4>1. Counted(o)' = {calls'[d].text.n + Cardinality({e \in CallsTo(o)' : e > d}) : d \in Last(T)}
        BY <2>1, <2>5 DEF Counted, Last
      <4> QED
        BY <1>1, <3>3, <3>5, <4>1
    <3>7. calls[c].text.n + Cardinality(Behind(c) \cup {N})
              = (calls[c].text.n + Cardinality(Behind(c))) + 1
      <4>1. calls[c].text.n \in Nat
        BY DEF Last
      <4> DEFINE k == Cardinality(Behind(c))
                 l == calls[c].text.n
      <4>2. l \in Nat /\ k \in Nat /\ Cardinality(Behind(c) \cup {N}) = k + 1
        BY <3>4, <4>1
      <4> HIDE DEF k, l
      <4>3. l + Cardinality(Behind(c) \cup {N}) = (l + k) + 1
        BY ONLY <4>2
      <4> QED
        BY <4>3 DEF k, l
    <3> DEFINE n == calls[c].text.n + Cardinality(Behind(c))
    <3>8. n + 1 \in Counted(o)' /\ n \in Nat /\ options[o].data = n % m
      BY <3>2, <3>6, <3>7
    <3> HIDE DEF n, m
    <3>9. \E k \in Counted(o)' : k \in Nat /\ data = k % m
      BY ONLY <2>3, <3>8
    <3> QED
      BY <2>6, <3>9 DEF m
  <2> QED
    BY <2>4, <2>5
<1>5. CASE t # NoText
  <2>1. t.n \in Nat /\ t.n < m /\ data = t.n
    <3>1. t \in Texts
      BY <1>5
    <3> QED
      BY <1>3, <1>5, <3>1 DEF Texts, CountedOn
  <2>2. TextsTo(o)' = T \cup {N}
    BY <1>1, <1>5 DEF TextsTo
  <2>3. N \in Last(TextsTo(o))'
    BY <1>1, <1>2, <2>2 DEF Last
  <2>4. {d \in CallsTo(o)' : d > N} = {}
    BY <1>1, <1>2
  <2>5. t.n + 0 \in Counted(o)'
    <3>1. Counted(o)' = {calls'[d].text.n + Cardinality({e \in CallsTo(o)' : e > d}) : d \in Last(TextsTo(o))'}
      BY <2>2 DEF Counted
    <3>2. calls'[N].text.n + Cardinality({e \in CallsTo(o)' : e > N}) \in Counted(o)'
      BY <2>3, <3>1
    <3> QED
      BY <1>1, <2>4, <3>2, FS_EmptySet
  <2>6. data = (t.n + 0) % m
    <3>1. t.n + 0 = t.n
      BY <2>1
    <3> QED
      BY <1>3, <2>1, <3>1, CountWraps
  <2>7. \A c \in TextsTo(o)' : calls'[c].text.n \in Nat
    BY <1>1, <1>2, <2>1, <2>2
  <2>8. t.n + 0 \in Nat
    BY <2>1
  <2> HIDE DEF m
  <2>9. \E k \in Counted(o)' : k \in Nat /\ data = k % m
    BY ONLY <2>5, <2>6, <2>8
  <2> QED
    BY <2>7, <2>9 DEF m
<1> QED
  BY <1>4, <1>5

\* A call of an option does to its variable what DataOf says, and nothing to
\* the variables of the others.
LEMMA RunStores ==
    ASSUME CmdoptInv, DataInv, phase \in Scanners,
           NEW o \in DOMAIN options, NEW t \in Texts \cup {NoText},
           NEW n \in 1..(Len(argv) + 1), NEW c \in Nat \ {0},
           Run(o, t, n, c), UNCHANGED <<registry, argv, before>>
    PROVE  DataInv'
<1> DEFINE call == [option |-> o, text |-> t, place |-> <<i, cursor>>]
           done == Execute(options[o], t)
           N == Len(calls) + 1
<1>0. /\ calls \in Seq(CallOf(DOMAIN options)) /\ call \in CallOf(DOMAIN options)
      /\ call.option = o /\ call.text = t /\ calls' = Append(calls, call)
      /\ options \in Seq(Options) /\ DOMAIN options = 1..Len(options)
      /\ before' = before
  <2>1. calls \in Seq(CallOf(DOMAIN options)) /\ i \in Nat \ {0} /\ cursor \in Nat \ {0}
    BY DEF CmdoptInv, TypeOK, CallOf
  <2>2. options \in Seq(Options)
    BY DEF CmdoptInv, TypeOK, Options
  <2> QED
    BY <2>1, <2>2 DEF CallOf, Run
<1>1. /\ before \in Seq(Options) /\ DOMAIN before = DOMAIN options
      /\ \A q \in DOMAIN options : DataOf(q)
      /\ outcome = "none"
  BY DEF DataInv, Scanning, Scanners, CmdoptInv, FinishChecked
<1>2. options[o] \in Options /\ before[o] \in Options /\ options[o].data \in Data(options[o].kind)
  <2>1. options[o] \in Options
    BY ONLY <1>0, ElementOfSeq, o \in DOMAIN options
  <2>2. before[o] \in Options
    <3>1. o \in 1..Len(before)
      BY ONLY <1>1, LenProperties, o \in DOMAIN options
    <3> QED
      BY ONLY <1>1, <3>1, ElementOfSeq
  <2> QED
    BY <2>1, <2>2 DEF CmdoptInv, TypeOK
<1>3. done.error \in Errors
  BY <1>2, ExecuteType
<1>4. options' = [options EXCEPT ![o].data = done.data, ![o].seen = done.seen]
  BY DEF Run
<1>5. /\ phase' \in Scanners \cup {"over"} /\ (Worked' <=> done.error = "none")
      /\ Worked /\ outcome' \in {"none", "invalid_null", "invalid_value"}
  <2>1. CASE done.error = "none"
    BY <1>1, <2>1 DEF Run, Worked
  <2>2. CASE done.error # "none"
    BY <1>1, <1>3, <2>2 DEF Run, Throw, Worked, Errors
  <2> QED
    BY <2>1, <2>2
<1>6. \A q : ~Finished(q) /\ ~Finished(q)'
  BY <1>1, <1>5 DEF Finished, Scanners
<1>e. ASSUME done.error = "none"
      PROVE  /\ options[o].kind = "present" => done.seen = TRUE
             /\ options[o].kind \in {"value", "bool", "bytes"} =>
                    done.data = Execute(before[o], t).data
             /\ options[o].kind = "count" /\ t = NoText =>
                    done.data = (options[o].data + 1) % (Top + 1)
             /\ options[o].kind = "count" /\ t # NoText =>
                    t.n # None /\ ~(t.n > Top) /\ done.data = t.n
  <2>1. options[o].kind = before[o].kind
    BY <1>1 DEF DataOf
  <2>2. Execute(options[o], t).error = "none"
    BY <1>e
  <2> DEFINE old == options[o]
             new == before[o]
  <2>3. /\ old.kind = "present" => Execute(old, t).seen = TRUE
        /\ old.kind \in {"value", "bool", "bytes"} => Execute(old, t).data = Execute(new, t).data
        /\ old.kind = "count" /\ t = NoText => Execute(old, t).data = (old.data + 1) % (Top + 1)
        /\ old.kind = "count" /\ t # NoText =>
               t.n # None /\ ~(t.n > Top) /\ Execute(old, t).data = t.n
    <3>1. old.kind = new.kind /\ Execute(old, t).error = "none"
      BY <2>1, <2>2
    <3> HIDE DEF old, new
    <3> QED
      BY ONLY <3>1, ExecuteForgets
  <2> QED
    BY <2>3
<1> HIDE DEF call, done
<1>7. /\ DOMAIN options' = DOMAIN options
      /\ \A q \in DOMAIN options : q # o => options'[q] = options[q]
      /\ options'[o].kind = options[o].kind
      /\ options'[o].data = done.data /\ options'[o].seen = done.seen
  BY <1>0, <1>2, <1>4 DEF Options
<1>8. /\ N \in Nat /\ CallsTo(o) \subseteq 1..Len(calls) /\ Len(calls) \in Nat
      /\ CallsTo(o)' = CallsTo(o) \cup {N} /\ calls'[N] = call
      /\ \A q : \A k \in CallsTo(q) : calls'[k] = calls[k]
      /\ \A q : q # o => CallsTo(q)' = CallsTo(q)
  <2>1. Len(calls) \in Nat /\ \A q : CallsTo(q) \subseteq DOMAIN calls
    BY ONLY <1>0, CallsGrow
  <2> QED
    BY ONLY <1>0, <2>1, CallsGrow
<1>9. DataOf(o)'
  <2>1. before'[o].kind = options'[o].kind
    BY <1>0, <1>1, <1>7 DEF DataOf
  <2>2. ASSUME options'[o].kind = "present"
        PROVE  /\ Worked' => (options'[o].seen <=> CallsTo(o)' # {})
               /\ options'[o].data = before'[o].data
    <3>1. done.data = options[o].data
      BY <1>7, <2>2 DEF done, Execute, Execute_present, Done, Refused
    <3>2. Worked' => done.seen = TRUE
      BY <1>5, <1>7, <1>e, <2>2
    <3>3. options[o].data = before[o].data
      BY <1>1, <1>6, <1>7, <2>2 DEF DataOf
    <3> QED
      BY <1>0, <1>7, <1>8, <3>1, <3>2, <3>3
  <2>3. ASSUME options'[o].kind = "count", Worked'
        PROVE  /\ \A k \in TextsTo(o)' : calls'[k].text.n \in Nat
               /\ \E k \in Counted(o)' : k \in Nat /\ options'[o].data = k % (Top + 1)
    <3>1. /\ t = NoText => done.data = (options[o].data + 1) % (Top + 1)
          /\ t # NoText => t.n # None /\ ~(t.n > Top) /\ done.data = t.n
      BY <1>5, <1>7, <1>e, <2>3
    <3>2. /\ CallsTo(o) = {} => options[o].data = before[o].data
          /\ \A k \in TextsTo(o) : calls[k].text.n \in Nat
          /\ CallsTo(o) # {} =>
                 \E k \in Counted(o) : k \in Nat /\ options[o].data = k % (Top + 1)
      BY <1>1, <1>5, <1>7, <2>3 DEF DataOf
    <3>3. before[o].data \in Nat /\ options[o].data \in 0..Top
      BY <1>2, CmdoptAssumption DEF Options
    <3>4. options'[o].data = CountedOn(o, t)
      BY <1>7, <3>1 DEF CountedOn
    <3>5. t # NoText => t.n # None /\ ~(t.n > Top)
      BY <3>1
    <3>6. /\ \A k \in TextsTo(o)' : calls'[k].text.n \in Nat
          /\ \E k \in Counted(o)' : k \in Nat /\ CountedOn(o, t) = k % (Top + 1)
      BY ONLY <1>0, <3>2, <3>3, <3>5, CountGrows, o \in DOMAIN options,
              t \in Texts \cup {NoText}
    <3> QED
      BY <3>4, <3>6
  <2>4. ASSUME options'[o].kind \in {"value", "bool", "bytes"}, Worked'
        PROVE  \E k \in Last(CallsTo(o))' :
                   options'[o].data = Execute(before'[o], calls'[k].text).data
    <3>1. N \in Last(CallsTo(o))'
      BY <1>8 DEF Last
    <3>2. done.data = Execute(before[o], t).data
      BY <1>5, <1>7, <1>e, <2>4
    <3> QED
      BY <1>0, <1>7, <1>8, <3>1, <3>2
  <2>5. CallsTo(o)' # {}
    BY <1>8
  <2> QED
    BY <1>6, <2>1, <2>2, <2>3, <2>4, <2>5 DEF DataOf
<1>10. ASSUME NEW q \in DOMAIN options, q # o
       PROVE  DataOf(q)'
  BY <1>0, <1>1, <1>5, <1>6, <1>7, <1>8, <1>10, DataKept
<1> QED
  BY <1>0, <1>1, <1>7, <1>9, <1>10 DEF DataInv

\* A step that calls nothing and writes to no variable.
LEMMA RestStores ==
    ASSUME CmdoptInv, DataInv, Scanning, UNCHANGED <<options, calls, before>>,
           Worked' => Worked, \A q \in DOMAIN options : Finished(q)' <=> Finished(q)
    PROVE  DataInv'
<1>1. ASSUME NEW q \in DOMAIN options PROVE DataOf(q)'
  <2>1. CallsTo(q)' = CallsTo(q)
    BY DEF CallsTo
  <2> QED
    BY <2>1, DataKept DEF DataInv
<1> QED
  BY <1>1 DEF DataInv

LEMMA DispatchStores ==
    ASSUME CmdoptInv, DataInv, phase = "options", NEW key, NEW t \in Texts \cup {NoText},
           NEW n \in 1..(Len(argv) + 1), NEW c \in Nat \ {0},
           Dispatch(key, t, n, c), UNCHANGED <<registry, argv, before>>
    PROVE  DataInv'
<1>1. CASE Known(key) /\ Run(Handler(key), t, n, c)
  BY <1>1, HandlerType, RunStores DEF CmdoptInv, Scanners
<1>2. CASE Throw("invalid_key") /\ UNCHANGED <<options, calls>>
  <2>1. outcome = "none" /\ outcome' = "invalid_key" /\ phase' = "over"
    BY <1>2 DEF CmdoptInv, FinishChecked, Throw
  <2> QED
    BY <1>2, <2>1, RestStores DEF Worked, Finished, Scanning
<1> QED
  BY <1>1, <1>2 DEF Dispatch

LEMMA PrintHelpStores ==
    ASSUME CmdoptInv, DataInv, phase = "options", PrintHelp, UNCHANGED <<registry, argv, before>>
    PROVE  DataInv'
<1>1. outcome = "none" /\ outcome' = "none" /\ phase' = "exited"
  BY DEF CmdoptInv, FinishChecked, PrintHelp
<1> QED
  BY <1>1, RestStores DEF PrintHelp, Worked, Finished, Scanning

LEMMA ParseStores ==
    ASSUME CmdoptInv, DataInv, ParseLong \/ ParseAssign \/ ParseShortValue \/ ParseShortRun
    PROVE  DataInv'
<1>1. CASE ParseLong
  <2>1. At("long")
    BY <1>1 DEF ParseLong
  <2>2. CASE PrintHelp
    BY <1>1, <2>1, <2>2, PrintHelpStores DEF ParseLong, At
  <2>3. CASE ValueFollows /\ Dispatch(argv[i].key, Text(argv[i + 1]), i + 2, 1)
    BY <1>1, <2>1, <2>3, ArgumentType, DispatchStores DEF ParseLong, CmdoptInv
  <2>4. CASE Dispatch(argv[i].key, NoText, i + 1, 1)
    BY <1>1, <2>1, <2>4, ArgumentType, DispatchStores DEF ParseLong, CmdoptInv
  <2> QED
    BY <1>1, <2>2, <2>3, <2>4 DEF ParseLong
<1>2. CASE ParseAssign
  <2>1. At("assign")
    BY <1>2 DEF ParseAssign
  <2>2. CASE PrintHelp
    BY <1>2, <2>1, <2>2, PrintHelpStores DEF ParseAssign, At
  <2>3. CASE Dispatch(argv[i].key, argv[i].text, i + 1, 1)
    <3>1. argv[i] \in Arguments /\ argv[i].form = "assign"
      BY <2>1, ArgumentType DEF CmdoptInv
    <3>2. argv[i].text \in Texts
      BY <3>1 DEF Arguments
    <3> QED
      BY <1>2, <2>1, <2>3, <3>2, ArgumentType, DispatchStores DEF ParseAssign, CmdoptInv
  <2> QED
    BY <1>2, <2>2, <2>3 DEF ParseAssign
<1>3. CASE ParseShortValue
  BY <1>3, ArgumentType, DispatchStores DEF ParseShortValue, CmdoptInv
<1>4. CASE ParseShortRun
  <2> DEFINE key == argv[i].keys[cursor]
             last == cursor = Len(argv[i].keys)
             n == IF last THEN i + 1 ELSE i
             c == IF last THEN 1 ELSE cursor + 1
  <2>1. At("short")
    BY <1>4 DEF ParseShortRun
  <2>2. CASE PrintHelp
    BY <1>4, <2>1, <2>2, PrintHelpStores DEF ParseShortRun, At
  <2>3. CASE Dispatch(key, NoText, n, c)
    <3>1. i \in 1..(Len(argv) + 1) /\ cursor \in Nat \ {0} /\ phase = "options"
      BY <2>1 DEF CmdoptInv, TypeOK, At
    <3>2. n \in 1..(Len(argv) + 1) /\ c \in Nat \ {0}
      BY <2>1, <3>1, ArgumentType DEF CmdoptInv
    <3> HIDE DEF key, n, c
    <3> QED
      BY <1>4, <2>3, <3>1, <3>2, DispatchStores DEF ParseShortRun
  <2> QED
    BY <1>4, <2>2, <2>3 DEF ParseShortRun
<1> QED
  BY <1>1, <1>2, <1>3, <1>4

LEMMA PositionalStores ==
    ASSUME CmdoptInv, DataInv, EndOfOptions \/ Positional \/ EndOfPositional
    PROVE  DataInv'
<1>1. CASE EndOfOptions
  <2>1. /\ phase = "options" /\ phase' = "positional" /\ outcome = "none" /\ outcome' = "none"
        /\ UNCHANGED <<options, calls, before>>
    BY <1>1 DEF EndOfOptions, At, CmdoptInv, FinishChecked
  <2> QED
    BY <2>1, RestStores DEF Worked, Finished, Scanning
<1>2. CASE Positional
  <2>1. /\ positional \in Seq(DOMAIN options) /\ cursor \in 1..Len(positional)
        /\ argv \in Seq(Arguments) /\ i \in 1..Len(argv)
        /\ i + 1 \in 1..(Len(argv) + 1) /\ cursor + 1 \in Nat \ {0}
    <3>1. /\ positional \in Seq(DOMAIN options) /\ cursor \in Nat \ {0}
          /\ cursor <= Len(positional)
          /\ argv \in Seq(Arguments) /\ i \in 1..(Len(argv) + 1) /\ i <= Len(argv)
      BY <1>2 DEF CmdoptInv, TypeOK, Positional
    <3>2. Len(positional) \in Nat /\ Len(argv) \in Nat
      BY <3>1
    <3> QED
      BY ONLY <3>1, <3>2
  <2>2. positional[cursor] \in DOMAIN options /\ argv[i] \in Arguments
    BY ONLY <2>1, ElementOfSeq
  <2>3. Text(argv[i]) \in Texts \cup {NoText}
    <3>1. CASE argv[i].form = "word"
      BY <2>2, <3>1 DEF Arguments, Text
    <3>2. CASE argv[i].form # "word"
      BY <3>2 DEF Text, Texts, Tails
    <3> QED
      BY <3>1, <3>2
  <2> QED
    BY <1>2, <2>1, <2>2, <2>3, RunStores DEF Positional, Scanners
<1>3. CASE EndOfPositional
  <2>1. /\ phase = "positional" /\ outcome = "none" /\ UNCHANGED <<options, calls, before>>
    BY <1>3 DEF EndOfPositional, CmdoptInv, FinishChecked
  <2>2. CASE Throw("unhandled_argument")
    BY <2>1, <2>2, RestStores DEF Throw, Worked, Finished, Scanning
  <2>3. CASE phase' = "finish" /\ cursor' = 1 /\ UNCHANGED <<i, outcome>>
    <3>1. \A q \in DOMAIN options : ~(q < 1)
      BY DEF CmdoptInv, TypeOK
    <3> QED
      BY <2>1, <2>3, <3>1, RestStores DEF Worked, Finished, Scanning
  <2> QED
    BY <1>3, <2>2, <2>3 DEF EndOfPositional
<1> QED
  BY <1>1, <1>2, <1>3

LEMMA FinishStores ==
    ASSUME CmdoptInv, DataInv, Finish \/ Return
    PROVE  DataInv'
<1>0. /\ phase = "finish" /\ outcome = "none" /\ Scanning /\ Worked /\ Worked'
      /\ UNCHANGED <<calls, before>> /\ cursor \in Nat
      /\ options \in Seq(Options) /\ DOMAIN options = 1..Len(options) /\ Len(options) \in Nat
  <2>1. phase = "finish" /\ outcome = "none" /\ UNCHANGED <<calls, before>>
    BY DEF Finish, Return, CmdoptInv, FinishChecked
  <2>2. outcome' \in {"none", "returned", "invalid_required"}
    BY <2>1 DEF Finish, Return, Throw
  <2>3. options \in Seq(Options) /\ cursor \in Nat
    BY DEF CmdoptInv, TypeOK, Options
  <2> QED
    BY <2>1, <2>2, <2>3 DEF Scanning, Worked
<1>1. CASE Finish
  <2> DEFINE data == IF options[cursor].kind = "present"
                     THEN Bit(options[cursor].seen) ELSE options[cursor].data
  <2>1. options' = [options EXCEPT ![cursor].data = data] /\ cursor \in DOMAIN options
    <3>1. cursor \in 1..Len(options)
      BY <1>0, <1>1 DEF Finish, CmdoptInv, TypeOK
    <3> QED
      BY <1>0, <1>1, <3>1 DEF Finish
  <2>2. options[cursor] \in Options
    BY ONLY <1>0, <2>1, ElementOfSeq
  <2> HIDE DEF data
  <2>3. /\ DOMAIN options' = DOMAIN options
        /\ \A q \in DOMAIN options : q # cursor => options'[q] = options[q]
        /\ options'[cursor].kind = options[cursor].kind
        /\ options'[cursor].seen = options[cursor].seen
        /\ options'[cursor].data = data
    BY <2>1, <2>2 DEF Options
  <2>4. \A q \in DOMAIN options : CallsTo(q)' = CallsTo(q) /\ DataOf(q)
    BY <1>0 DEF CallsTo, DataInv
  <2>5. \A q \in DOMAIN options : Finished(q)' <=> Finished(q) \/ q = cursor
    <3>1. CASE Throw("invalid_required")
      BY <1>0, <3>1 DEF Throw, Finished
    <3>2. CASE cursor' = cursor + 1 /\ UNCHANGED <<phase, outcome, i>>
      BY <1>0, <3>2 DEF Finished
    <3> QED
      BY <1>1, <3>1, <3>2 DEF Finish
  <2>6. ASSUME NEW q \in DOMAIN options, q # cursor
        PROVE  DataOf(q)'
    BY <1>0, <2>3, <2>4, <2>5, <2>6, DataKept
  <2>7. ASSUME NEW q \in DOMAIN options, q = cursor
        PROVE  DataOf(q)'
    <3>1. CASE options[q].kind = "present"
      <4>1. options[q].seen <=> CallsTo(q) # {}
        BY <1>0, <2>7, <2>1, <2>4, <3>1 DEF DataOf
      <4>2. data = Bit(CallsTo(q)' # {})
        BY <2>7, <2>1, <2>4, <3>1, <4>1 DEF data, Bit
      <4>3. Finished(q)' /\ before'[q].kind = "present"
        BY <1>0, <2>7, <2>1, <2>4, <2>5, <3>1 DEF DataOf
      <4> QED
        BY <1>0, <2>7, <2>1, <2>3, <2>4, <3>1, <4>1, <4>2, <4>3 DEF DataOf
    <3>2. CASE options[q].kind # "present"
      BY <1>0, <2>7, <2>1, <2>3, <2>4, <3>2, DataKept DEF data
    <3> QED
      BY <3>1, <3>2
  <2> QED
    BY <1>0, <2>3, <2>6, <2>7 DEF DataInv
<1>2. CASE Return
  <2>1. \A q \in DOMAIN options : Finished(q)' /\ Finished(q)
    BY <1>0, <1>2 DEF Return, Finished
  <2> QED
    BY <1>0, <1>2, <2>1, RestStores DEF Return
<1> QED
  BY <1>1, <1>2

LEMMA ScanStores ==
    ASSUME PathInv, NEW args \in Args, Scan(args)
    PROVE  DataInv'
<1>1. /\ calls' = <<>> /\ outcome' = "none" /\ phase' = "options" /\ before' = options
      /\ options' = [o \in DOMAIN options |-> [options[o] EXCEPT !.seen = FALSE]]
  BY DEF Scan, PathInv, CmdoptInv, FinishChecked, Reached
<1>2. options \in Seq(Options)
  BY DEF PathInv, CmdoptInv, TypeOK, Options
<1>3. ASSUME NEW o \in DOMAIN options
      PROVE  DataOf(o)'
  <2>1. CallsTo(o)' = {} /\ TextsTo(o)' = {}
    BY <1>1 DEF CallsTo, TextsTo
  <2>2. ~Finished(o)'
    BY <1>1 DEF Finished
  <2>3. options[o] \in Options
    BY ONLY <1>2, <1>3, ElementOfSeq, LenProperties
  <2>4. /\ options'[o].kind = before'[o].kind /\ options'[o].data = before'[o].data
        /\ options'[o].seen = FALSE
    BY <1>1, <2>3 DEF Options
  <2> QED
    BY <2>1, <2>2, <2>4 DEF DataOf
<1> QED
  BY <1>1, <1>2, <1>3 DEF DataInv

LEMMA NextStores == PathInv /\ DataInv /\ [Next]_vars => DataInv'
<1> SUFFICES ASSUME PathInv, DataInv, [Next]_vars PROVE DataInv'
  OBVIOUS
<1>0. CmdoptInv
  BY DEF PathInv
<1>1. CASE \E args \in Args : Scan(args)
  BY <1>1, ScanStores
<1>2. CASE Add \/ AppendPositional \/ Require \/ Resume \/ Restart
  BY <1>2 DEF Add, AppendPositional, Require, Called, Resume, Restart, DataInv, Scanning
<1>3. CASE UNCHANGED vars
  <2>1. CASE Scanning
    BY <1>0, <1>3, <2>1, RestStores DEF vars, Worked, Finished
  <2>2. CASE ~Scanning
    BY <1>3, <2>2 DEF vars, DataInv, Scanning
  <2> QED
    BY <2>1, <2>2
<1> QED
  BY <1>0, <1>1, <1>2, <1>3, ParseStores, PositionalStores, FinishStores DEF Next, Step

-----------------------------------------------------------------------------
(* Theorems.                                                               *)

\* The tables of a parser point at its options and cover them, and the
\* variables hold what their type can hold, for every sequence of calls.
THEOREM TypeCorrect == Spec => []TypeOK
<1>1. CmdoptInv => TypeOK
  BY DEF CmdoptInv
<1> QED
  BY <1>1, InitInv, NextKeeps, PTL DEF Spec

\* parser::scan does not return without a call of each required option in the
\* arguments it was given, whatever earlier scans saw.
THEOREM RequiredCalled == Spec => []RequiredWereCalled
<1>1. CmdoptInv => RequiredWereCalled
  BY DEF CmdoptInv, FinishChecked, SeenWasCalled, RequiredWereCalled, CallsTo
<1> QED
  BY <1>1, InitInv, NextKeeps, PTL DEF Spec

\* parser::scan calls what the arguments name, in their order and with their
\* values, and nothing else, and ends where the arguments say: for every set of
\* registrations and every vector of arguments.
THEOREM CallsFollowArguments == Spec => []FollowsArguments
<1>1. PathInv => FollowsArguments
  BY DEF PathInv
<1> QED
  BY <1>1, InitFollows, NextFollows, PTL DEF Spec

\* What execute and finish leave in the variables of a program is what the
\* calls of its options amount to, for every kind of option, any number of
\* scans one after the other, and whatever was thrown.
THEOREM VariablesFollowCalls == Spec => []DataFollowsCalls
<1>1. Init => PathInv /\ DataInv
  <2>1. Init => DataInv
    BY DEF Init, DataInv, Scanning
  <2> QED
    BY <2>1, InitFollows
<1>2. PathInv /\ DataInv /\ [Next]_vars => (PathInv /\ DataInv)'
  BY NextFollows, NextStores
<1>3. PathInv /\ DataInv => DataFollowsCalls
  <2> SUFFICES ASSUME PathInv, DataInv, Scanning, NEW o \in DOMAIN before
               PROVE  LET finished == outcome = "returned"
                                      \/ (phase = "finish" /\ o < cursor)
                                      \/ (outcome = "invalid_required" /\ o <= cursor)
                      IN  /\ options[o].kind = "present" => options[o].data =
                                 IF finished THEN Bit(CallsTo(o) # {}) ELSE before[o].data
                          /\ options[o].kind # "present" /\ ~(CallsTo(o) # {}) =>
                                 options[o].data = before[o].data
                          /\ options[o].kind = "count" /\ finished /\ CallsTo(o) # {} =>
                                 \E n \in Counted(o) : options[o].data = n % (Top + 1)
                          /\ options[o].kind \in {"value", "bool", "bytes"} /\ finished
                                 /\ CallsTo(o) # {} =>
                                 \E c \in Last(CallsTo(o)) :
                                     options[o].data = Execute(before[o], calls[c].text).data
    BY DEF DataFollowsCalls
  <2>1. DataOf(o)
    BY DEF DataInv
  <2>2. Finished(o) => Worked
    BY DEF Finished, Worked, PathInv, CmdoptInv, FinishChecked
  <2> QED
    BY <2>1, <2>2 DEF DataOf, Finished
<1> QED
  BY <1>1, <1>2, <1>3, PTL DEF Spec
=============================================================================
