------------------------------- MODULE Signal -------------------------------
(***************************************************************************)
(* util::signal, its cookies and util::value_signal (src/signal.hpp,       *)
(* src/signal.ipp): a std::list of callbacks walked by a combiner, and     *)
(* move-only cookies that own one list node each and erase it when they    *)
(* die.  Callbacks run in the middle of a walk and may call the signal     *)
(* again: connect, erase any node, clear, and emit again.  Nothing in the  *)
(* code stops one from erasing the very node that a walk in progress has   *)
(* saved as its next: that walk is then left with an erased iterator, its  *)
(* next use of it is undefined, and the model follows the walk no further. *)
(* It can still end by a vote, which does not look at the iterator.        *)
(*                                                                         *)
(* A signal is modelled as the value_signal that wraps it; a plain signal  *)
(* is the case of one value.                                               *)
(***************************************************************************)
EXTENDS Naturals, FiniteSets, SequencesExt

CONSTANTS
    Nodes,      \* list nodes; a node is never reused
    Cookies,    \* names of the cookie objects of the program
    Values,     \* what a value_signal can hold
    Combiners,  \* the combiners to consider, of "noop", "and" and "or"
    MaxDepth,   \* bound: emissions nested in callbacks of emissions
    ClearOwned, \* whether clear () is called while cookies own callbacks
    None

End == "end"    \* m_children.end ()

ASSUME SignalAssumption ==
    /\ Combiners \subseteq {"noop", "and", "or"}
    /\ MaxDepth \in Nat \ {0}
    /\ ClearOwned \in BOOLEAN
    /\ None \notin Nodes \cup Values \cup {End}
    /\ End \notin Nodes

VARIABLES
    combiner,   \* the template argument C of the signal; never changes
    children,   \* m_children, as the sequence of its nodes
    order,      \* history: every node ever connected, in that order
    pos,        \* m_position of each cookie; None when there is no cookie
    stack,      \* the emissions in progress, innermost last
    value,      \* m_value
    seen        \* the last value each node's callback was called with

vars == <<combiner, children, order, pos, stack, value, seen>>

Connected == {children[i] : i \in 1..Len(children)}
Known == {order[i] : i \in 1..Len(order)}
Top == stack[Len(stack)]
SetTop(f) == stack' = [stack EXCEPT ![Len(stack)] = f]

\* User code runs: outside every emission, or inside a callback.
UserCode == stack # <<>> => Top.cur # None

\* Where n is in the list; the iterator after it, or end; and m_children.erase.
Place(n) == CHOOSE k \in 1..Len(children) : children[k] = n
Next1(n) == IF Place(n) = Len(children) THEN End ELSE children[Place(n) + 1]
Erase(n) == children' = RemoveAt(children, Place(n))

Init ==
    /\ combiner \in Combiners
    /\ children = <<>>
    /\ order = <<>>
    /\ pos = [c \in Cookies |-> None]
    /\ stack = <<>>
    /\ value \in Values
    /\ seen = [n \in Nodes |-> None]

-----------------------------------------------------------------------------
(* Connecting, and the life of a cookie.                                   *)

Connect(c, n) ==
    /\ UserCode
    /\ pos[c] = None /\ n \notin Known
    /\ children' = Append(children, n)
    /\ order' = Append(order, n)
    /\ pos' = [pos EXCEPT ![c] = n]
    /\ UNCHANGED <<combiner, stack, value, seen>>

CookieMove_Copies(c, d) ==
    /\ UserCode
    /\ pos[c] # None /\ pos[d] = None
    /\ pos' = [pos EXCEPT ![d] = pos[c]]
    /\ UNCHANGED <<combiner, children, order, stack, value, seen>>

\* cookie (cookie&&): the moved-from cookie points to end.
CookieMove(c, d) ==
    /\ UserCode
    /\ pos[c] # None /\ pos[d] = None
    /\ pos' = [pos EXCEPT ![d] = pos[c], ![c] = End]
    /\ UNCHANGED <<combiner, children, order, stack, value, seen>>

\* disconnect erases whatever walks are in progress.  A cookie at end, or at a
\* node that clear () erased, has nothing to erase: undefined.
Disconnect(c) ==
    /\ UserCode
    /\ pos[c] \in Connected
    /\ Erase(pos[c])
    /\ pos' = [pos EXCEPT ![c] = End]
    /\ UNCHANGED <<combiner, order, stack, value, seen>>

\* ~cookie: disconnect unless the position is end.
CookieDestroy(c) ==
    /\ UserCode
    /\ \/ pos[c] = End /\ UNCHANGED children
       \/ pos[c] \in Connected /\ Erase(pos[c])
    /\ pos' = [pos EXCEPT ![c] = None]
    /\ UNCHANGED <<combiner, order, stack, value, seen>>

\* cookie::reset: another callback takes the place of a connected one.
CookieReset(c) ==
    /\ UserCode
    /\ pos[c] \in Connected
    /\ seen' = [seen EXCEPT ![pos[c]] = None]
    /\ UNCHANGED <<combiner, children, order, pos, stack, value>>

\* clear () erases every node and knows neither cookies nor walks.
Clear ==
    /\ UserCode
    /\ ClearOwned \/ \A c \in Cookies : pos[c] \in {End, None}
    /\ children' = <<>>
    /\ UNCHANGED <<combiner, order, pos, stack, value, seen>>

-----------------------------------------------------------------------------
(* Emitting.                                                               *)

\* value_signal::operator=, then operator(): nothing to walk, or begin().
Assign(v) ==
    /\ UserCode
    /\ Len(stack) < MaxDepth
    /\ value' = v
    /\ stack' = IF children = <<>> THEN stack
                ELSE Append(stack, [next |-> Head(children), cur |-> None,
                                    called |-> <<>>, votes |-> <<>>,
                                    start |-> Connected, arg |-> v])
    /\ UNCHANGED <<combiner, children, order, pos, seen>>

\* Whether the combiner goes on after the votes so far.
GoesOn_Always(votes) == TRUE

GoesOn(votes) ==
    votes # <<>> /\ combiner # "noop" => votes[Len(votes)] = (combiner = "and")

CallNext_ByValue ==
    /\ stack # <<>>
    /\ LET f == Top IN
       /\ f.cur = None /\ f.next \in Connected /\ GoesOn(f.votes)
       /\ SetTop([f EXCEPT !.cur = f.next, !.next = Next1(f.next),
                           !.called = Append(f.called, f.next)])
       /\ seen' = [seen EXCEPT ![f.next] = f.arg]
    /\ UNCHANGED <<combiner, children, order, pos, value>>

CallNext_NoAdvance ==
    /\ stack # <<>>
    /\ LET f == Top IN
       /\ f.cur = None /\ f.next \in Connected /\ GoesOn(f.votes)
       /\ SetTop([f EXCEPT !.cur = f.next,
                           !.called = Append(f.called, f.next)])
       /\ seen' = [seen EXCEPT ![f.next] = value]
    /\ UNCHANGED <<combiner, children, order, pos, value>>

\* (*first++)(args...): advance, then call.  The argument is a reference to
\* m_value, so the callback gets what m_value holds now.
CallNext ==
    /\ stack # <<>>
    /\ LET f == Top IN
       /\ f.cur = None /\ f.next \in Connected /\ GoesOn(f.votes)
       /\ SetTop([f EXCEPT !.cur = f.next, !.next = Next1(f.next),
                           !.called = Append(f.called, f.next)])
       /\ seen' = [seen EXCEPT ![f.next] = value]
    /\ UNCHANGED <<combiner, children, order, pos, value>>

\* The callback returns, with a result when the combiner looks at it.
Return(vote) ==
    /\ stack # <<>> /\ Top.cur # None
    /\ SetTop([Top EXCEPT !.cur = None, !.votes = Append(@, vote)])
    /\ UNCHANGED <<combiner, children, order, pos, value, seen>>

\* first == last, or the result is decided.
Finish ==
    /\ stack # <<>>
    /\ Top.cur = None
    /\ GoesOn(Top.votes) => Top.next = End
    /\ stack' = SubSeq(stack, 1, Len(stack) - 1)
    /\ UNCHANGED <<combiner, children, order, pos, value, seen>>

Next ==
    \/ \E c \in Cookies :
          \/ Disconnect(c) \/ CookieDestroy(c) \/ CookieReset(c)
          \/ \E n \in Nodes : Connect(c, n)
          \/ \E d \in Cookies : CookieMove(c, d)
    \/ Clear
    \/ \E v \in Values : Assign(v)
    \/ CallNext
    \/ \E vote \in (IF combiner = "noop" THEN {TRUE} ELSE BOOLEAN) : Return(vote)
    \/ Finish

Spec == Init /\ [][Next]_vars

-----------------------------------------------------------------------------
(* Properties.                                                             *)

Positions == Nodes \cup {End}
Frames == [next : Positions, cur : Nodes \cup {None}, called : Seq(Nodes),
           votes : Seq(BOOLEAN), start : SUBSET Nodes, arg : Values]

\* Type invariant; the walk records are those the combiner loop can hold.
TypeOK ==
    /\ combiner \in Combiners
    /\ children \in Seq(Nodes)
    /\ order \in Seq(Nodes)
    /\ pos \in [Cookies -> Positions \cup {None}]
    /\ stack \in Seq(Frames) /\ Len(stack) <= MaxDepth
    /\ value \in Values
    /\ seen \in [Nodes -> Values \cup {None}]
    /\ Connected \subseteq Known

\* A cookie points to a connected node or to end, never to an erased node,
\* and each connected node is owned by exactly one cookie, through every move:
\* what ~cookie and disconnect erase exists and is erased once
\* (signal.ipp:52-57, 62-66, 124-128).  clear () is documented to "Disconnect
\* all callbacks" (signal.hpp:89).
CookiesValid ==
    /\ \A c \in Cookies : pos[c] \in Connected \cup {End, None}
    /\ \A n \in Connected : Cardinality({c \in Cookies : pos[c] = n}) = 1

\* The iterator of a walk in progress points to a connected node or to end,
\* unless the listener it was going to call next was disconnected before its
\* turn.  Erasing one it has called, be it the running one that disconnects
\* itself, and at whatever depth of emissions inside the walk, never does it:
\* the walk advances before it calls (signal.hpp:65; test/signal.cpp:108-120).
WalksValid ==
    \A i \in 1..Len(stack) : LET f == stack[i] IN
        \/ f.next \in Connected \cup {End}
        \/ \A j \in 1..Len(f.called) : f.called[j] # f.next

\* No walk calls a callback twice, and none skips one: a node connected when
\* the walk began and still connected has been called or lies ahead of the
\* iterator, if that is not erased.
WalkIsComplete ==
    \A i \in 1..Len(stack) : LET f == stack[i] IN
        /\ \A j, k \in 1..Len(f.called) : f.called[j] = f.called[k] => j = k
        /\ \A n \in f.start \cap Connected :
              \/ \E j \in 1..Len(f.called) : f.called[j] = n
              \/ /\ f.next # End
                 /\ f.next \in Connected =>
                       \E j, k \in 1..Len(children) :
                           j <= k /\ children[j] = f.next /\ children[k] = n

\* When the outermost assignment has returned, no listener is left with an
\* older value, even if listeners assigned again while they were called
\* (value_signal::operator=, signal.ipp:195-200).
ListenersCurrent ==
    stack = <<>> /\ combiner = "noop" =>
        \A n \in Connected : seen[n] \in {None, value}

\* Every walk calls the listeners in the order they were connected, with
\* listeners that come and go between the calls (signal.ipp:96-100).
CallsInOrder ==
    \A i \in 1..Len(stack) : LET called == stack[i].called IN
        \A x, y \in 1..Len(called) : x < y =>
            \E j, k \in 1..Len(order) :
                j < k /\ order[j] = called[x] /\ order[k] = called[y]

\* A walk in progress, while its callbacks connect, disconnect, clear and emit
\* again: its iterator stays valid unless the very listener it was to call next
\* is disconnected, and it calls the listeners in order, each once, without
\* skipping one (signal.hpp:61-68, signal.ipp:96-100).
WalksSound == TypeOK /\ WalksValid /\ WalkIsComplete /\ CallsInOrder

\* A walk ends for one of two reasons: its last vote, and none before it,
\* decided the result, or every callback that was connected throughout the
\* walk has been called (signal.hpp:32-68).
WalkOutcome ==
    [][Finish =>
        LET v == Top.votes
            Decides(i) == combiner # "noop" /\ v[i] # (combiner = "and")
        IN  /\ \A i \in 1..Len(v) : Decides(i) => i = Len(v)
            /\ \/ \E i \in 1..Len(v) : Decides(i)
               \/ \A n \in Top.start \cap Connected :
                      \E j \in 1..Len(Top.called) : Top.called[j] = n]_vars
=============================================================================
