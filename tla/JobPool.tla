------------------------------ MODULE JobPool ------------------------------
(***************************************************************************)
(* What util::job::queue promises its users: tasks are accepted in some    *)
(* order, started once each in that order, and finished after they were    *)
(* started.  Closing the pool stops further starts but lets what is        *)
(* running finish.  There are no threads, locks or condition variables     *)
(* here; JobQueue is shown to implement this module.                       *)
(***************************************************************************)
EXTENDS Naturals, Sequences

CONSTANT Tasks          \* everything that can be submitted

VARIABLES order,        \* the tasks accepted so far, oldest first
          taken,        \* how many of them have been started
          finished,     \* the tasks whose functor has returned
          closed        \* no further task will be started

poolVars == <<order, taken, finished, closed>>

Accepted == {order[i] : i \in 1..Len(order)}

Started == {order[i] : i \in 1..taken}

PoolInit ==
    /\ order = <<>>
    /\ taken = 0
    /\ finished = {}
    /\ closed = FALSE

Accept(t) ==
    /\ t \notin Accepted
    /\ order' = Append(order, t)
    /\ UNCHANGED <<taken, finished, closed>>

Start ==
    /\ ~closed
    /\ taken < Len(order)
    /\ taken' = taken + 1
    /\ UNCHANGED <<order, finished, closed>>

Finish(t) ==
    /\ t \in Started \ finished
    /\ finished' = finished \cup {t}
    /\ UNCHANGED <<order, taken, closed>>

Close ==
    /\ ~closed
    /\ closed' = TRUE
    /\ UNCHANGED <<order, taken, finished>>

PoolNext ==
    \/ Start
    \/ Close
    \/ \E t \in Tasks : Accept(t) \/ Finish(t)

PoolSpec == PoolInit /\ [][PoolNext]_poolVars
=============================================================================
