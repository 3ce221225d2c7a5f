------------------------------ MODULE JobQueue ------------------------------
(***************************************************************************)
(* util::job::queue (src/job/queue.hpp, src/job/queue.cpp): a deque of     *)
(* functors guarded by one mutex and one condition variable, worker        *)
(* threads that drain it, submit(), the barrier-like flush(), and the      *)
(* destructor that stops and joins the workers.                            *)
(*                                                                         *)
(* A critical section that neither waits nor calls out is one action       *)
(* guarded by the mutex being free.  The worker's section is two actions   *)
(* (test the predicate, then block or pop), because what makes its wait    *)
(* correct is that nobody changes the predicate in between.                *)
(*                                                                         *)
(* A definition named X_Fault is X with one plausible mistake in it.  None *)
(* is part of the specification: they show what each property can catch.   *)
(***************************************************************************)
EXTENDS Naturals, Sequences, FiniteSets

CONSTANTS
    Workers,     \* the threads of m_threads
    Clients,     \* the threads that use the queue from outside
    Owner,       \* the thread that runs the destructor
    Jobs,        \* plain functors
    Flushes,     \* calls of flush(): each submits a functor of its own
    Submitters,  \* the threads that may call submit: clients, and workers
                 \* whose current functor calls submit
    Spurious,    \* whether condition variables may wake without a notify
    None

Threads == Workers \cup Clients \cup {Owner}
Tasks == Jobs \cup Flushes

ASSUME QueueAssumption ==
    /\ Workers \cap Clients = {}
    /\ Owner \notin Workers \cup Clients
    /\ Jobs \cap Flushes = {}
    /\ Submitters \subseteq Workers \cup Clients
    /\ Spurious \in BOOLEAN
    /\ None \notin Threads \cup Tasks

VARIABLES
    mutex,     \* m_store.mutex: the thread that holds it, or None
    stopping,  \* m_store.stopping
    pending,   \* m_store.pending
    waiting,   \* the workers blocked on m_store.cv
    pc,        \* where each thread is
    obj,       \* the functor each worker holds in its local `obj'
    arg,       \* the task each thread is submitting or flushing with
    live,      \* the flush calls whose locals (m, cv, done) exist
    fmutex,    \* m of each flush call
    done,      \* the flush calls whose `done' flag is set
    fwaiting,  \* the flush calls blocked on their own cv
    returned,  \* the flush calls that have returned
    order,     \* history: every task pushed to the back, in order
    finished   \* history: every task whose functor has returned

storeVars == <<mutex, stopping, pending, waiting>>
flushVars == <<live, fmutex, done, fwaiting, returned>>
vars == <<storeVars, pc, obj, arg, flushVars, order, finished>>

-----------------------------------------------------------------------------
(* Helpers.                                                                *)

Goto(t, label) == pc' = [pc EXCEPT ![t] = label]

Pushed == {order[i] : i \in 1..Len(order)}

\* Fresh tasks: not pushed yet and not on their way.
Unused == {t \in Tasks : t \notin Pushed /\ \A u \in Threads : arg[u] # t}

\* Where a thread goes on once a call of submit has returned.
Resume(t) == IF arg[t] \in Flushes THEN "fl_test"
             ELSE IF t \in Workers THEN "run" ELSE "idle"

NotifyOne_Lost == UNCHANGED waiting

\* cv.notify_one: one blocked thread, if there is one, stops being blocked.
NotifyOne == IF waiting = {} THEN UNCHANGED waiting
             ELSE \E w \in waiting : waiting' = waiting \ {w}


\* The wait predicate of the worker loop.
HaveWork == stopping \/ pending # <<>>

Init ==
    /\ mutex = None
    /\ stopping = FALSE
    /\ pending = <<>>
    /\ waiting = {}
    /\ pc = [t \in Threads |-> IF t \in Workers THEN "acquire"
                               ELSE IF t \in Clients THEN "idle" ELSE "using"]
    /\ obj = [w \in Workers |-> None]
    /\ arg = [t \in Threads |-> None]
    /\ live = {}
    /\ fmutex = [f \in Flushes |-> None]
    /\ done = {}
    /\ fwaiting = {}
    /\ returned = {}
    /\ order = <<>>
    /\ finished = {}

-----------------------------------------------------------------------------
(* submit(), called by a client or from inside a running functor.          *)

SubmitCall(t, j) ==
    /\ t \in Submitters
    /\ pc[t] = (IF t \in Workers THEN "run" ELSE "idle")
    /\ t \in Workers => obj[t] \in Jobs
    /\ j \in Jobs \cap Unused
    /\ arg' = [arg EXCEPT ![t] = j]
    /\ Goto(t, "push")
    /\ UNCHANGED <<storeVars, obj, flushVars, order, finished>>

SubmitPush(t) ==
    /\ pc[t] = "push"
    /\ mutex = None
    /\ pending' = Append(pending, arg[t])
    /\ order' = Append(order, arg[t])
    /\ Goto(t, "push_notify")
    /\ UNCHANGED <<mutex, stopping, waiting, obj, arg, flushVars, finished>>

SubmitNotify(t) ==
    /\ pc[t] = "push_notify"
    /\ NotifyOne
    /\ Goto(t, Resume(t))
    /\ arg' = IF arg[t] \in Flushes THEN arg ELSE [arg EXCEPT ![t] = None]
    /\ UNCHANGED <<mutex, stopping, pending, obj, flushVars, order, finished>>

-----------------------------------------------------------------------------
(* flush(), called by a client.                                            *)

\* Construct m, cv and done, lock m, and call submit.  A functor may flush in the
\* code too; here only clients do.
FlushCall(c, f) ==
    /\ c \in Clients /\ pc[c] = "idle"
    /\ f \in Flushes \cap Unused
    /\ live' = live \cup {f}
    /\ fmutex' = [fmutex EXCEPT ![f] = c]
    /\ arg' = [arg EXCEPT ![c] = f]
    /\ Goto(c, "push")
    /\ UNCHANGED <<storeVars, obj, done, fwaiting, returned, order, finished>>

FlushTest_AnyWake(c) ==
    /\ pc[c] = "fl_test"
    /\ live' = live \ {arg[c]}
    /\ returned' = returned \cup {arg[c]}
    /\ fmutex' = [fmutex EXCEPT ![arg[c]] = None]
    /\ arg' = [arg EXCEPT ![c] = None]
    /\ Goto(c, "idle")
    /\ UNCHANGED <<storeVars, obj, done, fwaiting, order, finished>>

\* The predicate of cv.wait, evaluated with m held: leave (the locals die),
\* or go on to block.
FlushTest(c) ==
    /\ pc[c] = "fl_test"
    /\ IF arg[c] \in done
       THEN /\ live' = live \ {arg[c]}
            /\ returned' = returned \cup {arg[c]}
            /\ fmutex' = [fmutex EXCEPT ![arg[c]] = None]
            /\ arg' = [arg EXCEPT ![c] = None]
            /\ Goto(c, "idle")
       ELSE /\ Goto(c, "fl_block")
            /\ UNCHANGED <<live, returned, fmutex, arg>>
    /\ UNCHANGED <<storeVars, obj, done, fwaiting, order, finished>>

FlushBlock(c) ==
    /\ pc[c] = "fl_block"
    /\ fmutex' = [fmutex EXCEPT ![arg[c]] = None]
    /\ fwaiting' = fwaiting \cup {arg[c]}
    /\ Goto(c, "fl_wake")
    /\ UNCHANGED <<storeVars, obj, arg, live, done, returned, order, finished>>

\* Woken: take m again and go back to the predicate.
FlushWake(c) ==
    /\ pc[c] = "fl_wake"
    /\ arg[c] \notin fwaiting
    /\ fmutex[arg[c]] = None
    /\ fmutex' = [fmutex EXCEPT ![arg[c]] = c]
    /\ Goto(c, "fl_test")
    /\ UNCHANGED <<storeVars, obj, arg, live, done, fwaiting, returned,
                   order, finished>>

\* A client makes no further call.
ClientEnd(c) ==
    /\ c \in Clients /\ pc[c] = "idle"
    /\ Goto(c, "ended")
    /\ UNCHANGED <<storeVars, obj, arg, flushVars, order, finished>>

-----------------------------------------------------------------------------
(* The worker loop.                                                        *)

\* Lock the store and evaluate the wait predicate.
WorkerAcquire(w) ==
    /\ pc[w] = "acquire"
    /\ w \notin waiting
    /\ mutex = None
    /\ mutex' = w
    /\ Goto(w, IF HaveWork THEN "decide" ELSE "block")
    /\ UNCHANGED <<stopping, pending, waiting, obj, arg, flushVars, order,
                   finished>>

\* cv.wait: join the waiters and release the mutex in one step.
WorkerBlock(w) ==
    /\ pc[w] = "block"
    /\ waiting' = waiting \cup {w}
    /\ mutex' = None
    /\ Goto(w, "acquire")
    /\ UNCHANGED <<stopping, pending, obj, arg, flushVars, order, finished>>

WorkerExit(w) ==
    /\ pc[w] = "decide"
    /\ stopping
    /\ mutex' = None
    /\ Goto(w, "exited")
    /\ UNCHANGED <<stopping, pending, waiting, obj, arg, flushVars, order,
                   finished>>

WorkerTake_NoPop(w) ==
    /\ pc[w] = "decide"
    /\ ~stopping
    /\ obj' = [obj EXCEPT ![w] = Head(pending)]
    /\ mutex' = None
    /\ Goto(w, "notify")
    /\ UNCHANGED <<stopping, pending, waiting, arg, flushVars, order, finished>>

WorkerTake_AfterStop(w) ==
    /\ pc[w] = "decide"
    /\ pending # <<>>
    /\ obj' = [obj EXCEPT ![w] = Head(pending)]
    /\ pending' = Tail(pending)
    /\ mutex' = None
    /\ Goto(w, "notify")
    /\ UNCHANGED <<stopping, waiting, arg, flushVars, order, finished>>

WorkerTake(w) ==
    /\ pc[w] = "decide"
    /\ ~stopping
    /\ obj' = [obj EXCEPT ![w] = Head(pending)]
    /\ pending' = Tail(pending)
    /\ mutex' = None
    /\ Goto(w, "notify")
    /\ UNCHANGED <<stopping, waiting, arg, flushVars, order, finished>>

WorkerNotify(w) ==
    /\ pc[w] = "notify"
    /\ NotifyOne
    /\ Goto(w, "run")
    /\ UNCHANGED <<mutex, stopping, pending, obj, arg, flushVars, order,
                   finished>>

\* A plain functor returns.  The worker keeps it in `obj' until the next one.
RunJob(w) ==
    /\ pc[w] = "run"
    /\ obj[w] \in Jobs
    /\ finished' = finished \cup {obj[w]}
    /\ Goto(w, "acquire")
    /\ UNCHANGED <<storeVars, obj, arg, flushVars, order>>

\* The functor of a flush: set the flag under m ...
RunFlushSet(w) ==
    /\ pc[w] = "run"
    /\ obj[w] \in Flushes
    /\ fmutex[obj[w]] = None
    /\ done' = done \cup {obj[w]}
    /\ Goto(w, "run_notify")
    /\ UNCHANGED <<storeVars, obj, arg, live, fmutex, fwaiting, returned,
                   order, finished>>

RunFlushNotify_Lost(w) ==
    /\ pc[w] = "run_notify"
    /\ finished' = finished \cup {obj[w]}
    /\ Goto(w, "acquire")
    /\ UNCHANGED <<storeVars, obj, arg, flushVars, order>>

\* ... and, with m released, notify the cv of the flush.  On a flush whose
\* locals are gone this is undefined; it is modelled as having no effect.
RunFlushNotify(w) ==
    /\ pc[w] = "run_notify"
    /\ fwaiting' = fwaiting \ {obj[w]}
    /\ finished' = finished \cup {obj[w]}
    /\ Goto(w, "acquire")
    /\ UNCHANGED <<storeVars, obj, arg, live, fmutex, done, returned, order>>

-----------------------------------------------------------------------------
(* Wake-ups that no notify caused, on either kind of condition variable.   *)

SpuriousWorker(w) ==
    /\ Spurious
    /\ w \in waiting
    /\ waiting' = waiting \ {w}
    /\ UNCHANGED <<mutex, stopping, pending, pc, obj, arg, flushVars, order,
                   finished>>

SpuriousFlush(f) ==
    /\ Spurious
    /\ f \in fwaiting
    /\ fwaiting' = fwaiting \ {f}
    /\ UNCHANGED <<storeVars, pc, obj, arg, live, fmutex, done, returned,
                   order, finished>>

-----------------------------------------------------------------------------
(* The destructor, run once no client can be inside a call.                *)

StopSet_NoLock ==
    /\ pc[Owner] = "using"
    /\ \A c \in Clients : pc[c] = "ended"
    /\ stopping' = TRUE
    /\ Goto(Owner, "notify_all")
    /\ UNCHANGED <<mutex, pending, waiting, obj, arg, flushVars, order,
                   finished>>

StopSet ==
    /\ pc[Owner] = "using"
    /\ \A c \in Clients : pc[c] = "ended"
    /\ mutex = None
    /\ stopping' = TRUE
    /\ Goto(Owner, "notify_all")
    /\ UNCHANGED <<mutex, pending, waiting, obj, arg, flushVars, order,
                   finished>>

StopNotify ==
    /\ pc[Owner] = "notify_all"
    /\ waiting' = {}
    /\ Goto(Owner, "join")
    /\ UNCHANGED <<mutex, stopping, pending, obj, arg, flushVars, order,
                   finished>>

StopJoin_Detached ==
    /\ pc[Owner] = "join"
    /\ Goto(Owner, "gone")
    /\ UNCHANGED <<storeVars, obj, arg, flushVars, order, finished>>

\* Every join has returned; the store and the functors left in it die.
StopJoin ==
    /\ pc[Owner] = "join"
    /\ \A w \in Workers : pc[w] = "exited"
    /\ Goto(Owner, "gone")
    /\ UNCHANGED <<storeVars, obj, arg, flushVars, order, finished>>

-----------------------------------------------------------------------------

WorkerStep(w) ==
    \/ WorkerAcquire(w) \/ WorkerBlock(w) \/ WorkerExit(w) \/ WorkerTake(w)
    \/ WorkerNotify(w) \/ RunJob(w) \/ RunFlushSet(w) \/ RunFlushNotify(w)

SubmitStep(t) == SubmitPush(t) \/ SubmitNotify(t)

FlushStep(c) == FlushTest(c) \/ FlushBlock(c) \/ FlushWake(c)

OwnerStep == StopNotify \/ StopJoin

\* The program has ended; keeps the deadlock check for every other state.
Ended == pc[Owner] = "gone" /\ UNCHANGED vars

Next ==
    \/ \E w \in Workers : WorkerStep(w) \/ SpuriousWorker(w)
    \/ \E t \in Workers \cup Clients :
          SubmitStep(t) \/ \E j \in Jobs : SubmitCall(t, j)
    \/ \E c \in Clients :
          FlushStep(c) \/ ClientEnd(c) \/ \E f \in Flushes : FlushCall(c, f)
    \/ \E f \in Flushes : SpuriousFlush(f)
    \/ StopSet
    \/ OwnerStep
    \/ Ended

Spec == Init /\ [][Next]_vars

\* Every thread that can take a step inside the library eventually does, and
\* functors return.  Whether a client calls, ends, or the owner destroys the
\* queue is up to the user, so those steps are not fair.
Fairness ==
    /\ \A w \in Workers : WF_vars(WorkerStep(w))
    /\ \A t \in Workers \cup Clients : WF_vars(SubmitStep(t))
    /\ \A c \in Clients : WF_vars(FlushStep(c))
    /\ WF_vars(OwnerStep)

FairSpec == Spec /\ Fairness

-----------------------------------------------------------------------------
(* Properties.                                                             *)

WorkerLabels == {"acquire", "block", "decide", "notify", "run", "run_notify",
                 "push", "push_notify", "exited"}
ClientLabels == {"idle", "push", "push_notify", "fl_test", "fl_block",
                 "fl_wake", "ended"}
OwnerLabels == {"using", "notify_all", "join", "gone"}

\* Type invariant: every variable holds a value of its type.
TypeOK ==
    /\ mutex \in Workers \cup {None}
    /\ stopping \in BOOLEAN
    /\ pending \in Seq(Tasks)
    /\ waiting \subseteq Workers
    /\ pc \in [Threads -> WorkerLabels \cup ClientLabels \cup OwnerLabels]
    /\ \A w \in Workers : pc[w] \in WorkerLabels
    /\ \A c \in Clients : pc[c] \in ClientLabels
    /\ pc[Owner] \in OwnerLabels
    /\ obj \in [Workers -> Tasks \cup {None}]
    /\ arg \in [Threads -> Tasks \cup {None}]
    /\ live \subseteq Flushes
    /\ fmutex \in [Flushes -> Clients \cup {None}]
    /\ done \subseteq Flushes
    /\ fwaiting \subseteq Flushes
    /\ returned \subseteq Flushes
    /\ order \in Seq(Tasks)
    /\ finished \subseteq Tasks

\* How many tasks have been popped.
Taken == Len(order) - Len(pending)

TakenTasks == {order[i] : i \in 1..Taken}

\* The functors that workers are about to run or running.
Busy(w) == pc[w] \in {"notify", "run", "run_notify"}
           \/ (w \in Workers /\ pc[w] \in {"push", "push_notify"})

\* A worker that decided to pop finds something to pop: m_store.pending.front
\* () is never called on an empty deque, although the emptiness test, the wait
\* and the pop are separate steps (queue.cpp:39-50).
PopHasFront ==
    \A w \in Workers : pc[w] = "decide" /\ ~stopping => pending # <<>>

\* Every accepted task is in exactly one place: still pending, held by exactly
\* one worker that has not finished it, or finished (queue.cpp:49-54).
ExactlyOnce ==
    \A i \in 1..Len(order) :
        IF i > Taken
        THEN /\ order[i] \notin finished
             /\ \A w \in Workers : Busy(w) => obj[w] # order[i]
        ELSE IF order[i] \in finished
             THEN \A w \in Workers : Busy(w) => obj[w] # order[i]
             ELSE \E w \in Workers : /\ Busy(w) /\ obj[w] = order[i]
                                     /\ \A v \in Workers \ {w} :
                                           Busy(v) => obj[v] # order[i]

\* When flush() has returned, every task submitted before it has been popped
\* by some worker (queue.hpp:70-94: "draining most of the queue on demand").
FlushDrains ==
    \A i \in 1..Len(order) :
        order[i] \in returned => \A k \in 1..i : order[k] \in TakenTasks

\* The assertion of test/job/queue.cpp:26-29: when a queue that was flushed
\* has been destroyed, every task submitted before the flush has run.
FlushedThenDestroyedRan ==
    pc[Owner] = "gone" =>
        \A i \in 1..Len(order) :
            order[i] \in returned => \A k \in 1..i : order[k] \in finished

\* queue.hpp:79 of flush: the submitted functor "sets the done flag and wakes
\* us back up again": when it comes to notify, the flush it wakes is still
\* there, so the cv it touches exists.
NotifiesLiveFlush ==
    \A w \in Workers : pc[w] = "run_notify" => obj[w] \in live

\* A flush functor that takes m to set `done' finds both alive
\* (queue.hpp:82-85): flush() cannot return before its functor set the flag.
SetsLiveFlush ==
    \A w \in Workers :
        pc[w] \in {"notify", "run"} /\ obj[w] \in Flushes => obj[w] \in live

\* Pending work is not left lying while workers sleep: either the deque
\* drains again and again, or the queue is being destroyed (no lost wake-up
\* between the unlock in submit and the wait in the loop).
Drains == []<>(pending = <<>> \/ stopping)

\* Every flush that was called returns (queue.hpp:90-93).
FlushReturns ==
    \A f \in Flushes : (f \in live) ~> (f \in returned)

\* The destructor does not hang: once it has set `stopping', every worker
\* leaves its loop and the joins return (queue.cpp:65-83).
DestructorReturns == stopping ~> (pc[Owner] = "gone")

\* The queue implements the abstract pool.
Pool == INSTANCE JobPool WITH taken <- Taken, closed <- stopping
ImplementsPool == Pool!PoolSpec
=============================================================================
