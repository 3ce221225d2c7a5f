--------------------------- MODULE JobQueueProofs ---------------------------
(***************************************************************************)
(* Proofs about JobQueue, for any number of workers, clients, jobs and     *)
(* flushes, with or without spurious wake-ups.                             *)
(*                                                                         *)
(* None of the safety properties is inductive.  QueueInv strengthens them  *)
(* with who holds the mutex (LockInv), what the calls in progress carry    *)
(* (CallInv), how the deque relates to its history (DequeInv), where every *)
(* accepted task is (PlaceInv) and which flush frames live (FlushInv).     *)
(***************************************************************************)
EXTENDS JobQueue, TLAPS

LockInv ==
    /\ \A w \in Workers : mutex = w <=> pc[w] \in {"block", "decide"}
    /\ stopping <=> pc[Owner] # "using"
    /\ pc[Owner] = "gone" => \A w \in Workers : pc[w] = "exited"
    /\ PopHasFront

CallInv ==
    /\ \A t \in Threads : pc[t] \in {"push", "push_notify"} => arg[t] \in Tasks
    /\ \A t \in Threads : pc[t] = "push" => arg[t] \notin Pushed
    /\ \A t, u \in Threads : t # u /\ arg[t] # None => arg[t] # arg[u]
    /\ \A c \in Clients :
          pc[c] \in {"fl_test", "fl_block", "fl_wake"} => arg[c] \in Flushes
    /\ \A w \in Workers : arg[w] \in Jobs \cup {None}

DequeInv ==
    /\ Len(pending) <= Len(order)
    /\ \A i \in 1..Len(pending) : pending[i] = order[Taken + i]
    /\ \A i, k \in 1..Len(order) : order[i] = order[k] => i = k

PlaceInv ==
    /\ finished \subseteq TakenTasks
    /\ \A w \in Workers : Busy(w) => obj[w] \in TakenTasks \ finished
    /\ \A v, w \in Workers : Busy(v) /\ Busy(w) /\ obj[v] = obj[w] => v = w
    /\ \A x \in TakenTasks \ finished : \E w \in Workers : Busy(w) /\ obj[w] = x

FlushInv ==
    /\ done \subseteq TakenTasks
    /\ returned \subseteq done
    /\ \A f \in Flushes \cap Pushed : f \in live \cup done
    /\ \A c \in Clients : arg[c] \in Flushes => arg[c] \in live
    /\ \A w \in Workers :
          pc[w] \in {"notify", "run", "push", "push_notify"} => obj[w] \notin done

QueueInv == TypeOK /\ LockInv /\ CallInv /\ DequeInv /\ PlaceInv /\ FlushInv

-----------------------------------------------------------------------------
(* The deque and its history.                                              *)

\* Pushing to the back takes nothing and adds one task.
LEMMA PushFacts ==
    ASSUME TypeOK, DequeInv, NEW x \in Tasks, x \notin Pushed,
           pending' = Append(pending, x), order' = Append(order, x)
    PROVE  /\ Taken' = Taken
           /\ TakenTasks' = TakenTasks
           /\ Pushed' = Pushed \cup {x}
           /\ DequeInv'
<1> USE DEF TypeOK, DequeInv
<1>1. Taken' = Taken /\ Taken \in Nat /\ Taken <= Len(order)
    BY DEF Taken
<1>2. \A i \in 1..Len(order) : order'[i] = order[i]
    OBVIOUS
<1>3. Len(order') = Len(order) + 1 /\ order'[Len(order) + 1] = x
    OBVIOUS
<1>4. TakenTasks' = TakenTasks
    BY <1>1, <1>2 DEF TakenTasks
<1>5. Pushed' = Pushed \cup {x}
    BY <1>2, <1>3 DEF Pushed
<1>6. \A i \in 1..Len(pending') : pending'[i] = order'[Taken' + i]
    <2> SUFFICES ASSUME NEW i \in 1..Len(pending')
                 PROVE  pending'[i] = order'[Taken' + i]
        OBVIOUS
    <2>1. CASE i = Len(pending')
        BY <2>1, <1>1, <1>3 DEF Taken
    <2>2. CASE i # Len(pending')
        BY <2>2, <1>1, <1>2 DEF Taken
    <2>. QED  BY <2>1, <2>2
<1>8. Len(pending') <= Len(order')
    OBVIOUS
<1>7. \A i, k \in 1..Len(order') : order'[i] = order'[k] => i = k
    BY <1>2, <1>3 DEF Pushed
<1>. QED  BY <1>1, <1>4, <1>5, <1>6, <1>7, <1>8

\* Popping the front takes exactly one task, which was not taken before.
LEMMA PopFacts ==
    ASSUME TypeOK, DequeInv, pending # <<>>,
           pending' = Tail(pending), order' = order
    PROVE  /\ Head(pending) \in Tasks
           /\ Head(pending) \notin TakenTasks
           /\ Taken' = Taken + 1
           /\ TakenTasks' = TakenTasks \cup {Head(pending)}
           /\ Pushed' = Pushed
           /\ DequeInv'
<1> USE DEF TypeOK, DequeInv
<1>1. /\ Taken' = Taken + 1
      /\ Taken \in Nat
      /\ Taken + 1 <= Len(order)
    BY DEF Taken
<1>2. Head(pending) = order[Taken + 1] /\ Head(pending) \in Tasks
    BY <1>1
<1>3. Head(pending) \notin TakenTasks
    BY <1>1, <1>2 DEF TakenTasks
<1>4. TakenTasks' = TakenTasks \cup {Head(pending)}
    BY <1>1, <1>2 DEF TakenTasks
<1>5. \A i \in 1..Len(pending') : pending'[i] = order'[Taken' + i]
    <2> SUFFICES ASSUME NEW i \in 1..Len(pending')
                 PROVE  pending'[i] = order'[Taken' + i]
        OBVIOUS
    <2>1. i + 1 \in 1..Len(pending) /\ pending'[i] = pending[i + 1]
        OBVIOUS
    <2>. QED  BY <1>1, <2>1
<1>. QED  BY <1>1, <1>2, <1>3, <1>4, <1>5 DEF Pushed

\* A step that moves no task keeps every task where it is.
LEMMA PlaceFrame ==
    ASSUME PlaceInv, UNCHANGED <<TakenTasks, finished>>,
           \A w \in Workers :
              /\ Busy(w)' <=> Busy(w)
              /\ Busy(w) => obj'[w] = obj[w]
    PROVE  PlaceInv'
BY DEF PlaceInv

\* A worker that finishes what it holds moves one task, to `finished'.
LEMMA PlaceFinish ==
    ASSUME PlaceInv, UNCHANGED <<TakenTasks, obj>>,
           NEW w \in Workers, Busy(w), ~Busy(w)',
           finished' = finished \cup {obj[w]},
           \A v \in Workers \ {w} : Busy(v)' <=> Busy(v)
    PROVE  PlaceInv'
BY DEF PlaceInv

\* A worker that was idle and takes a fresh task moves that task to itself.
LEMMA PlaceTake ==
    ASSUME PlaceInv, UNCHANGED finished, Head(pending) \notin TakenTasks,
           TakenTasks' = TakenTasks \cup {Head(pending)},
           NEW w \in Workers, ~Busy(w), Busy(w)', obj'[w] = Head(pending),
           \A v \in Workers \ {w} :
              /\ Busy(v)' <=> Busy(v)
              /\ Busy(v) => obj'[v] = obj[v]
    PROVE  PlaceInv'
BY DEF PlaceInv

\* What a step that leaves the deque and its history alone leaves alone.
LEMMA QueueFrame ==
    ASSUME UNCHANGED <<pending, order>>
    PROVE  UNCHANGED <<Taken, TakenTasks, Pushed>>
BY DEF Taken, TakenTasks, Pushed

LEMMA TakenArePushed ==
    ASSUME TypeOK, DequeInv
    PROVE  TakenTasks \subseteq Pushed
BY DEF TypeOK, DequeInv, Taken, TakenTasks, Pushed

-----------------------------------------------------------------------------
(* The invariant holds initially.                                          *)

LEMMA QueueInit == Init => QueueInv
<1> SUFFICES ASSUME Init PROVE QueueInv
    OBVIOUS
<1> USE QueueAssumption DEF Init, Threads, Tasks
<1>1. TypeOK
    <2> USE DEF WorkerLabels, ClientLabels, OwnerLabels
    <2>1. /\ pc \in [Threads -> WorkerLabels \cup ClientLabels \cup OwnerLabels]
          /\ \A w \in Workers : pc[w] \in WorkerLabels
          /\ \A c \in Clients : pc[c] \in ClientLabels
          /\ pc[Owner] \in OwnerLabels
        OBVIOUS
    <2>2. /\ obj \in [Workers -> Tasks \cup {None}]
          /\ arg \in [Threads -> Tasks \cup {None}]
          /\ fmutex \in [Flushes -> Clients \cup {None}]
        OBVIOUS
    <2>3. pending \in Seq(Tasks) /\ order \in Seq(Tasks)
        OBVIOUS
    <2>. QED  BY <2>1, <2>2, <2>3 DEF TypeOK
<1>2. LockInv
    BY DEF LockInv, PopHasFront
<1>3. CallInv
    BY DEF CallInv
<1>4. Taken = 0 /\ TakenTasks = {} /\ Pushed = {}
    BY DEF Taken, TakenTasks, Pushed
<1>5. DequeInv /\ PlaceInv
    BY <1>4 DEF DequeInv, PlaceInv, Busy
<1>6. FlushInv
    BY <1>4 DEF FlushInv
<1>. QED  BY <1>1, <1>2, <1>3, <1>5, <1>6 DEF QueueInv

-----------------------------------------------------------------------------
(* Every action preserves it.                                              *)

LEMMA WorkerAcquireInv ==
    ASSUME QueueInv, NEW w \in Workers, WorkerAcquire(w)
    PROVE  QueueInv'
<1> USE QueueAssumption DEF QueueInv, WorkerAcquire,
        TypeOK, Threads, Tasks, Goto, WorkerLabels, ClientLabels,
        OwnerLabels, storeVars, flushVars
<1>f. UNCHANGED <<Taken, TakenTasks, Pushed>>
    BY QueueFrame
<1>1. TypeOK'
    BY <1>f DEF CallInv
<1>2. LockInv'
    BY <1>f DEF LockInv, PopHasFront, HaveWork
<1>3. CallInv'
    BY <1>f DEF CallInv
<1>4. PlaceInv'
    <2>1. \A v \in Workers : Busy(v)' <=> Busy(v)
        BY DEF Busy
    <2>2. \A v \in Workers : obj'[v] = obj[v]
        OBVIOUS
    <2>. QED  BY <1>f, <2>1, <2>2, PlaceFrame
<1>5. FlushInv'
    BY <1>f, TakenArePushed DEF FlushInv, PlaceInv, Busy, CallInv
<1>6. DequeInv'
    BY <1>f DEF DequeInv
<1>. QED  BY <1>1, <1>2, <1>3, <1>4, <1>5, <1>6 DEF QueueInv

LEMMA WorkerBlockInv ==
    ASSUME QueueInv, NEW w \in Workers, WorkerBlock(w)
    PROVE  QueueInv'
<1> USE QueueAssumption DEF QueueInv, WorkerBlock,
        TypeOK, Threads, Tasks, Goto, WorkerLabels, ClientLabels,
        OwnerLabels, storeVars, flushVars
<1>f. UNCHANGED <<Taken, TakenTasks, Pushed>>
    BY QueueFrame
<1>1. TypeOK'
    BY <1>f DEF CallInv
<1>2. LockInv'
    BY <1>f DEF LockInv, PopHasFront
<1>3. CallInv'
    BY <1>f DEF CallInv
<1>4. PlaceInv'
    <2>1. \A v \in Workers : Busy(v)' <=> Busy(v)
        BY DEF Busy
    <2>2. \A v \in Workers : obj'[v] = obj[v]
        OBVIOUS
    <2>. QED  BY <1>f, <2>1, <2>2, PlaceFrame
<1>5. FlushInv'
    BY <1>f, TakenArePushed DEF FlushInv, PlaceInv, Busy, CallInv
<1>6. DequeInv'
    BY <1>f DEF DequeInv
<1>. QED  BY <1>1, <1>2, <1>3, <1>4, <1>5, <1>6 DEF QueueInv

LEMMA WorkerExitInv ==
    ASSUME QueueInv, NEW w \in Workers, WorkerExit(w)
    PROVE  QueueInv'
<1> USE QueueAssumption DEF QueueInv, WorkerExit,
        TypeOK, Threads, Tasks, Goto, WorkerLabels, ClientLabels,
        OwnerLabels, storeVars, flushVars
<1>f. UNCHANGED <<Taken, TakenTasks, Pushed>>
    BY QueueFrame
<1>1. TypeOK'
    BY <1>f DEF CallInv
<1>2. LockInv'
    BY <1>f DEF LockInv, PopHasFront
<1>3. CallInv'
    BY <1>f DEF CallInv
<1>4. PlaceInv'
    <2>1. \A v \in Workers : Busy(v)' <=> Busy(v)
        BY DEF Busy
    <2>2. \A v \in Workers : obj'[v] = obj[v]
        OBVIOUS
    <2>. QED  BY <1>f, <2>1, <2>2, PlaceFrame
<1>5. FlushInv'
    BY <1>f, TakenArePushed DEF FlushInv, PlaceInv, Busy, CallInv
<1>6. DequeInv'
    BY <1>f DEF DequeInv
<1>. QED  BY <1>1, <1>2, <1>3, <1>4, <1>5, <1>6 DEF QueueInv

LEMMA WorkerTakeInv ==
    ASSUME QueueInv, NEW w \in Workers, WorkerTake(w)
    PROVE  QueueInv'
<1> USE QueueAssumption DEF QueueInv, WorkerTake,
        TypeOK, Threads, Tasks, Goto, WorkerLabels, ClientLabels,
        OwnerLabels, storeVars, flushVars
<1>0. pending # <<>>
    BY DEF LockInv, PopHasFront
<1>f. /\ Head(pending) \in Tasks
      /\ Head(pending) \notin TakenTasks
      /\ Taken' = Taken + 1
      /\ TakenTasks' = TakenTasks \cup {Head(pending)}
      /\ Pushed' = Pushed
      /\ DequeInv'
    BY <1>0, PopFacts
<1>1. TypeOK'
    BY <1>0, <1>f DEF CallInv
<1>2. LockInv'
    BY <1>0, <1>f DEF LockInv, PopHasFront
<1>3. CallInv'
    BY <1>0, <1>f DEF CallInv
<1>4. PlaceInv'
    <2>1. /\ ~Busy(w) /\ Busy(w)' /\ obj'[w] = Head(pending)
          /\ \A v \in Workers \ {w} :
                /\ Busy(v)' <=> Busy(v)
                /\ Busy(v) => obj'[v] = obj[v]
        BY <1>f DEF Busy
    <2>2. UNCHANGED finished
        OBVIOUS
    <2>3. PlaceInv
        OBVIOUS
    <2>. QED  BY <1>f, <2>1, <2>2, <2>3, PlaceTake
<1>5. FlushInv'
    BY <1>0, <1>f, TakenArePushed DEF FlushInv, PlaceInv, Busy, CallInv
<1>6. DequeInv'
    BY <1>f
<1>. QED  BY <1>1, <1>2, <1>3, <1>4, <1>5, <1>6 DEF QueueInv

LEMMA WorkerNotifyInv ==
    ASSUME QueueInv, NEW w \in Workers, WorkerNotify(w)
    PROVE  QueueInv'
<1> USE QueueAssumption DEF QueueInv, WorkerNotify, NotifyOne,
        TypeOK, Threads, Tasks, Goto, WorkerLabels, ClientLabels,
        OwnerLabels, storeVars, flushVars
<1>f. UNCHANGED <<Taken, TakenTasks, Pushed>>
    BY QueueFrame
<1>1. TypeOK'
    BY <1>f DEF CallInv
<1>2. LockInv'
    BY <1>f DEF LockInv, PopHasFront
<1>3. CallInv'
    BY <1>f DEF CallInv
<1>4. PlaceInv'
    <2>1. \A v \in Workers : Busy(v)' <=> Busy(v)
        BY DEF Busy
    <2>2. \A v \in Workers : obj'[v] = obj[v]
        OBVIOUS
    <2>. QED  BY <1>f, <2>1, <2>2, PlaceFrame
<1>5. FlushInv'
    BY <1>f, TakenArePushed DEF FlushInv, PlaceInv, Busy, CallInv
<1>6. DequeInv'
    BY <1>f DEF DequeInv
<1>. QED  BY <1>1, <1>2, <1>3, <1>4, <1>5, <1>6 DEF QueueInv

LEMMA RunJobInv ==
    ASSUME QueueInv, NEW w \in Workers, RunJob(w)
    PROVE  QueueInv'
<1> USE QueueAssumption DEF QueueInv, RunJob,
        TypeOK, Threads, Tasks, Goto, WorkerLabels, ClientLabels,
        OwnerLabels, storeVars, flushVars
<1>f. UNCHANGED <<Taken, TakenTasks, Pushed>>
    BY QueueFrame
<1>1. TypeOK'
    BY <1>f DEF CallInv
<1>2. LockInv'
    BY <1>f DEF LockInv, PopHasFront
<1>3. CallInv'
    BY <1>f DEF CallInv
<1>4. PlaceInv'
    <2>1. Busy(w) /\ ~Busy(w)' /\ \A v \in Workers \ {w} : Busy(v)' <=> Busy(v)
        BY DEF Busy
    <2>. QED  BY <1>f, <2>1, PlaceFinish
<1>5. FlushInv'
    BY <1>f, TakenArePushed DEF FlushInv, PlaceInv, Busy, CallInv
<1>6. DequeInv'
    BY <1>f DEF DequeInv
<1>. QED  BY <1>1, <1>2, <1>3, <1>4, <1>5, <1>6 DEF QueueInv

LEMMA RunFlushSetInv ==
    ASSUME QueueInv, NEW w \in Workers, RunFlushSet(w)
    PROVE  QueueInv'
<1> USE QueueAssumption DEF QueueInv, RunFlushSet,
        TypeOK, Threads, Tasks, Goto, WorkerLabels, ClientLabels,
        OwnerLabels, storeVars, flushVars
<1>f. UNCHANGED <<Taken, TakenTasks, Pushed>>
    BY QueueFrame
<1>1. TypeOK'
    BY <1>f DEF CallInv
<1>2. LockInv'
    BY <1>f DEF LockInv, PopHasFront
<1>3. CallInv'
    BY <1>f DEF CallInv
<1>4. PlaceInv'
    <2>1. \A v \in Workers : Busy(v)' <=> Busy(v)
        BY DEF Busy
    <2>2. \A v \in Workers : obj'[v] = obj[v]
        OBVIOUS
    <2>. QED  BY <1>f, <2>1, <2>2, PlaceFrame
<1>5. FlushInv'
    BY <1>f, TakenArePushed DEF FlushInv, PlaceInv, Busy, CallInv
<1>6. DequeInv'
    BY <1>f DEF DequeInv
<1>. QED  BY <1>1, <1>2, <1>3, <1>4, <1>5, <1>6 DEF QueueInv

LEMMA RunFlushNotifyInv ==
    ASSUME QueueInv, NEW w \in Workers, RunFlushNotify(w)
    PROVE  QueueInv'
<1> USE QueueAssumption DEF QueueInv, RunFlushNotify,
        TypeOK, Threads, Tasks, Goto, WorkerLabels, ClientLabels,
        OwnerLabels, storeVars, flushVars
<1>f. UNCHANGED <<Taken, TakenTasks, Pushed>>
    BY QueueFrame
<1>0. obj[w] \in Tasks
    BY TakenArePushed DEF PlaceInv, Busy, Pushed
<1>1. TypeOK'
    BY <1>0, <1>f DEF CallInv
<1>2. LockInv'
    BY <1>0, <1>f DEF LockInv, PopHasFront
<1>3. CallInv'
    BY <1>0, <1>f DEF CallInv
<1>4. PlaceInv'
    <2>1. Busy(w) /\ ~Busy(w)' /\ \A v \in Workers \ {w} : Busy(v)' <=> Busy(v)
        BY DEF Busy
    <2>. QED  BY <1>f, <2>1, PlaceFinish
<1>5. FlushInv'
    BY <1>0, <1>f, TakenArePushed DEF FlushInv, PlaceInv, Busy, CallInv
<1>6. DequeInv'
    BY <1>f DEF DequeInv
<1>. QED  BY <1>1, <1>2, <1>3, <1>4, <1>5, <1>6 DEF QueueInv

LEMMA SpuriousWorkerInv ==
    ASSUME QueueInv, NEW w \in Workers, SpuriousWorker(w)
    PROVE  QueueInv'
<1> USE QueueAssumption DEF QueueInv, SpuriousWorker,
        TypeOK, Threads, Tasks, Goto, WorkerLabels, ClientLabels,
        OwnerLabels, storeVars, flushVars
<1>f. UNCHANGED <<Taken, TakenTasks, Pushed>>
    BY QueueFrame
<1>1. TypeOK'
    BY <1>f DEF CallInv
<1>2. LockInv'
    BY <1>f DEF LockInv, PopHasFront
<1>3. CallInv'
    BY <1>f DEF CallInv
<1>4. PlaceInv'
    <2>1. \A v \in Workers : Busy(v)' <=> Busy(v)
        BY DEF Busy
    <2>2. \A v \in Workers : obj'[v] = obj[v]
        OBVIOUS
    <2>. QED  BY <1>f, <2>1, <2>2, PlaceFrame
<1>5. FlushInv'
    BY <1>f, TakenArePushed DEF FlushInv, PlaceInv, Busy, CallInv
<1>6. DequeInv'
    BY <1>f DEF DequeInv
<1>. QED  BY <1>1, <1>2, <1>3, <1>4, <1>5, <1>6 DEF QueueInv

LEMMA SubmitCallInv ==
    ASSUME QueueInv, NEW t \in Workers \cup Clients, NEW j \in Jobs, SubmitCall(t, j)
    PROVE  QueueInv'
<1> USE QueueAssumption DEF QueueInv, SubmitCall,
        TypeOK, Threads, Tasks, Goto, WorkerLabels, ClientLabels,
        OwnerLabels, storeVars, flushVars
<1>f. UNCHANGED <<Taken, TakenTasks, Pushed>>
    BY QueueFrame
<1>1. TypeOK'
    BY <1>f DEF CallInv
<1>2. LockInv'
    BY <1>f DEF LockInv, PopHasFront
<1>3. CallInv'
    BY <1>f DEF CallInv, Unused
<1>4. PlaceInv'
    <2>1. \A w \in Workers : Busy(w)' <=> Busy(w)
        BY DEF Busy
    <2>2. \A w \in Workers : obj'[w] = obj[w]
        OBVIOUS
    <2>. QED  BY <1>f, <2>1, <2>2, PlaceFrame
<1>5. FlushInv'
    BY <1>f, TakenArePushed DEF FlushInv, PlaceInv, Busy, CallInv
<1>6. DequeInv'
    BY <1>f DEF DequeInv
<1>. QED  BY <1>1, <1>2, <1>3, <1>4, <1>5, <1>6 DEF QueueInv

LEMMA SubmitPushInv ==
    ASSUME QueueInv, NEW t \in Workers \cup Clients, SubmitPush(t)
    PROVE  QueueInv'
<1> USE QueueAssumption DEF QueueInv, SubmitPush,
        TypeOK, Threads, Tasks, Goto, WorkerLabels, ClientLabels,
        OwnerLabels, storeVars, flushVars
<1>0. arg[t] \in Tasks /\ arg[t] \notin Pushed
    BY DEF CallInv
<1>f. /\ Taken' = Taken
      /\ TakenTasks' = TakenTasks
      /\ Pushed' = Pushed \cup {arg[t]}
      /\ DequeInv'
    BY <1>0, PushFacts
<1>1. TypeOK'
    BY <1>0, <1>f DEF CallInv
<1>2. LockInv'
    BY <1>0, <1>f DEF LockInv, PopHasFront
<1>3. CallInv'
    BY <1>0, <1>f DEF CallInv
<1>4. PlaceInv'
    <2>1. \A w \in Workers : Busy(w)' <=> Busy(w)
        BY DEF Busy
    <2>2. \A w \in Workers : obj'[w] = obj[w]
        OBVIOUS
    <2>. QED  BY <1>f, <2>1, <2>2, PlaceFrame
<1>5. FlushInv'
    BY <1>0, <1>f, TakenArePushed DEF FlushInv, PlaceInv, Busy, CallInv
<1>6. DequeInv'
    BY <1>f
<1>. QED  BY <1>1, <1>2, <1>3, <1>4, <1>5, <1>6 DEF QueueInv

LEMMA SubmitNotifyInv ==
    ASSUME QueueInv, NEW t \in Workers \cup Clients, SubmitNotify(t)
    PROVE  QueueInv'
<1> USE QueueAssumption DEF QueueInv, SubmitNotify, NotifyOne, Resume,
        TypeOK, Threads, Tasks, Goto, WorkerLabels, ClientLabels,
        OwnerLabels, storeVars, flushVars
<1>f. UNCHANGED <<Taken, TakenTasks, Pushed>>
    BY QueueFrame
<1>p. /\ \A w \in Workers : pc'[w] = pc[w] \/ (w = t /\ pc'[w] = "run")
      /\ pc'[Owner] = pc[Owner]
    BY DEF CallInv
<1>1. TypeOK'
    BY <1>f, <1>p DEF CallInv
<1>2. LockInv'
    BY <1>f, <1>p DEF LockInv, PopHasFront
<1>3. CallInv'
    BY <1>f, <1>p DEF CallInv
<1>4. PlaceInv'
    <2>1. \A w \in Workers : Busy(w)' <=> Busy(w)
        BY <1>p DEF Busy
    <2>2. \A w \in Workers : obj'[w] = obj[w]
        OBVIOUS
    <2>. QED  BY <1>f, <2>1, <2>2, PlaceFrame
<1>5. FlushInv'
    BY <1>f, <1>p, TakenArePushed DEF FlushInv, PlaceInv, Busy, CallInv
<1>6. DequeInv'
    BY <1>f DEF DequeInv
<1>. QED  BY <1>1, <1>2, <1>3, <1>4, <1>5, <1>6 DEF QueueInv

LEMMA FlushCallInv ==
    ASSUME QueueInv, NEW c \in Clients, NEW f \in Flushes, FlushCall(c, f)
    PROVE  QueueInv'
<1> USE QueueAssumption DEF QueueInv, FlushCall,
        TypeOK, Threads, Tasks, Goto, WorkerLabels, ClientLabels,
        OwnerLabels, storeVars, flushVars
<1>f. UNCHANGED <<Taken, TakenTasks, Pushed>>
    BY QueueFrame
<1>p. /\ \A w \in Workers : pc'[w] = pc[w]
      /\ pc'[Owner] = pc[Owner]
    OBVIOUS
<1>1. TypeOK'
    BY <1>f, <1>p DEF CallInv
<1>2. LockInv'
    BY <1>f, <1>p DEF LockInv, PopHasFront
<1>3. CallInv'
    BY <1>f, <1>p DEF CallInv, Unused
<1>4. PlaceInv'
    <2>1. \A w \in Workers : Busy(w)' <=> Busy(w)
        BY <1>p DEF Busy
    <2>2. \A w \in Workers : obj'[w] = obj[w]
        OBVIOUS
    <2>. QED  BY <1>f, <2>1, <2>2, PlaceFrame
<1>5. FlushInv'
    BY <1>f, <1>p, TakenArePushed DEF FlushInv, PlaceInv, Busy, CallInv
<1>6. DequeInv'
    BY <1>f DEF DequeInv
<1>. QED  BY <1>1, <1>2, <1>3, <1>4, <1>5, <1>6 DEF QueueInv

LEMMA FlushTestInv ==
    ASSUME QueueInv, NEW c \in Clients, FlushTest(c)
    PROVE  QueueInv'
<1> USE QueueAssumption DEF QueueInv, FlushTest,
        TypeOK, Threads, Tasks, Goto, WorkerLabels, ClientLabels,
        OwnerLabels, storeVars, flushVars
<1>f. UNCHANGED <<Taken, TakenTasks, Pushed>>
    BY QueueFrame
<1>p. /\ \A w \in Workers : pc'[w] = pc[w]
      /\ pc'[Owner] = pc[Owner]
    OBVIOUS
<1>1. TypeOK'
    BY <1>f, <1>p DEF CallInv
<1>2. LockInv'
    BY <1>f, <1>p DEF LockInv, PopHasFront
<1>3. CallInv'
    BY <1>f, <1>p DEF CallInv
<1>4. PlaceInv'
    <2>1. \A w \in Workers : Busy(w)' <=> Busy(w)
        BY <1>p DEF Busy
    <2>2. \A w \in Workers : obj'[w] = obj[w]
        OBVIOUS
    <2>. QED  BY <1>f, <2>1, <2>2, PlaceFrame
<1>5. FlushInv'
    <2>1. CASE arg[c] \in done
        <3>1. live' = live \ {arg[c]} /\ returned' = returned \cup {arg[c]}
            BY <2>1
        <3>2. \A d \in Clients : arg'[d] \in Flushes => arg'[d] \in live'
            BY <2>1, <3>1 DEF FlushInv, CallInv
        <3>. QED  BY <2>1, <3>1, <3>2, <1>f, <1>p DEF FlushInv
    <2>2. CASE arg[c] \notin done
        BY <2>2, <1>f, <1>p DEF FlushInv
    <2>. QED  BY <2>1, <2>2
<1>6. DequeInv'
    BY <1>f DEF DequeInv
<1>. QED  BY <1>1, <1>2, <1>3, <1>4, <1>5, <1>6 DEF QueueInv

LEMMA FlushBlockInv ==
    ASSUME QueueInv, NEW c \in Clients, FlushBlock(c)
    PROVE  QueueInv'
<1> USE QueueAssumption DEF QueueInv, FlushBlock,
        TypeOK, Threads, Tasks, Goto, WorkerLabels, ClientLabels,
        OwnerLabels, storeVars, flushVars
<1>f. UNCHANGED <<Taken, TakenTasks, Pushed>>
    BY QueueFrame
<1>p. /\ \A w \in Workers : pc'[w] = pc[w]
      /\ pc'[Owner] = pc[Owner]
    OBVIOUS
<1>1. TypeOK'
    BY <1>f, <1>p DEF CallInv
<1>2. LockInv'
    BY <1>f, <1>p DEF LockInv, PopHasFront
<1>3. CallInv'
    BY <1>f, <1>p DEF CallInv
<1>4. PlaceInv'
    <2>1. \A w \in Workers : Busy(w)' <=> Busy(w)
        BY <1>p DEF Busy
    <2>2. \A w \in Workers : obj'[w] = obj[w]
        OBVIOUS
    <2>. QED  BY <1>f, <2>1, <2>2, PlaceFrame
<1>5. FlushInv'
    BY <1>f, <1>p, TakenArePushed DEF FlushInv, PlaceInv, Busy, CallInv
<1>6. DequeInv'
    BY <1>f DEF DequeInv
<1>. QED  BY <1>1, <1>2, <1>3, <1>4, <1>5, <1>6 DEF QueueInv

LEMMA FlushWakeInv ==
    ASSUME QueueInv, NEW c \in Clients, FlushWake(c)
    PROVE  QueueInv'
<1> USE QueueAssumption DEF QueueInv, FlushWake,
        TypeOK, Threads, Tasks, Goto, WorkerLabels, ClientLabels,
        OwnerLabels, storeVars, flushVars
<1>f. UNCHANGED <<Taken, TakenTasks, Pushed>>
    BY QueueFrame
<1>p. /\ \A w \in Workers : pc'[w] = pc[w]
      /\ pc'[Owner] = pc[Owner]
    OBVIOUS
<1>1. TypeOK'
    BY <1>f, <1>p DEF CallInv
<1>2. LockInv'
    BY <1>f, <1>p DEF LockInv, PopHasFront
<1>3. CallInv'
    BY <1>f, <1>p DEF CallInv
<1>4. PlaceInv'
    <2>1. \A w \in Workers : Busy(w)' <=> Busy(w)
        BY <1>p DEF Busy
    <2>2. \A w \in Workers : obj'[w] = obj[w]
        OBVIOUS
    <2>. QED  BY <1>f, <2>1, <2>2, PlaceFrame
<1>5. FlushInv'
    BY <1>f, <1>p, TakenArePushed DEF FlushInv, PlaceInv, Busy, CallInv
<1>6. DequeInv'
    BY <1>f DEF DequeInv
<1>. QED  BY <1>1, <1>2, <1>3, <1>4, <1>5, <1>6 DEF QueueInv

LEMMA ClientEndInv ==
    ASSUME QueueInv, NEW c \in Clients, ClientEnd(c)
    PROVE  QueueInv'
<1> USE QueueAssumption DEF QueueInv, ClientEnd,
        TypeOK, Threads, Tasks, Goto, WorkerLabels, ClientLabels,
        OwnerLabels, storeVars, flushVars
<1>f. UNCHANGED <<Taken, TakenTasks, Pushed>>
    BY QueueFrame
<1>p. /\ \A w \in Workers : pc'[w] = pc[w]
      /\ pc'[Owner] = pc[Owner]
    OBVIOUS
<1>1. TypeOK'
    BY <1>f, <1>p DEF CallInv
<1>2. LockInv'
    BY <1>f, <1>p DEF LockInv, PopHasFront
<1>3. CallInv'
    BY <1>f, <1>p DEF CallInv
<1>4. PlaceInv'
    <2>1. \A w \in Workers : Busy(w)' <=> Busy(w)
        BY <1>p DEF Busy
    <2>2. \A w \in Workers : obj'[w] = obj[w]
        OBVIOUS
    <2>. QED  BY <1>f, <2>1, <2>2, PlaceFrame
<1>5. FlushInv'
    BY <1>f, <1>p, TakenArePushed DEF FlushInv, PlaceInv, Busy, CallInv
<1>6. DequeInv'
    BY <1>f DEF DequeInv
<1>. QED  BY <1>1, <1>2, <1>3, <1>4, <1>5, <1>6 DEF QueueInv

LEMMA SpuriousFlushInv ==
    ASSUME QueueInv, NEW f \in Flushes, SpuriousFlush(f)
    PROVE  QueueInv'
<1> USE QueueAssumption DEF QueueInv, SpuriousFlush,
        TypeOK, Threads, Tasks, Goto, WorkerLabels, ClientLabels,
        OwnerLabels, storeVars, flushVars
<1>f. UNCHANGED <<Taken, TakenTasks, Pushed>>
    BY QueueFrame
<1>1. TypeOK'
    BY <1>f DEF CallInv
<1>2. LockInv'
    BY <1>f DEF LockInv, PopHasFront
<1>3. CallInv'
    BY <1>f DEF CallInv
<1>4. PlaceInv'
    <2>1. \A w \in Workers : Busy(w)' <=> Busy(w)
        BY DEF Busy
    <2>2. \A w \in Workers : obj'[w] = obj[w]
        OBVIOUS
    <2>. QED  BY <1>f, <2>1, <2>2, PlaceFrame
<1>5. FlushInv'
    BY <1>f, TakenArePushed DEF FlushInv, PlaceInv, Busy, CallInv
<1>6. DequeInv'
    BY <1>f DEF DequeInv
<1>. QED  BY <1>1, <1>2, <1>3, <1>4, <1>5, <1>6 DEF QueueInv

LEMMA StopSetInv ==
    ASSUME QueueInv, StopSet
    PROVE  QueueInv'
<1> USE QueueAssumption DEF QueueInv, StopSet,
        TypeOK, Threads, Tasks, Goto, WorkerLabels, ClientLabels,
        OwnerLabels, storeVars, flushVars
<1>f. UNCHANGED <<Taken, TakenTasks, Pushed>>
    BY QueueFrame
<1>1. TypeOK'
    BY <1>f DEF CallInv
<1>2. LockInv'
    BY <1>f DEF LockInv, PopHasFront
<1>3. CallInv'
    BY <1>f DEF CallInv
<1>4. PlaceInv'
    <2>1. \A w \in Workers : Busy(w)' <=> Busy(w)
        BY DEF Busy
    <2>2. \A w \in Workers : obj'[w] = obj[w]
        OBVIOUS
    <2>. QED  BY <1>f, <2>1, <2>2, PlaceFrame
<1>5. FlushInv'
    BY <1>f, TakenArePushed DEF FlushInv, PlaceInv, Busy, CallInv
<1>6. DequeInv'
    BY <1>f DEF DequeInv
<1>. QED  BY <1>1, <1>2, <1>3, <1>4, <1>5, <1>6 DEF QueueInv

LEMMA StopNotifyInv ==
    ASSUME QueueInv, StopNotify
    PROVE  QueueInv'
<1> USE QueueAssumption DEF QueueInv, StopNotify,
        TypeOK, Threads, Tasks, Goto, WorkerLabels, ClientLabels,
        OwnerLabels, storeVars, flushVars
<1>f. UNCHANGED <<Taken, TakenTasks, Pushed>>
    BY QueueFrame
<1>1. TypeOK'
    BY <1>f DEF CallInv
<1>2. LockInv'
    BY <1>f DEF LockInv, PopHasFront
<1>3. CallInv'
    BY <1>f DEF CallInv
<1>4. PlaceInv'
    <2>1. \A w \in Workers : Busy(w)' <=> Busy(w)
        BY DEF Busy
    <2>2. \A w \in Workers : obj'[w] = obj[w]
        OBVIOUS
    <2>. QED  BY <1>f, <2>1, <2>2, PlaceFrame
<1>5. FlushInv'
    BY <1>f, TakenArePushed DEF FlushInv, PlaceInv, Busy, CallInv
<1>6. DequeInv'
    BY <1>f DEF DequeInv
<1>. QED  BY <1>1, <1>2, <1>3, <1>4, <1>5, <1>6 DEF QueueInv

LEMMA StopJoinInv ==
    ASSUME QueueInv, StopJoin
    PROVE  QueueInv'
<1> USE QueueAssumption DEF QueueInv, StopJoin,
        TypeOK, Threads, Tasks, Goto, WorkerLabels, ClientLabels,
        OwnerLabels, storeVars, flushVars
<1>f. UNCHANGED <<Taken, TakenTasks, Pushed>>
    BY QueueFrame
<1>1. TypeOK'
    BY <1>f DEF CallInv
<1>2. LockInv'
    BY <1>f DEF LockInv, PopHasFront
<1>3. CallInv'
    BY <1>f DEF CallInv
<1>4. PlaceInv'
    <2>1. \A w \in Workers : Busy(w)' <=> Busy(w)
        BY DEF Busy
    <2>2. \A w \in Workers : obj'[w] = obj[w]
        OBVIOUS
    <2>. QED  BY <1>f, <2>1, <2>2, PlaceFrame
<1>5. FlushInv'
    BY <1>f, TakenArePushed DEF FlushInv, PlaceInv, Busy, CallInv
<1>6. DequeInv'
    BY <1>f DEF DequeInv
<1>. QED  BY <1>1, <1>2, <1>3, <1>4, <1>5, <1>6 DEF QueueInv

\* Every step preserves the invariant.
LEMMA QueueStep == QueueInv /\ [Next]_vars => QueueInv'
<1> SUFFICES ASSUME QueueInv, [Next]_vars PROVE QueueInv'
    OBVIOUS
<1>1. ASSUME NEW w \in Workers, WorkerStep(w) PROVE QueueInv'
    BY <1>1, WorkerAcquireInv, WorkerBlockInv, WorkerExitInv, WorkerTakeInv,
       WorkerNotifyInv, RunJobInv, RunFlushSetInv, RunFlushNotifyInv
       DEF WorkerStep
<1>2. ASSUME NEW t \in Workers \cup Clients, SubmitStep(t) PROVE QueueInv'
    BY <1>2, SubmitPushInv, SubmitNotifyInv DEF SubmitStep
<1>3. ASSUME NEW c \in Clients, FlushStep(c) PROVE QueueInv'
    BY <1>3, FlushTestInv, FlushBlockInv, FlushWakeInv DEF FlushStep
<1>4. ASSUME OwnerStep \/ StopSet PROVE QueueInv'
    BY <1>4, StopSetInv, StopNotifyInv, StopJoinInv DEF OwnerStep
<1>5. CASE UNCHANGED vars
    <2>1. UNCHANGED <<Taken, TakenTasks, Pushed>> /\ \A w : Busy(w)' <=> Busy(w)
        BY <1>5 DEF vars, storeVars, Taken, TakenTasks, Pushed, Busy
    <2>. QED
        BY <1>5, <2>1 DEF QueueInv, TypeOK, LockInv, PopHasFront, CallInv,
           DequeInv, PlaceInv, FlushInv, vars, storeVars, flushVars
<1>. QED
    BY <1>1, <1>2, <1>3, <1>4, <1>5, SpuriousWorkerInv, SubmitCallInv,
       FlushCallInv, ClientEndInv, SpuriousFlushInv DEF Next, Ended

-----------------------------------------------------------------------------
(* The theorems.                                                           *)

LEMMA QueueInvariant == Spec => []QueueInv
BY QueueInit, QueueStep, PTL DEF Spec

\* Type correctness: every variable of the queue keeps its type.
THEOREM TypeCorrect == Spec => []TypeOK
BY QueueInvariant, PTL DEF QueueInv

\* No worker ever takes the front of an empty deque (queue.cpp:39-50).
THEOREM PopIsSafe == Spec => []PopHasFront
<1>1. QueueInv => PopHasFront
    BY DEF QueueInv, LockInv
<1>. QED  BY <1>1, QueueInvariant, PTL

\* No task is lost or run twice: each accepted task is pending, held by
\* exactly one worker, or finished (queue.cpp:49-54).
THEOREM EachTaskOnce == Spec => []ExactlyOnce
<1>1. QueueInv => ExactlyOnce
    <2> SUFFICES ASSUME QueueInv, NEW i \in 1..Len(order)
                 PROVE  IF i > Taken
                        THEN /\ order[i] \notin finished
                             /\ \A w \in Workers : Busy(w) => obj[w] # order[i]
                        ELSE IF order[i] \in finished
                             THEN \A w \in Workers : Busy(w) => obj[w] # order[i]
                             ELSE \E w \in Workers :
                                     /\ Busy(w) /\ obj[w] = order[i]
                                     /\ \A v \in Workers \ {w} :
                                           Busy(v) => obj[v] # order[i]
        BY DEF ExactlyOnce
    <2>1. order[i] \in TakenTasks <=> i <= Taken
        BY DEF QueueInv, TypeOK, DequeInv, Taken, TakenTasks
    <2>2. Taken \in Nat
        BY DEF QueueInv, TypeOK, DequeInv, Taken
    <2>3. CASE i > Taken
        <3>1. order[i] \notin TakenTasks
            BY <2>1, <2>2, <2>3
        <3>. QED  BY <3>1, <2>3 DEF QueueInv, PlaceInv
    <2>4. CASE ~(i > Taken)
        <3>1. order[i] \in TakenTasks
            BY <2>1, <2>2, <2>4
        <3>2. CASE order[i] \in finished
            BY <3>2, <2>4 DEF QueueInv, PlaceInv
        <3>3. CASE order[i] \notin finished
            BY <3>1, <3>3, <2>4 DEF QueueInv, PlaceInv
        <3>. QED  BY <3>2, <3>3
    <2>. QED  BY <2>3, <2>4
<1>. QED  BY <1>1, QueueInvariant, PTL

\* flush() returns only when all that was submitted before it has been
\* popped (queue.hpp:70-94).
LEMMA FlushDrainsInv == QueueInv => FlushDrains
<1> SUFFICES ASSUME QueueInv, NEW i \in 1..Len(order), order[i] \in returned,
                    NEW k \in 1..i
             PROVE  order[k] \in TakenTasks
    BY DEF FlushDrains
<1>1. order[i] \in TakenTasks
    BY DEF QueueInv, FlushInv
<1>2. i <= Taken /\ Taken \in Nat
    BY <1>1 DEF QueueInv, TypeOK, DequeInv, Taken, TakenTasks
<1>. QED  BY <1>2 DEF TakenTasks

THEOREM FlushIsDrain == Spec => []FlushDrains
BY FlushDrainsInv, QueueInvariant, PTL

\* When a flushed queue has been destroyed, all that was submitted before the
\* flush has run: popped before the flush returned, and joined before the
\* destructor did (test/job/queue.cpp:26-29).
THEOREM FlushedRan == Spec => []FlushedThenDestroyedRan
<1>1. QueueInv => FlushedThenDestroyedRan
    <2> SUFFICES ASSUME QueueInv, pc[Owner] = "gone", NEW i \in 1..Len(order),
                        order[i] \in returned, NEW k \in 1..i
                 PROVE  order[k] \in finished
        BY DEF FlushedThenDestroyedRan
    <2>1. order[k] \in TakenTasks
        BY FlushDrainsInv DEF FlushDrains
    <2>2. \A w \in Workers : ~Busy(w)
        BY DEF QueueInv, LockInv, Busy
    <2>. QED  BY <2>1, <2>2 DEF QueueInv, PlaceInv
<1>. QED  BY <1>1, QueueInvariant, PTL

\* The functor of a flush finds the locals of the flush alive when it locks m
\* and sets `done' (queue.hpp:82-85).
THEOREM FlushFrameAlive == Spec => []SetsLiveFlush
<1>1. QueueInv => SetsLiveFlush
    BY TakenArePushed DEF QueueInv, PlaceInv, FlushInv, SetsLiveFlush, Busy
<1>. QED  BY <1>1, QueueInvariant, PTL

-----------------------------------------------------------------------------
(* The queue implements the abstract pool.                                 *)

LEMMA PoolInitRefined == Init => Pool!PoolInit
BY DEF Init, Pool!PoolInit, Taken

LEMMA PoolStepRefined == QueueInv /\ [Next]_vars => [Pool!PoolNext]_(Pool!poolVars)
<1> SUFFICES ASSUME QueueInv, [Next]_vars
             PROVE  [Pool!PoolNext]_(Pool!poolVars)
    OBVIOUS
<1> USE DEF storeVars, flushVars, Pool!poolVars
<1>1. ASSUME UNCHANGED <<pending, order, finished, stopping>>
      PROVE  UNCHANGED Pool!poolVars
    BY <1>1 DEF Taken
<1>2. ASSUME NEW w \in Workers, WorkerTake(w) PROVE Pool!Start
    <2>1. pending # <<>> /\ ~stopping
        BY <1>2 DEF WorkerTake, QueueInv, LockInv, PopHasFront
    <2>2. pending' = Tail(pending) /\ UNCHANGED <<order, finished, stopping>>
        BY <1>2 DEF WorkerTake
    <2>3. Taken < Len(order) /\ Taken' = Taken + 1
        BY <2>1, <2>2 DEF QueueInv, TypeOK, DequeInv, Taken
    <2>. QED  BY <2>1, <2>2, <2>3 DEF Pool!Start
<1>3. ASSUME NEW w \in Workers, RunJob(w) \/ RunFlushNotify(w)
      PROVE  \E t \in Tasks : Pool!Finish(t)
    <2>1. /\ obj[w] \in Tasks
          /\ obj[w] \in TakenTasks \ finished
        BY <1>3, TakenArePushed
           DEF QueueInv, TypeOK, PlaceInv, Busy, RunJob, RunFlushNotify, Pushed
    <2>2. /\ finished' = finished \cup {obj[w]}
          /\ UNCHANGED <<order, pending, stopping>>
        BY <1>3 DEF RunJob, RunFlushNotify
    <2>3. Taken' = Taken
        BY <2>2 DEF Taken
    <2>. QED  BY <2>1, <2>2, <2>3 DEF Pool!Finish, Pool!Started, TakenTasks
<1>4. ASSUME NEW t \in Workers \cup Clients, SubmitPush(t)
      PROVE  \E x \in Tasks : Pool!Accept(x)
    <2>1. arg[t] \in Tasks /\ arg[t] \notin Pushed
        BY <1>4 DEF SubmitPush, QueueInv, CallInv, Threads
    <2>2. /\ pending' = Append(pending, arg[t])
          /\ order' = Append(order, arg[t])
          /\ UNCHANGED <<finished, stopping>>
        BY <1>4 DEF SubmitPush
    <2>3. Taken' = Taken
        BY <2>1, <2>2, PushFacts DEF QueueInv
    <2>. QED  BY <2>1, <2>2, <2>3 DEF Pool!Accept, Pool!Accepted, Pushed
<1>5. ASSUME StopSet PROVE Pool!Close
    BY <1>5 DEF StopSet, Pool!Close, QueueInv, LockInv, Taken
<1>6. ASSUME NEW w \in Workers, WorkerStep(w)
      PROVE  [Pool!PoolNext]_(Pool!poolVars)
    <2>1. CASE WorkerTake(w) \/ RunJob(w) \/ RunFlushNotify(w)
        BY <2>1, <1>2, <1>3 DEF Pool!PoolNext
    <2>2. CASE ~(WorkerTake(w) \/ RunJob(w) \/ RunFlushNotify(w))
        <3>1. UNCHANGED <<pending, order, finished, stopping>>
            BY <1>6, <2>2 DEF WorkerStep, WorkerAcquire, WorkerBlock,
               WorkerExit, WorkerNotify, RunFlushSet
        <3>. QED  BY <3>1, <1>1
    <2>. QED  BY <2>1, <2>2
<1>7. ASSUME NEW t \in Workers \cup Clients, SubmitStep(t)
      PROVE  [Pool!PoolNext]_(Pool!poolVars)
    BY <1>7, <1>1, <1>4 DEF SubmitStep, SubmitNotify, Pool!PoolNext
<1>8. ASSUME NEW c \in Clients, FlushStep(c)
      PROVE  UNCHANGED Pool!poolVars
    BY <1>8, <1>1 DEF FlushStep, FlushTest, FlushBlock, FlushWake
<1>9. ASSUME \/ \E w \in Workers : SpuriousWorker(w)
             \/ \E t \in Workers \cup Clients, j \in Jobs : SubmitCall(t, j)
             \/ \E c \in Clients : ClientEnd(c) \/ \E f \in Flushes : FlushCall(c, f)
             \/ \E f \in Flushes : SpuriousFlush(f)
             \/ OwnerStep
             \/ UNCHANGED vars
      PROVE  UNCHANGED Pool!poolVars
    BY <1>9, <1>1 DEF SpuriousWorker, SubmitCall, ClientEnd, FlushCall,
       SpuriousFlush, OwnerStep, StopNotify, StopJoin, vars
<1>. QED
    BY <1>5, <1>6, <1>7, <1>8, <1>9 DEF Next, Ended, Pool!PoolNext

\* Every behaviour of the queue is one of the pool: accepted once, started in
\* the order of submission, finished once, and not started after closing.
THEOREM QueueRefinesPool == Spec => ImplementsPool
<1>1. Spec => []QueueInv
    BY QueueInvariant
<1>. QED
    BY <1>1, PoolInitRefined, PoolStepRefined, PTL
       DEF Spec, ImplementsPool, Pool!PoolSpec
=============================================================================
