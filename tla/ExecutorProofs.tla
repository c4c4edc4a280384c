--------------------------- MODULE ExecutorProofs ---------------------------
(***************************************************************************)
(* The safety of the orchestrator for any number of operations, projects,  *)
(* workers and any capacity of the history; first of the two parts that it *)
(* is made of, each by itself.                                             *)
(*                                                                         *)
(* LockerInv is an inductive invariant of ProjectLocker for any number of  *)
(* operations and projects, and it excludes two holders of one project.    *)
(*                                                                         *)
(* QueueInv is an inductive invariant of PriorityQueue for any number of   *)
(* requests and workers.  The part that takes an argument is               *)
(* NoStrandedItem: an Enqueue that finds a sleeper adds one item and one   *)
(* woken worker, a Dequeue takes away at most one of each, and a worker    *)
(* only goes to sleep when there is no item at all.  NoOvertaking follows  *)
(* from the order of the stamps, which is an invariant too.                *)
(*                                                                         *)
(* A step of the executor is a step of the lock, or leaves it alone, and   *)
(* likewise for the queue: so the invariants proved of ProjectLocker and   *)
(* PriorityQueue hold in the composition.  On top of them ExecutorInv ties *)
(* each operation's phase to its use of the lock, its registration, its    *)
(* outcome and its place in the queue.                                     *)
(***************************************************************************)
EXTENDS Executor, FiniteSetTheorems, TLAPS

(* The project lock. *)

(* The empty lock table satisfies the invariant. *)
LEMMA LockerInitInv == LockerInit => LockerInv
BY NoOpAssumption, ProjAssumption
DEF LockerInit, LockerInv, LockerTypeOK, AcqStates, EntryIsHolders, EntryIsOpen,
    ClosedIsOver, NoLostWakeup, IsLocked

(* Every step of the lock preserves the invariant: one step per action. *)
LEMMA LockerStepInv ==
    ASSUME LockerInv, [LockerNext]_lockerVars
    PROVE  LockerInv'
<1> USE NoOpAssumption, ProjAssumption
<1> USE DEF LockerInv, LockerTypeOK, AcqStates, EntryIsHolders, EntryIsOpen,
            ClosedIsOver, NoLostWakeup, IsLocked
<1>1. ASSUME NEW S \in SUBSET Ops, CtxEnd(S) PROVE LockerInv'
  BY <1>1 DEF CtxEnd
<1>2. ASSUME NEW o \in Ops, AcquireCall(o) PROVE LockerInv'
  BY <1>2 DEF AcquireCall
<1>3. ASSUME NEW o \in Ops, AcquireFree(o) PROVE LockerInv'
  BY <1>3 DEF AcquireFree
<1>4. ASSUME NEW o \in Ops, AcquireBlock(o) PROVE LockerInv'
  BY <1>4 DEF AcquireBlock
<1>5. ASSUME NEW o \in Ops, AcquireWake(o) PROVE LockerInv'
  BY <1>5 DEF AcquireWake
<1>6. ASSUME NEW o \in Ops, AcquireFail(o) PROVE LockerInv'
  BY <1>6 DEF AcquireFail
<1>7. ASSUME NEW o \in Ops, TryAcquire(o) PROVE LockerInv'
  BY <1>7 DEF TryAcquire
<1>8. ASSUME NEW o \in Ops, Release(o) PROVE LockerInv'
  BY <1>8 DEF Release
<1>9. CASE UNCHANGED lockerVars
  BY <1>9 DEF lockerVars
<1>10. QED
  BY <1>1, <1>2, <1>3, <1>4, <1>5, <1>6, <1>7, <1>8, <1>9 DEF LockerNext, LockerStep

(* Every reachable state of the lock satisfies LockerInv: the entry of a    *)
(* project is its holder's, its channel is open, and waiters wait on it.    *)
THEOREM LockerInvariant == LockerSpec => []LockerInv
<1>1. LockerInit => LockerInv
  BY LockerInitInv
<1>2. LockerInv /\ [LockerNext]_lockerVars => LockerInv'
  BY LockerStepInv
<1>3. QED
  BY <1>1, <1>2, PTL DEF LockerSpec

(* Two holders of one project's lock are the same operation: both are the   *)
(* holder of the project's one entry.                                       *)
LEMMA LockerInvExcludes == LockerInv => MutualExclusion
BY DEF LockerInv, EntryIsHolders, MutualExclusion

(* Acquire gives each project to one operation at a time. *)
THEOREM LockerMutualExclusion == LockerSpec => []MutualExclusion
BY LockerInvariant, LockerInvExcludes, PTL

(* A waiter's channel is closed already or belongs to the entry that is     *)
(* there now, so the release of that entry wakes it.                        *)
THEOREM LockerNoLostWakeup == LockerSpec => []NoLostWakeup
<1>1. LockerInv => NoLostWakeup
  BY DEF LockerInv
<1>2. QED
  BY <1>1, LockerInvariant, PTL

-----------------------------------------------------------------------------
(* The priority queue. *)

(* The sets of woken workers before and after a step are finite. *)
LEMMA WokenFinite == IsFiniteSet(Woken) /\ Cardinality(Woken) \in Nat
<1>1. Woken \subseteq Workers
  BY DEF Woken
<1>2. IsFiniteSet(Woken)
  BY <1>1, WorkersAssumption, FS_Subset
<1>3. QED
  BY <1>2, FS_CardinalityType

(* The empty queue satisfies the invariant. *)
LEMMA QueueInitInv == QueueInit => QueueInv
<1>1. SUFFICES ASSUME QueueInit PROVE QueueInv
  OBVIOUS
<1>2. QueueTypeOK
  BY <1>1, FS_EmptySet DEF QueueInit, QueueTypeOK, SubmitStates, DqStates
<1>3. Waiting = {}
  BY <1>1 DEF QueueInit, Waiting
<1>4. OneOwner
  BY <1>1 DEF QueueInit, OneOwner
<1>5. StampsInOrder
  BY <1>1 DEF QueueInit, StampsInOrder
<1>6. QED
  BY <1>2, <1>3, <1>4, <1>5 DEF QueueInv, NoStrandedItem, NoSleepAfterClose

(* Type correctness is preserved. *)
LEMMA QueueStepType ==
    ASSUME QueueInv, [QueueNext]_queueVars
    PROVE  QueueTypeOK'
<1> USE DEF QueueInv, QueueTypeOK, SubmitStates, DqStates
<1>1. ASSUME NEW r \in Requests, Stamp(r) PROVE QueueTypeOK'
  BY <1>1 DEF Stamp
<1>2. ASSUME NEW r \in Requests, Enqueue(r) PROVE QueueTypeOK'
  <2>1. IsFiniteSet(items \union {r})
    BY FS_AddElement
  <2>2. dq' \in [Workers -> DqStates]
    BY <1>2 DEF Enqueue, Signal, Waiting
  <2>3. QED
    BY <1>2, <2>1, <2>2 DEF Enqueue
<1>3. ASSUME NEW r \in Requests, items' = items \ {r} PROVE IsFiniteSet(items')
  BY <1>3, FS_RemoveElement
<1>4. ASSUME NEW r \in Requests, RemoveAndReturn(r) PROVE QueueTypeOK'
  BY <1>3, <1>4 DEF RemoveAndReturn
<1>5. ASSUME NEW w \in Workers, DequeueWait(w) PROVE QueueTypeOK'
  BY <1>5 DEF DequeueWait
<1>6. ASSUME NEW w \in Workers, NEW r \in Requests, DequeueTake(w, r) PROVE QueueTypeOK'
  BY <1>3, <1>6 DEF DequeueTake
<1>7. ASSUME NEW w \in Workers, DequeueClosed(w) PROVE QueueTypeOK'
  BY <1>7 DEF DequeueClosed
<1>8. ASSUME NEW w \in Workers, WorkerLoop(w) PROVE QueueTypeOK'
  BY <1>8 DEF WorkerLoop
<1>9. ASSUME NEW w \in Workers, WorkerQuit(w) PROVE QueueTypeOK'
  BY <1>9 DEF WorkerQuit
<1>10. ASSUME TryDequeue PROVE QueueTypeOK'
  <2>1. PICK r \in HeapMin : items' = items \ {r}
    BY <1>10 DEF TryDequeue
  <2>2. r \in Requests
    BY <2>1 DEF HeapMin
  <2>3. QED
    BY <1>3, <1>10, <2>1, <2>2 DEF TryDequeue
<1>11. ASSUME Close PROVE QueueTypeOK'
  BY <1>11 DEF Close
<1>12. CASE UNCHANGED queueVars
  BY <1>12 DEF queueVars
<1>13. QED
  BY <1>1, <1>2, <1>4, <1>5, <1>6, <1>7, <1>8, <1>9, <1>10, <1>11, <1>12
  DEF QueueNext, WorkerDequeue

(* A step that takes at most items away and leaves the workers alone        *)
(* strands nothing.                                                         *)
LEMMA ShrinkingStrandsNothing ==
    ASSUME QueueInv, items' \subseteq items, UNCHANGED dq
    PROVE  NoStrandedItem'
<1>1. Cardinality(items') <= Cardinality(items)
  BY FS_Subset DEF QueueInv, QueueTypeOK
<1>2. Cardinality(items) \in Nat /\ Cardinality(items') \in Nat
  BY FS_CardinalityType, FS_Subset DEF QueueInv, QueueTypeOK
<1>3. Waiting' = Waiting /\ Woken' = Woken
  BY DEF Waiting, Woken
<1>4. QED
  BY <1>1, <1>2, <1>3, WokenFinite DEF QueueInv, NoStrandedItem

(* No step strands an item: one case per way of changing items or dq. *)
LEMMA QueueStepStranded ==
    ASSUME QueueInv, [QueueNext]_queueVars
    PROVE  NoStrandedItem'
<1>1. ASSUME NEW r \in Requests, Enqueue(r) PROVE NoStrandedItem'
  <2>0. IsFiniteSet(items) /\ items' = items \union {r} /\ Cardinality(items) \in Nat
    BY <1>1, FS_CardinalityType DEF Enqueue, QueueInv, QueueTypeOK
  <2>1. Cardinality(items') <= Cardinality(items) + 1
    BY <2>0, FS_AddElement
  <2>2. Cardinality(items') \in Nat
    <3>1. IsFiniteSet(items')
      BY <2>0, FS_AddElement
    <3>2. QED
      BY <3>1, FS_CardinalityType
  <2>3. ASSUME NEW w \in Waiting, dq' = [dq EXCEPT ![w] = "woken"] PROVE NoStrandedItem'
    <3>1. w \notin Woken /\ Woken' = Woken \union {w}
      BY <2>3 DEF Waiting, Woken, QueueInv, QueueTypeOK
    <3>2. Cardinality(Woken') = Cardinality(Woken) + 1
      BY <3>1, WokenFinite, FS_AddElement
    <3>3. Cardinality(items) <= Cardinality(Woken)
      BY <2>3 DEF QueueInv, NoStrandedItem
    <3>4. QED
      BY <2>0, <2>1, <2>2, <3>2, <3>3, WokenFinite DEF NoStrandedItem
  <2>4. ASSUME Waiting = {}, UNCHANGED dq PROVE NoStrandedItem'
    BY <2>4 DEF NoStrandedItem, Waiting
  <2>5. QED
    BY <1>1, <2>3, <2>4 DEF Enqueue, Signal
<1>2. ASSUME NEW w \in Workers, DequeueWait(w) PROVE NoStrandedItem'
  <2>1. items' = {}
    BY <1>2 DEF DequeueWait
  <2>2. Cardinality(items') = 0
    BY <2>1, FS_EmptySet
  <2>3. Woken' \subseteq Workers
    BY DEF Woken
  <2>4. Cardinality(Woken') \in Nat
    BY <2>3, WorkersAssumption, FS_Subset, FS_CardinalityType
  <2>5. QED
    BY <2>2, <2>4 DEF NoStrandedItem
<1>3. ASSUME NEW w \in Workers, NEW r \in Requests, DequeueTake(w, r) PROVE NoStrandedItem'
  <2>1. r \in items /\ items' = items \ {r}
    BY <1>3 DEF DequeueTake, HeapMin
  <2>2. Cardinality(items') = Cardinality(items) - 1 /\ Cardinality(items) \in Nat
    BY <2>1, FS_RemoveElement, FS_CardinalityType DEF QueueInv, QueueTypeOK
  <2>3. Waiting' = Waiting /\ Woken' = Woken \ {w}
    BY <1>3 DEF DequeueTake, Waiting, Woken, QueueInv, QueueTypeOK
  <2>4. Cardinality(Woken') \in Nat /\ Cardinality(Woken) \in Nat
    <3>1. IsFiniteSet(Woken \ {w})
      BY WokenFinite, FS_RemoveElement
    <3>2. QED
      BY <2>3, <3>1, WokenFinite, FS_CardinalityType
  <2>5. Cardinality(Woken') >= Cardinality(Woken) - 1
    <3>1. CASE w \in Woken
      <4>1. Cardinality(Woken \ {w}) = Cardinality(Woken) - 1
        BY <3>1, WokenFinite, FS_RemoveElement
      <4>2. QED
        BY <2>3, <2>4, <4>1
    <3>2. CASE w \notin Woken
      <4>1. Woken' = Woken
        BY <2>3, <3>2
      <4>2. QED
        BY <4>1, <2>4
    <3>3. QED
      BY <3>1, <3>2
  <2>6. Waiting # {} => Cardinality(items) <= Cardinality(Woken)
    BY DEF QueueInv, NoStrandedItem
  <2>7. QED
    BY <2>2, <2>3, <2>4, <2>5, <2>6 DEF NoStrandedItem
<1>4. ASSUME NEW w \in Workers, DequeueClosed(w) PROVE NoStrandedItem'
  <2>1. Waiting' = {}
    BY <1>4 DEF DequeueClosed, Waiting, QueueInv, QueueTypeOK, NoSleepAfterClose
  <2>2. QED
    BY <2>1 DEF NoStrandedItem
<1>5. ASSUME NEW w \in Workers, WorkerLoop(w) \/ WorkerQuit(w) PROVE NoStrandedItem'
  <2>1. Waiting' = Waiting /\ Woken' = Woken /\ items' = items
    BY <1>5 DEF WorkerLoop, WorkerQuit, Waiting, Woken, QueueInv, QueueTypeOK
  <2>2. QED
    BY <2>1 DEF NoStrandedItem, QueueInv
<1>6. ASSUME Close PROVE NoStrandedItem'
  <2>1. Waiting' = {}
    BY <1>6 DEF Close, Waiting
  <2>2. QED
    BY <2>1 DEF NoStrandedItem
<1>7. CASE items' \subseteq items /\ UNCHANGED dq
  BY <1>7, ShrinkingStrandsNothing
<1>8. ASSUME NEW r \in Requests, Stamp(r) \/ RemoveAndReturn(r)
      PROVE  items' \subseteq items /\ UNCHANGED dq
  BY <1>8 DEF Stamp, RemoveAndReturn
<1>9. ASSUME TryDequeue \/ UNCHANGED queueVars
      PROVE  items' \subseteq items /\ UNCHANGED dq
  BY <1>9 DEF TryDequeue, queueVars
<1>10. QED
  BY <1>1, <1>2, <1>3, <1>4, <1>5, <1>6, <1>7, <1>8, <1>9 DEF QueueNext, WorkerDequeue

(* A request keeps its one owner, and a closed queue has no sleepers. *)
LEMMA QueueStepOwner ==
    ASSUME QueueInv, [QueueNext]_queueVars
    PROVE  OneOwner' /\ NoSleepAfterClose'
<1> USE DEF QueueInv, QueueTypeOK, OneOwner, NoSleepAfterClose, Waiting
<1>1. ASSUME NEW r \in Requests, Stamp(r) PROVE OneOwner' /\ NoSleepAfterClose'
  BY <1>1 DEF Stamp
<1>2. ASSUME NEW r \in Requests, Enqueue(r) PROVE OneOwner' /\ NoSleepAfterClose'
  <2>1. \A w \in Workers : dq'[w] = "got" <=> dq[w] = "got"
    BY <1>2 DEF Enqueue, Signal
  <2>2. OneOwner'
    BY <1>2, <2>1 DEF Enqueue, SubmitStates
  <2>3. NoSleepAfterClose'
    BY <1>2 DEF Enqueue, Signal
  <2>4. QED
    BY <2>2, <2>3
<1>3. ASSUME NEW r \in Requests, RemoveAndReturn(r) PROVE OneOwner' /\ NoSleepAfterClose'
  BY <1>3 DEF RemoveAndReturn
<1>4. ASSUME NEW w \in Workers, DequeueWait(w) PROVE OneOwner' /\ NoSleepAfterClose'
  BY <1>4 DEF DequeueWait
<1>5. ASSUME NEW w \in Workers, NEW r \in Requests, DequeueTake(w, r)
      PROVE  OneOwner' /\ NoSleepAfterClose'
  BY <1>5 DEF DequeueTake, HeapMin
<1>6. ASSUME NEW w \in Workers, DequeueClosed(w) PROVE OneOwner' /\ NoSleepAfterClose'
  BY <1>6 DEF DequeueClosed
<1>7. ASSUME NEW w \in Workers, WorkerLoop(w) \/ WorkerQuit(w)
      PROVE  OneOwner' /\ NoSleepAfterClose'
  BY <1>7 DEF WorkerLoop, WorkerQuit
<1>8. ASSUME TryDequeue PROVE OneOwner' /\ NoSleepAfterClose'
  BY <1>8 DEF TryDequeue
<1>9. ASSUME Close PROVE OneOwner' /\ NoSleepAfterClose'
  BY <1>9 DEF Close
<1>10. CASE UNCHANGED queueVars
  BY <1>10 DEF queueVars
<1>11. QED
  BY <1>1, <1>2, <1>3, <1>4, <1>5, <1>6, <1>7, <1>8, <1>9, <1>10 DEF QueueNext, WorkerDequeue

(* The stamps stay in order: only Stamp writes one, and it reads a clock    *)
(* that has passed the stamps of all submitted requests.                    *)
LEMMA QueueStepStamps ==
    ASSUME QueueInv, [QueueNext]_queueVars
    PROVE  StampsInOrder'
<1> USE DEF QueueInv, QueueTypeOK
<1>1. ASSUME NEW r \in Requests, Stamp(r) PROVE StampsInOrder'
  <2>1. PICK t \in {now, now + 1} : now' = t /\ createdAt' = [createdAt EXCEPT ![r] = t]
    BY <1>1 DEF Stamp
  <2>2. /\ submit[r] = "new" /\ submit' = [submit EXCEPT ![r] = "stamped"]
        /\ ahead' = [ahead EXCEPT ![r] = {s \in Requests : submit[s] = "submitted"}]
    BY <1>1 DEF Stamp
  <2>3. t \in Nat /\ now <= t
    BY <2>1
  <2>4. \A q \in Requests : createdAt'[q] <= now' /\ (submit'[q] = "submitted" => createdAt'[q] < now')
    BY <2>1, <2>2, <2>3 DEF StampsInOrder
  <2>5. ASSUME NEW q \in Requests, NEW s \in ahead'[q]
        PROVE  submit'[s] = "submitted" /\ createdAt'[s] < createdAt'[q]
    <3>1. CASE q = r
      <4>1. s \in Requests /\ submit[s] = "submitted" /\ createdAt[s] < now
        BY <2>2, <2>5, <3>1 DEF StampsInOrder
      <4>2. s # r
        BY <2>2, <4>1
      <4>3. QED
        BY <2>1, <2>2, <2>3, <3>1, <4>1, <4>2
    <3>2. CASE q # r
      <4>1. s \in ahead[q] /\ s \in Requests /\ submit[s] = "submitted" /\ createdAt[s] < createdAt[q]
        BY <2>2, <2>5, <3>2 DEF StampsInOrder
      <4>2. s # r
        BY <2>2, <4>1
      <4>3. QED
        BY <2>1, <2>2, <3>2, <4>1, <4>2
    <3>3. QED
      BY <3>1, <3>2
  <2>6. QED
    BY <2>4, <2>5 DEF StampsInOrder
<1>2. ASSUME NEW r \in Requests, Enqueue(r) PROVE StampsInOrder'
  <2>1. /\ now' = now + 1 /\ submit' = [submit EXCEPT ![r] = "submitted"]
        /\ UNCHANGED <<createdAt, ahead>>
    BY <1>2 DEF Enqueue
  <2>2. QED
    BY <2>1 DEF StampsInOrder
<1>3. ASSUME UNCHANGED <<now, createdAt, submit, ahead>> PROVE StampsInOrder'
  BY <1>3 DEF StampsInOrder
<1>4. QED
  BY <1>1, <1>2, <1>3
  DEF QueueNext, WorkerDequeue, RemoveAndReturn, DequeueWait, DequeueTake, DequeueClosed,
      WorkerLoop, WorkerQuit, TryDequeue, Close, queueVars

(* Every reachable state of the queue satisfies QueueInv. *)
THEOREM QueueInvariant == QueueSpec => []QueueInv
<1>1. QueueInit => QueueInv
  BY QueueInitInv
<1>2. QueueInv /\ [QueueNext]_queueVars => QueueInv'
  BY QueueStepType, QueueStepStranded, QueueStepOwner, QueueStepStamps DEF QueueInv
<1>3. QED
  BY <1>1, <1>2, PTL DEF QueueSpec

(* While a worker sleeps every queued item has a woken worker on its way.   *)
THEOREM QueueNoStrandedItem == QueueSpec => []NoStrandedItem
<1>1. QueueInv => NoStrandedItem
  BY DEF QueueInv
<1>2. QED
  BY <1>1, QueueInvariant, PTL

(* What the heap's order means for the clients, one step: a worker that     *)
(* takes r leaves no request behind that has precedence over it.            *)
LEMMA TakeOvertakesNobody ==
    ASSUME QueueInv, NEW w \in Workers, NEW r \in Requests, DequeueTake(w, r),
           NEW s \in items \ {r}
    PROVE  /\ Priority[s] <= Priority[r]
           /\ Priority[s] = Priority[r] => s \notin ahead[r]
<1>1. s \in Requests /\ r \in Requests /\ Priority[s] \in Nat /\ Priority[r] \in Nat
  BY PriorityAssumption DEF QueueInv, QueueTypeOK
<1>2. ~(Priority[s] > Priority[r]) /\ ~(Priority[s] = Priority[r] /\ createdAt[s] < createdAt[r])
  BY DEF DequeueTake, HeapMin, Less
<1>3. s \in ahead[r] => createdAt[s] < createdAt[r]
  BY DEF QueueInv, StampsInOrder
<1>4. QED
  BY <1>1, <1>2, <1>3

(* A worker never gets a request while one of higher priority, or one of    *)
(* the same priority submitted before it was stamped, is in the queue.      *)
THEOREM QueueNoOvertaking == QueueSpec => NoOvertaking
<1>1. QueueInv /\ [QueueNext]_queueVars =>
          [\A w \in Workers, r \in Requests :
              DequeueTake(w, r) =>
                  \A s \in items \ {r} :
                      /\ Priority[s] <= Priority[r]
                      /\ Priority[s] = Priority[r] => s \notin ahead[r]]_queueVars
  BY TakeOvertakesNobody
<1>2. QED
  BY <1>1, QueueInvariant, PTL DEF QueueSpec, NoOvertaking

-----------------------------------------------------------------------------
(* The executor. *)

(* Every step of the executor is a step of the project lock or leaves it    *)
(* unchanged.                                                               *)
LEMMA StepsLocker == ASSUME [Next]_vars PROVE [LockerNext]_lockerVars
<1> USE RequestsAssumption, TargetsAssumption
<1> USE DEF LockerNext, LockerStep
<1>1. ASSUME NEW r \in Requests, Submit(r) PROVE UNCHANGED lockerVars
  BY <1>1 DEF Submit
<1>2. ASSUME NEW o \in Ops, OpStep(o) PROVE [LockerNext]_lockerVars
  BY <1>2 DEF OpStep, ExecuteRefused, ExecuteEnters, RunAcquires, RunWaits, RunGivesUp,
              Register, Resolve, ExecuteOp, Audit, RecordResult, Unregister, Unlock,
              ExecuteReturns
<1>3. ASSUME NEW o \in Ops, CtxExpires(o) PROVE LockerNext
  BY <1>3 DEF CtxExpires
<1>4. ASSUME NEW w \in Workers, WorkerStep(w) PROVE [LockerNext]_lockerVars
  BY <1>4 DEF WorkerStep, WorkerSleeps, WorkerTakes, WorkerDrops, WorkerEnters, QueuedReturns
<1>5. ASSUME NEW o \in CancelTargets, CancelStep(o) PROVE [LockerNext]_lockerVars
  BY <1>5 DEF CancelStep, CancelLooks, CancelSignals, CancelRemoves, CancelRecords, CancelMisses
<1>6. ASSUME NEW o \in PollTargets, PollStep(o) PROVE UNCHANGED lockerVars
  BY <1>6 DEF PollStep, PollLooksInRunning, PollLooksInHistory
<1>7. ASSUME Shutdown PROVE LockerNext
  BY <1>7 DEF Shutdown
<1>8. ASSUME Quiescent \/ UNCHANGED vars PROVE UNCHANGED lockerVars
  BY <1>8 DEF Quiescent, vars
<1>9. QED
  BY <1>1, <1>2, <1>3, <1>4, <1>5, <1>6, <1>7, <1>8 DEF Next

(* Every step of the executor is a step of the queue or leaves it           *)
(* unchanged.                                                               *)
LEMMA StepsQueue == ASSUME QueueInv, [Next]_vars PROVE [QueueNext]_queueVars
<1> USE RequestsAssumption
<1> USE DEF QueueNext, WorkerDequeue
<1>1. ASSUME NEW r \in Requests, Submit(r) PROVE QueueNext
  BY <1>1 DEF Submit
<1>2. ASSUME NEW o \in Ops, OpStep(o) PROVE UNCHANGED queueVars
  BY <1>2 DEF OpStep, ExecuteRefused, ExecuteEnters, RunAcquires, RunWaits, RunGivesUp,
              Register, Resolve, ExecuteOp, Audit, RecordResult, Unregister, Unlock,
              ExecuteReturns
<1>3. ASSUME NEW o \in Ops, CtxExpires(o) PROVE UNCHANGED queueVars
  BY <1>3 DEF CtxExpires
<1>4. ASSUME NEW w \in Workers, WorkerStep(w) PROVE [QueueNext]_queueVars
  BY <1>4 DEF WorkerStep, WorkerSleeps, WorkerTakes, WorkerDrops, WorkerEnters, QueuedReturns
<1>5. ASSUME NEW o \in CancelTargets, CancelStep(o) PROVE [QueueNext]_queueVars
  <2>1. ASSUME CancelRemoves(o) PROVE QueueNext
    <3>1. o \in Requests /\ RemoveAndReturn(o)
      BY <2>1 DEF CancelRemoves, RemoveAndReturn, QueueInv, QueueTypeOK
    <3>2. QED
      BY <3>1
  <2>2. QED
    BY <1>5, <2>1 DEF CancelStep, CancelLooks, CancelSignals, CancelRecords, CancelMisses
<1>6. ASSUME NEW o \in PollTargets, PollStep(o) PROVE UNCHANGED queueVars
  BY <1>6 DEF PollStep, PollLooksInRunning, PollLooksInHistory
<1>7. ASSUME Shutdown PROVE UNCHANGED queueVars
  BY <1>7 DEF Shutdown
<1>8. ASSUME Quiescent \/ UNCHANGED vars PROVE UNCHANGED queueVars
  BY <1>8 DEF Quiescent, vars
<1>9. QED
  BY <1>1, <1>2, <1>3, <1>4, <1>5, <1>6, <1>7, <1>8 DEF Next

(* Adding a record keeps the history a bounded sequence of records. *)
LEMMA AddHistoryType ==
    ASSUME ExecutorTypeOK, NEW o \in Ops, NEW status \in Results \union Errors,
           AddHistory(o, status)
    PROVE  history' \in Seq(Records) /\ Len(history') <= MaxHistory
<1> DEFINE rec == [op |-> o, status |-> status]
           kept == IF Len(history) >= MaxHistory THEN Tail(history) ELSE history
<1>1. rec \in Records
  BY DEF Records
<1>2. history \in Seq(Records) /\ Len(history) \in Nat /\ Len(history) <= MaxHistory
  BY DEF ExecutorTypeOK
<1>3. kept \in Seq(Records) /\ Len(kept) < MaxHistory
  <2>1. CASE Len(history) >= MaxHistory
    <3>1. history # <<>>
      BY <1>2, <2>1, MaxHistoryAssumption
    <3>2. Tail(history) \in Seq(Records) /\ Len(Tail(history)) = Len(history) - 1
      BY <1>2, <3>1
    <3>3. QED
      BY <1>2, <2>1, <3>2, MaxHistoryAssumption
  <2>2. CASE ~(Len(history) >= MaxHistory)
    BY <1>2, <2>2, MaxHistoryAssumption
  <2>3. QED
    BY <2>1, <2>2
<1>4. history' = Append(kept, rec)
  BY DEF AddHistory
<1> HIDE DEF rec, kept
<1>5. Append(kept, rec) \in Seq(Records) /\ Len(Append(kept, rec)) = Len(kept) + 1
  BY <1>1, <1>3
<1>6. QED
  BY <1>3, <1>4, <1>5, MaxHistoryAssumption

(* What a history holds after AddHistory: the new record and nothing but    *)
(* old ones beside it; all old ones as long as it was not full.             *)
LEMMA AddHistoryRecords ==
    ASSUME ExecutorTypeOK, NEW o \in Ops, NEW status \in Results \union Errors,
           AddHistory(o, status)
    PROVE  /\ \A i \in DOMAIN history' :
                 \/ history'[i] = [op |-> o, status |-> status]
                 \/ \E j \in DOMAIN history : history'[i] = history[j]
           /\ \E i \in DOMAIN history' : history'[i].op = o
           /\ Len(history') < MaxHistory =>
                 /\ Len(history) < MaxHistory
                 /\ \A j \in DOMAIN history :
                       j \in DOMAIN history' /\ history'[j] = history[j]
<1> DEFINE rec == [op |-> o, status |-> status]
           kept == IF Len(history) >= MaxHistory THEN Tail(history) ELSE history
<1>1. history \in Seq(Records) /\ Len(history) \in Nat /\ Len(history) <= MaxHistory
  BY DEF ExecutorTypeOK
<1>2. history' = Append(kept, rec) /\ rec.op = o /\ rec \in Records
  BY DEF AddHistory, Records
<1>3. CASE Len(history) >= MaxHistory
  <2>1. history # <<>> /\ kept = Tail(history)
    BY <1>1, <1>3, MaxHistoryAssumption
  <2>2. /\ Tail(history) \in Seq(Records) /\ Len(Tail(history)) = Len(history) - 1
        /\ \A i \in 1..Len(Tail(history)) : Tail(history)[i] = history[i + 1]
    BY <1>1, <2>1
  <2> HIDE DEF rec, kept
  <2>3. /\ Len(history') = Len(history) /\ DOMAIN history' = 1..Len(history)
        /\ DOMAIN history = 1..Len(history)
    BY <1>1, <1>2, <2>1, <2>2
  <2>4. \A i \in 1..(Len(history) - 1) : history'[i] = history[i + 1]
    BY <1>1, <1>2, <2>1, <2>2
  <2>5. history'[Len(history)] = rec
    BY <1>1, <1>2, <2>1, <2>2
  <2>6. Len(history) \in 1..Len(history)
    BY <1>1, <1>3, MaxHistoryAssumption
  <2>7. \A i \in DOMAIN history' : i = Len(history) \/ (i + 1 \in DOMAIN history /\ i \in 1..(Len(history) - 1))
    BY <1>1, <2>3
  <2>8. \A i \in DOMAIN history' : history'[i] = rec \/ \E j \in DOMAIN history : history'[i] = history[j]
    BY <2>4, <2>5, <2>7
  <2>9. \E i \in DOMAIN history' : history'[i].op = o
    BY <1>2, <2>3, <2>5, <2>6
  <2>10. ~(Len(history') < MaxHistory)
    BY <1>1, <1>3, <2>3, MaxHistoryAssumption
  <2>11. QED
    BY <2>8, <2>9, <2>10 DEF rec
<1>4. CASE ~(Len(history) >= MaxHistory)
  <2>1. kept = history /\ Len(history) < MaxHistory
    BY <1>1, <1>4, MaxHistoryAssumption
  <2> HIDE DEF rec, kept
  <2>2. /\ DOMAIN history' = 1..(Len(history) + 1) /\ DOMAIN history = 1..Len(history)
        /\ history'[Len(history) + 1] = rec
        /\ \A i \in 1..Len(history) : history'[i] = history[i]
    BY <1>1, <1>2, <2>1
  <2>3. \A i \in DOMAIN history' : i = Len(history) + 1 \/ i \in DOMAIN history
    BY <1>1, <2>2
  <2>4. \A i \in DOMAIN history' : history'[i] = rec \/ \E j \in DOMAIN history : history'[i] = history[j]
    BY <2>2, <2>3
  <2>5. Len(history) + 1 \in DOMAIN history'
    BY <1>1, <2>2
  <2>6. \A j \in DOMAIN history : j \in DOMAIN history' /\ history'[j] = history[j]
    BY <1>1, <2>2
  <2>7. QED
    BY <1>2, <2>1, <2>2, <2>4, <2>5, <2>6 DEF rec
<1>5. QED
  BY <1>3, <1>4

(* The executor's own part of ExecutorInv. *)
PhaseInv ==
    /\ LockMatchesPhase
    /\ RunningIsRegistered
    /\ OutcomeMatchesPhase
    /\ QueuedIsNew
    /\ RemovedIsOut

(* The executor starts in a state that satisfies the invariant. *)
LEMMA ExecutorInitInv == Init => ExecutorInv
<1>1. SUFFICES ASSUME Init PROVE ExecutorInv
  OBVIOUS
<1>2. LockerInv /\ QueueInv
  BY <1>1, LockerInitInv, QueueInitInv DEF Init
<1>3. history \in Seq(Records) /\ Len(history) <= MaxHistory
  BY <1>1, MaxHistoryAssumption DEF Init
<1>4. ExecutorTypeOK
  BY <1>1, <1>3 DEF Init, ExecutorTypeOK, Phases, CancelStates, PollStates
<1>5. PhaseInv
  BY <1>1, RequestsAssumption
  DEF Init, LockerInit, QueueInit, PhaseInv, LockMatchesPhase, RunningIsRegistered,
      OutcomeMatchesPhase, QueuedIsNew, RemovedIsOut, Holding, Registered, Ending
<1>6. ReportInv
  BY <1>1 DEF Init, ReportInv, HistoryIsTrue, HistoryIsComplete, PollIsLate, PollFindsResult,
              Reported, Ending
<1>7. QED
  BY <1>2, <1>4, <1>5, <1>6 DEF ExecutorInv, PhaseInv

(* Every step preserves the executor's own part: one step per action. *)
LEMMA ExecutorStepInv ==
    ASSUME ExecutorInv, [Next]_vars
    PROVE  ExecutorTypeOK' /\ PhaseInv'
<1> USE RequestsAssumption, TargetsAssumption
<1> DEFINE HistoryOK == history \in Seq(Records) /\ Len(history) <= MaxHistory
<1>0. HistoryOK
  BY DEF ExecutorInv, ExecutorTypeOK
<1> USE DEF ExecutorInv, QueueInv, QueueTypeOK, ExecutorTypeOK, PhaseInv, LockMatchesPhase,
            RunningIsRegistered, OutcomeMatchesPhase, QueuedIsNew, RemovedIsOut, Executed,
            LockerInv, LockerTypeOK, Phases, InRun, Holding, Registered, Ending, Results,
            Errors, CancelStates, PollStates
<1>1. ASSUME NEW r \in Requests, Submit(r) PROVE ExecutorTypeOK' /\ PhaseInv'
  <2>1. ExecutorTypeOK'
    BY <1>0, <1>1 DEF Submit, Stamp, Enqueue, lockerVars, execVars
  <2>2. LockMatchesPhase' /\ RunningIsRegistered'
    BY <1>1 DEF Submit, Stamp, Enqueue, lockerVars, execVars
  <2>3. OutcomeMatchesPhase'
    BY <1>1 DEF Submit, Stamp, Enqueue, lockerVars, execVars
  <2>4. QueuedIsNew' /\ RemovedIsOut'
    BY <1>1 DEF Submit, Stamp, Enqueue, lockerVars, execVars
  <2>5. QED
    BY <2>1, <2>2, <2>3, <2>4
<1>2. ASSUME NEW o \in Ops, ExecuteRefused(o) PROVE ExecutorTypeOK' /\ PhaseInv'
  BY <1>0, <1>2 DEF ExecuteRefused, Goto, lockerVars, queueVars
<1>3. ASSUME NEW o \in Ops, ExecuteEnters(o) PROVE ExecutorTypeOK' /\ PhaseInv'
  BY <1>0, <1>3 DEF ExecuteEnters, Goto, AcquireCall, queueVars
<1>4. ASSUME NEW o \in Ops, RunAcquires(o) PROVE ExecutorTypeOK' /\ PhaseInv'
  BY <1>0, <1>4 DEF RunAcquires, Goto, AcquireFree, queueVars
<1>5. ASSUME NEW o \in Ops, RunWaits(o) PROVE ExecutorTypeOK' /\ PhaseInv'
  BY <1>0, <1>5 DEF RunWaits, AcquireBlock, AcquireWake, queueVars, execVars
<1>6. ASSUME NEW o \in Ops, RunGivesUp(o) PROVE ExecutorTypeOK' /\ PhaseInv'
  <2>1. ExecutorTypeOK'
    BY <1>0, <1>6 DEF RunGivesUp, Goto, AcquireFail, queueVars
  <2>2. LockMatchesPhase' /\ RunningIsRegistered'
    BY <1>6 DEF RunGivesUp, Goto, AcquireFail, queueVars
  <2>3. OutcomeMatchesPhase'
    BY <1>6 DEF RunGivesUp, Goto, AcquireFail, queueVars
  <2>4. QueuedIsNew' /\ RemovedIsOut'
    BY <1>6 DEF RunGivesUp, Goto, AcquireFail, queueVars
  <2>5. QED
    BY <2>1, <2>2, <2>3, <2>4
<1>7. ASSUME NEW o \in Ops, Register(o) PROVE ExecutorTypeOK' /\ PhaseInv'
  BY <1>0, <1>7 DEF Register, Goto, lockerVars, queueVars
<1>8. ASSUME NEW o \in Ops, Resolve(o) PROVE ExecutorTypeOK' /\ PhaseInv'
  <2>1. CASE Goto(o, "registered", "executing") /\ UNCHANGED outcome
    BY <1>0, <1>8, <2>1 DEF Resolve, Goto, lockerVars, queueVars
  <2>2. CASE /\ Goto(o, "registered", "unwinding")
             /\ outcome' = [outcome EXCEPT ![o] = "noproject"]
    BY <1>0, <1>8, <2>2 DEF Resolve, Goto, lockerVars, queueVars
  <2>3. QED
    BY <1>8, <2>1, <2>2 DEF Resolve
<1>9. ASSUME NEW o \in Ops, ExecuteOp(o) PROVE ExecutorTypeOK' /\ PhaseInv'
  <2>1. ExecutorTypeOK'
    BY <1>0, <1>9 DEF ExecuteOp, Goto, lockerVars, queueVars
  <2>2. LockMatchesPhase' /\ RunningIsRegistered'
    BY <1>9 DEF ExecuteOp, Goto, lockerVars, queueVars
  <2>3. OutcomeMatchesPhase'
    BY <1>9 DEF ExecuteOp, Goto, lockerVars, queueVars
  <2>4. QueuedIsNew' /\ RemovedIsOut'
    BY <1>9 DEF ExecuteOp, Goto, lockerVars, queueVars
  <2>5. QED
    BY <2>1, <2>2, <2>3, <2>4
<1>10. ASSUME NEW o \in Ops, Audit(o) PROVE ExecutorTypeOK' /\ PhaseInv'
  BY <1>0, <1>10 DEF Audit, Goto, lockerVars, queueVars
<1>11. ASSUME NEW o \in Ops, RecordResult(o) PROVE ExecutorTypeOK' /\ PhaseInv'
  <2>1. outcome[o] \in Results \union Errors /\ AddHistory(o, outcome[o])
    BY <1>11 DEF RecordResult, Goto
  <2>2. HistoryOK'
    BY <2>1, AddHistoryType
  <2>3. QED
    BY <1>11, <2>2 DEF RecordResult, Goto, lockerVars, queueVars
<1>12. ASSUME NEW o \in Ops, Unregister(o) PROVE ExecutorTypeOK' /\ PhaseInv'
  BY <1>0, <1>12 DEF Unregister, Goto, lockerVars, queueVars
<1>13. ASSUME NEW o \in Ops, Unlock(o) PROVE ExecutorTypeOK' /\ PhaseInv'
  <2>1. ExecutorTypeOK'
    BY <1>0, <1>13 DEF Unlock, Goto, Release, queueVars
  <2>2. LockMatchesPhase' /\ RunningIsRegistered'
    BY <1>13 DEF Unlock, Goto, Release, queueVars
  <2>3. OutcomeMatchesPhase'
    BY <1>13 DEF Unlock, Goto, Release, queueVars
  <2>4. QueuedIsNew' /\ RemovedIsOut'
    BY <1>13 DEF Unlock, Goto, Release, queueVars
  <2>5. QED
    BY <2>1, <2>2, <2>3, <2>4
<1>14. ASSUME NEW o \in Ops, ExecuteReturns(o) PROVE ExecutorTypeOK' /\ PhaseInv'
  <2>1. ExecutorTypeOK'
    BY <1>0, <1>14 DEF ExecuteReturns, Goto, CtxEnd, queueVars
  <2>2. LockMatchesPhase' /\ RunningIsRegistered'
    <3>1. /\ acq' = acq /\ running' = running /\ phase[o] = "leaving"
          /\ phase' = [phase EXCEPT ![o] = "done"]
      BY <1>14 DEF ExecuteReturns, Goto, CtxEnd, queueVars
    <3>2. LockMatchesPhase'
      BY <3>1
    <3>3. RunningIsRegistered'
      BY <3>1
    <3>4. QED
      BY <3>2, <3>3
  <2>3. OutcomeMatchesPhase'
    BY <1>14 DEF ExecuteReturns, Goto, CtxEnd, queueVars
  <2>4. QueuedIsNew' /\ RemovedIsOut'
    BY <1>14 DEF ExecuteReturns, Goto, CtxEnd, queueVars
  <2>5. QED
    BY <2>1, <2>2, <2>3, <2>4
<1>15. ASSUME NEW o \in Ops, CtxExpires(o) PROVE ExecutorTypeOK' /\ PhaseInv'
  BY <1>0, <1>15 DEF CtxExpires, CtxEnd, queueVars, execVars
<1>16. ASSUME NEW w \in Workers, WorkerSleeps(w) PROVE ExecutorTypeOK' /\ PhaseInv'
  BY <1>0, <1>16 DEF WorkerSleeps, DequeueWait, lockerVars, execVars
<1>17. ASSUME NEW w \in Workers, NEW r \in Requests, WorkerTakes(w, r) PROVE ExecutorTypeOK' /\ PhaseInv'
  BY <1>0, <1>17 DEF WorkerTakes, Goto, DequeueTake, HeapMin, OneOwner, lockerVars
<1>18. ASSUME NEW w \in Workers, NEW r \in Requests, WorkerDrops(w, r) PROVE ExecutorTypeOK' /\ PhaseInv'
  BY <1>0, <1>18 DEF WorkerDrops, Goto, WorkerQuit, lockerVars
<1>19. ASSUME NEW w \in Workers, NEW r \in Requests, WorkerEnters(w, r) PROVE ExecutorTypeOK' /\ PhaseInv'
  BY <1>0, <1>19 DEF WorkerEnters, Goto, AcquireCall, queueVars
<1>20. ASSUME NEW w \in Workers, NEW r \in Requests, QueuedReturns(w, r) PROVE ExecutorTypeOK' /\ PhaseInv'
  <2>1. outcome[r] \in Results \union Errors /\ AddHistory(r, outcome[r])
    BY <1>20 DEF QueuedReturns, Goto
  <2>2. HistoryOK'
    BY <2>1, AddHistoryType
  <2>3. ExecutorTypeOK'
    BY <2>2, <1>20 DEF QueuedReturns, Goto, CtxEnd, WorkerLoop
  <2>4. LockMatchesPhase' /\ RunningIsRegistered'
    <3>1. /\ acq' = acq /\ running' = running /\ phase[r] = "leaving"
          /\ phase' = [phase EXCEPT ![r] = "done"]
      BY <1>20 DEF QueuedReturns, Goto, CtxEnd, WorkerLoop
    <3>2. LockMatchesPhase'
      BY <3>1
    <3>3. RunningIsRegistered'
      BY <3>1
    <3>4. QED
      BY <3>2, <3>3
  <2>5. OutcomeMatchesPhase'
    BY <1>20 DEF QueuedReturns, Goto, CtxEnd, WorkerLoop
  <2>6. QueuedIsNew' /\ RemovedIsOut'
    BY <1>20 DEF QueuedReturns, Goto, CtxEnd, WorkerLoop
  <2>7. QED
    BY <2>3, <2>4, <2>5, <2>6
<1>21. ASSUME NEW o \in Ops, CancelLooks(o) PROVE ExecutorTypeOK' /\ PhaseInv'
  BY <1>0, <1>21 DEF CancelLooks, lockerVars, queueVars
<1>22. ASSUME NEW o \in Ops, CancelSignals(o) PROVE ExecutorTypeOK' /\ PhaseInv'
  BY <1>0, <1>22 DEF CancelSignals, CtxEnd, queueVars
<1>23. ASSUME NEW o \in Ops, CancelRemoves(o) PROVE ExecutorTypeOK' /\ PhaseInv'
  BY <1>0, <1>23 DEF CancelRemoves, RemoveAndReturn, OneOwner, lockerVars
<1>24. ASSUME NEW o \in Ops, CancelRecords(o) PROVE ExecutorTypeOK' /\ PhaseInv'
  <2>1. "cancelled" \in Results \union Errors /\ AddHistory(o, "cancelled")
    BY <1>24 DEF CancelRecords, Goto
  <2>2. HistoryOK'
    BY <2>1, AddHistoryType
  <2>3. QED
    BY <1>24, <2>2 DEF CancelRecords, lockerVars, queueVars
<1>25. ASSUME NEW o \in Ops, CancelMisses(o) PROVE ExecutorTypeOK' /\ PhaseInv'
  BY <1>0, <1>25 DEF CancelMisses, lockerVars, queueVars
<1>26. ASSUME NEW o \in Ops, PollLooksInRunning(o) PROVE ExecutorTypeOK' /\ PhaseInv'
  BY <1>0, <1>26 DEF PollLooksInRunning, lockerVars, queueVars
<1>27. ASSUME NEW o \in Ops, PollLooksInHistory(o) PROVE ExecutorTypeOK' /\ PhaseInv'
  BY <1>0, <1>27 DEF PollLooksInHistory, lockerVars, queueVars
<1>28. ASSUME Shutdown PROVE ExecutorTypeOK' /\ PhaseInv'
  BY <1>0, <1>28 DEF Shutdown, CtxEnd, queueVars
<1>29. ASSUME UNCHANGED vars PROVE ExecutorTypeOK' /\ PhaseInv'
  BY <1>0, <1>29 DEF vars, lockerVars, queueVars, execVars
<1>30. ASSUME NEW o \in Ops, OpStep(o) PROVE ExecutorTypeOK' /\ PhaseInv'
  BY ONLY <1>30, <1>2, <1>3, <1>4, <1>5, <1>6, <1>7, <1>8, <1>9, <1>10, <1>11, <1>12, <1>13, <1>14 DEF OpStep
<1>31. ASSUME NEW w \in Workers, WorkerStep(w) PROVE ExecutorTypeOK' /\ PhaseInv'
  BY ONLY <1>31, <1>16, <1>17, <1>18, <1>19, <1>20 DEF WorkerStep
<1>32. ASSUME NEW o \in Ops, CancelStep(o) \/ PollStep(o) PROVE ExecutorTypeOK' /\ PhaseInv'
  BY ONLY <1>32, <1>21, <1>22, <1>23, <1>24, <1>25, <1>26, <1>27 DEF CancelStep, PollStep
<1>33. QED
  BY ONLY [Next]_vars, TargetsAssumption, <1>1, <1>15, <1>28, <1>29, <1>30, <1>31, <1>32 DEF Next, Quiescent

(* The records of the history name operations. *)
LEMMA HistoryOfOps ==
    ASSUME ExecutorTypeOK PROVE \A i \in DOMAIN history : history[i].op \in Ops
<1>1. \A i \in DOMAIN history : history[i] \in Records
  BY DEF ExecutorTypeOK
<1>2. QED
  BY <1>1 DEF Records

(* A step that records nothing and polls nothing: no operation is taken     *)
(* back from its last phases, and one that gets there has no result of      *)
(* executeOp to be found.                                                   *)
Silent ==
    /\ UNCHANGED <<history, poll, seen>>
    /\ \A o \in Ops :
          /\ cancel'[o] = "recorded" <=> cancel[o] = "recorded"
          /\ Reported(o) => Reported(o)' /\ outcome'[o] = outcome[o]
          /\ Reported(o)' /\ ~Reported(o) => outcome'[o] \notin Results

(* Such a step keeps what is recorded and found. *)
LEMMA SilentKeepsReports == ASSUME ExecutorInv, Silent PROVE ReportInv'
<1> USE DEF Reported
<1>0. /\ \A i \in DOMAIN history : history[i].op \in Ops
      /\ \A o \in seen : o \in Ops
  BY HistoryOfOps DEF ExecutorInv, ExecutorTypeOK
<1>1. HistoryIsTrue'
  BY <1>0 DEF Silent, ExecutorInv, ReportInv, HistoryIsTrue
<1>2. HistoryIsComplete'
  BY DEF Silent, ExecutorInv, ReportInv, HistoryIsComplete, InHistory
<1>3. PollIsLate'
  BY <1>0 DEF Silent, ExecutorInv, ReportInv, PollIsLate
<1>4. PollFindsResult'
  <2>1. SUFFICES ASSUME NEW o \in seen, poll[o] = "missed", Len(history) < MaxHistory
                 PROVE  outcome'[o] \notin Results /\ cancel'[o] # "recorded"
    BY DEF Silent, PollFindsResult
  <2>2. o \in Ops /\ outcome[o] \notin Results /\ cancel[o] # "recorded"
    BY <1>0, <2>1 DEF ExecutorInv, ReportInv, PollFindsResult
  <2>3. Reported(o)
    BY <2>1, <2>2 DEF ExecutorInv, ReportInv, PollIsLate
  <2>4. QED
    BY <2>2, <2>3 DEF Silent
<1>5. QED
  BY <1>1, <1>2, <1>3, <1>4 DEF ReportInv

(* A step that records o: with the status it ends with, or as cancelled     *)
(* when it was taken out of the queue.                                      *)
LEMMA RecordKeepsReports ==
    ASSUME ExecutorInv, NEW o \in Ops, NEW status \in Results \union Errors,
           AddHistory(o, status), UNCHANGED <<outcome, poll, seen>>,
           \/ cancel'[o] = "recorded" /\ status = "cancelled" /\ ~Reported(o)
           \/ cancel'[o] = cancel[o] /\ status = outcome[o] /\ Reported(o)',
           \A q \in Ops \ {o} : cancel'[q] = cancel[q] /\ phase'[q] = phase[q]
    PROVE  ReportInv'
<1> USE DEF Reported
<1>0. /\ \A i \in DOMAIN history : history[i].op \in Ops
      /\ \A q \in seen : q \in Ops
  BY HistoryOfOps DEF ExecutorInv, ExecutorTypeOK
<1>1. /\ \A i \in DOMAIN history' :
            \/ history'[i] = [op |-> o, status |-> status]
            \/ \E j \in DOMAIN history : history'[i] = history[j]
      /\ \E i \in DOMAIN history' : history'[i].op = o
      /\ Len(history') < MaxHistory =>
            /\ Len(history) < MaxHistory
            /\ \A j \in DOMAIN history :
                  j \in DOMAIN history' /\ history'[j] = history[j]
  BY AddHistoryRecords DEF ExecutorInv
<1>2. /\ cancel[o] = "recorded" => cancel'[o] = "recorded"
      /\ Reported(o) => Reported(o)'
  OBVIOUS
<1>3. HistoryIsTrue'
  <2>1. SUFFICES ASSUME NEW i \in DOMAIN history'
                 PROVE  \/ cancel'[history'[i].op] = "recorded" /\ history'[i].status = "cancelled"
                        \/ phase'[history'[i].op] \in Ending /\ history'[i].status = outcome'[history'[i].op]
    BY DEF HistoryIsTrue
  <2>2. CASE history'[i] = [op |-> o, status |-> status]
    BY <2>2
  <2>3. ASSUME NEW j \in DOMAIN history, history'[i] = history[j]
        PROVE  \/ cancel'[history'[i].op] = "recorded" /\ history'[i].status = "cancelled"
               \/ phase'[history'[i].op] \in Ending /\ history'[i].status = outcome'[history'[i].op]
    <3>1. history[j].op \in Ops
      BY <1>0
    <3>2. \/ cancel[history[j].op] = "recorded" /\ history[j].status = "cancelled"
          \/ Reported(history[j].op) /\ history[j].status = outcome[history[j].op]
      BY DEF ExecutorInv, ReportInv, HistoryIsTrue
    <3>3. CASE history[j].op = o
      BY <1>2, <2>3, <3>2, <3>3
    <3>4. CASE history[j].op # o
      BY <2>3, <3>1, <3>2, <3>4
    <3>5. QED
      BY <3>3, <3>4
  <2>4. QED
    BY <1>1, <2>2, <2>3
<1>4. HistoryIsComplete'
  <2>1. SUFFICES ASSUME Len(history') < MaxHistory, NEW q \in Ops,
                        cancel'[q] = "recorded" \/ (Reported(q)' /\ outcome'[q] \in Results)
                 PROVE  \E i \in DOMAIN history' : history'[i].op = q
    BY DEF HistoryIsComplete, InHistory
  <2>2. CASE q = o
    BY <1>1, <2>2
  <2>3. CASE q # o
    <3>1. cancel[q] = "recorded" \/ (Reported(q) /\ outcome[q] \in Results)
      BY <2>1, <2>3
    <3>2. PICK j \in DOMAIN history : history[j].op = q
      BY <1>1, <2>1, <3>1 DEF ExecutorInv, ReportInv, HistoryIsComplete, InHistory
    <3>3. QED
      BY <1>1, <2>1, <3>2
  <2>4. QED
    BY <2>2, <2>3
<1>5. PollIsLate'
  <2>1. SUFFICES ASSUME NEW q \in seen
                 PROVE  /\ poll[q] # "none"
                        /\ poll[q] \in {"checked", "missed"} => cancel'[q] = "recorded" \/ Reported(q)'
    BY DEF PollIsLate
  <2>2. /\ q \in Ops /\ poll[q] # "none"
        /\ poll[q] \in {"checked", "missed"} => cancel[q] = "recorded" \/ Reported(q)
    BY <1>0, <2>1 DEF ExecutorInv, ReportInv, PollIsLate
  <2>3. QED
    BY <1>2, <2>2
<1>6. PollFindsResult'
  <2>1. SUFFICES ASSUME NEW q \in seen, poll[q] = "missed", Len(history') < MaxHistory
                 PROVE  outcome'[q] \notin Results /\ cancel'[q] # "recorded"
    BY DEF PollFindsResult
  <2>2. q \in Ops /\ outcome[q] \notin Results /\ cancel[q] # "recorded"
    BY <1>0, <1>1, <2>1 DEF ExecutorInv, ReportInv, PollFindsResult
  <2>3. CASE q = o
    <3>1. Reported(o)
      BY <2>1, <2>2, <2>3 DEF ExecutorInv, ReportInv, PollIsLate
    <3>2. QED
      BY <2>2, <2>3, <3>1
  <2>4. CASE q # o
    BY <2>2, <2>4
  <2>5. QED
    BY <2>3, <2>4
<1>7. QED
  BY <1>3, <1>4, <1>5, <1>6 DEF ReportInv

(* GetOperation's two looks keep what is recorded and found: the first one  *)
(* misses an operation that should be visible only in its last phases, and  *)
(* by then the record is there for the second.                              *)
LEMMA PollKeepsReports ==
    ASSUME ExecutorInv, NEW o \in Ops, PollStep(o) PROVE ReportInv'
<1> USE DEF Reported
<1>0. \A q \in seen : q \in Ops
  BY DEF ExecutorInv, ExecutorTypeOK
<1>1. UNCHANGED <<history, phase, outcome, cancel>>
  BY DEF PollStep, PollLooksInRunning, PollLooksInHistory
<1>2. HistoryIsTrue' /\ HistoryIsComplete'
  BY <1>1 DEF ExecutorInv, ReportInv, HistoryIsTrue, HistoryIsComplete, InHistory
<1>3. ASSUME PollLooksInRunning(o) PROVE PollIsLate' /\ PollFindsResult'
  <2>1. /\ poll' = [poll EXCEPT ![o] = IF o \in running THEN "found" ELSE "checked"]
        /\ poll[o] = "none"
        /\ seen' = IF Visible(o) THEN seen \union {o} ELSE seen
    BY <1>3 DEF PollLooksInRunning
  <2>2. poll \in [Ops -> PollStates]
    BY DEF ExecutorInv, ExecutorTypeOK
  <2>3. Visible(o) /\ o \notin running => cancel[o] = "recorded" \/ Reported(o)
    BY DEF Visible, WasRegistered, ExecutorInv, ExecutorTypeOK, RunningIsRegistered,
           OutcomeMatchesPhase, Phases, InRun, Holding, Registered, Ending, Results
  <2>4. \A q \in seen : poll'[q] = poll[q]
    BY <1>0, <2>1, <2>2 DEF ExecutorInv, ReportInv, PollIsLate
  <2>5. o \in seen' => poll'[o] # "none" /\ poll'[o] # "missed"
    BY <2>1, <2>2
  <2>6. PollIsLate'
    BY <1>0, <1>1, <2>1, <2>2, <2>3, <2>4 DEF ExecutorInv, ReportInv, PollIsLate
  <2>7. PollFindsResult'
    BY <1>0, <1>1, <2>1, <2>4, <2>5 DEF ExecutorInv, ReportInv, PollFindsResult
  <2>8. QED
    BY <2>6, <2>7
<1>4. ASSUME PollLooksInHistory(o) PROVE PollIsLate' /\ PollFindsResult'
  <2>1. /\ poll' = [poll EXCEPT ![o] = IF InHistory(o) THEN "found" ELSE "missed"]
        /\ poll[o] = "checked"
        /\ seen' = seen
    BY <1>4 DEF PollLooksInHistory
  <2>2. poll \in [Ops -> PollStates]
    BY DEF ExecutorInv, ExecutorTypeOK
  <2>3. PollIsLate'
    BY <1>0, <1>1, <2>1, <2>2 DEF ExecutorInv, ReportInv, PollIsLate
  <2>4. o \in seen /\ ~InHistory(o) /\ Len(history) < MaxHistory =>
            outcome[o] \notin Results /\ cancel[o] # "recorded"
    BY <2>1 DEF ExecutorInv, ReportInv, PollIsLate, HistoryIsComplete
  <2>5. PollFindsResult'
    BY <1>0, <1>1, <2>1, <2>2, <2>4 DEF ExecutorInv, ReportInv, PollFindsResult
  <2>6. QED
    BY <2>3, <2>5
<1>5. QED
  BY <1>2, <1>3, <1>4 DEF PollStep, ReportInv

(* Every step keeps what is recorded and found: RecordResult, QueuedReturns *)
(* and CancelRecords add a record, GetOperation looks for one, and the      *)
(* other actions are silent.                                                *)
LEMMA ExecutorStepReports ==
    ASSUME ExecutorInv, [Next]_vars PROVE ReportInv'
<1> USE RequestsAssumption, TargetsAssumption
<1>0. /\ phase \in [Ops -> Phases] /\ cancel \in [Ops -> CancelStates]
      /\ outcome \in [Ops -> Results \union Errors \union {"none"}]
  BY DEF ExecutorInv, ExecutorTypeOK
<1>1. ASSUME NEW r \in Requests, Submit(r) PROVE Silent
  BY <1>1 DEF Submit, Silent, Reported, execVars
<1>2. ASSUME NEW o \in Ops, ExecuteRefused(o) PROVE Silent
  BY <1>0, <1>2 DEF ExecuteRefused, Goto, Silent, Reported, Ending, Results
<1>3. ASSUME NEW o \in Ops, ExecuteEnters(o) PROVE Silent
  BY <1>0, <1>3 DEF ExecuteEnters, Goto, Silent, Reported, Ending
<1>4. ASSUME NEW o \in Ops, RunAcquires(o) PROVE Silent
  BY <1>0, <1>4 DEF RunAcquires, Goto, Silent, Reported, Ending
<1>5. ASSUME NEW o \in Ops, RunWaits(o) PROVE Silent
  BY <1>5 DEF RunWaits, Silent, Reported, execVars
<1>6. ASSUME NEW o \in Ops, RunGivesUp(o) PROVE Silent
  BY <1>0, <1>6 DEF RunGivesUp, Goto, Silent, Reported, Ending, Results
<1>7. ASSUME NEW o \in Ops, Register(o) PROVE Silent
  BY <1>0, <1>7 DEF Register, Goto, Silent, Reported, Ending
<1>8. ASSUME NEW o \in Ops, Resolve(o) PROVE Silent
  BY <1>0, <1>8 DEF Resolve, Goto, Silent, Reported, Ending, Results
<1>9. ASSUME NEW o \in Ops, ExecuteOp(o) PROVE Silent
  BY <1>0, <1>9 DEF ExecuteOp, Goto, Silent, Reported, Ending
<1>10. ASSUME NEW o \in Ops, Audit(o) PROVE Silent
  BY <1>0, <1>10 DEF Audit, Goto, Silent, Reported, Ending, Results
<1>11. ASSUME NEW o \in Ops, RecordResult(o) PROVE ReportInv'
  <2>1. /\ outcome[o] \in Results \union Errors /\ AddHistory(o, outcome[o])
        /\ UNCHANGED <<outcome, cancel, poll, seen>>
    BY <1>0, <1>11 DEF RecordResult, Goto, ExecutorInv, OutcomeMatchesPhase
  <2>2. Reported(o)' /\ \A q \in Ops \ {o} : cancel'[q] = cancel[q] /\ phase'[q] = phase[q]
    BY <1>0, <1>11 DEF RecordResult, Goto, Reported, Ending
  <2>3. QED
    BY <2>1, <2>2, RecordKeepsReports
<1>12. ASSUME NEW o \in Ops, Unregister(o) PROVE Silent
  BY <1>0, <1>12 DEF Unregister, Goto, Silent, Reported, Ending
<1>13. ASSUME NEW o \in Ops, Unlock(o) PROVE Silent
  BY <1>0, <1>13 DEF Unlock, Goto, Silent, Reported, Ending
<1>14. ASSUME NEW o \in Ops, ExecuteReturns(o) PROVE Silent
  BY <1>0, <1>14 DEF ExecuteReturns, Goto, Silent, Reported, Ending
<1>15. ASSUME NEW o \in Ops, CtxExpires(o) PROVE Silent
  BY <1>15 DEF CtxExpires, Silent, Reported, execVars
<1>16. ASSUME NEW w \in Workers, WorkerSleeps(w) PROVE Silent
  BY <1>16 DEF WorkerSleeps, Silent, Reported, execVars
<1>17. ASSUME NEW w \in Workers, NEW r \in Requests, WorkerTakes(w, r) PROVE Silent
  BY <1>0, <1>17 DEF WorkerTakes, Goto, Silent, Reported, Ending
<1>18. ASSUME NEW w \in Workers, NEW r \in Requests, WorkerDrops(w, r) PROVE Silent
  BY <1>0, <1>18 DEF WorkerDrops, Goto, Silent, Reported, Ending
<1>19. ASSUME NEW w \in Workers, NEW r \in Requests, WorkerEnters(w, r) PROVE Silent
  BY <1>0, <1>19 DEF WorkerEnters, Goto, Silent, Reported, Ending
<1>20. ASSUME NEW w \in Workers, NEW r \in Requests, QueuedReturns(w, r) PROVE ReportInv'
  <2>1. /\ outcome[r] \in Results \union Errors /\ AddHistory(r, outcome[r]) /\ r \in Ops
        /\ UNCHANGED <<outcome, cancel, poll, seen>>
    BY <1>0, <1>20 DEF QueuedReturns, Goto, ExecutorInv, OutcomeMatchesPhase, Ending
  <2>2. Reported(r)' /\ \A q \in Ops \ {r} : cancel'[q] = cancel[q] /\ phase'[q] = phase[q]
    BY <1>0, <1>20 DEF QueuedReturns, Goto, Reported, Ending
  <2>3. QED
    BY <2>1, <2>2, RecordKeepsReports
<1>21. ASSUME NEW o \in Ops, CancelLooks(o) PROVE Silent
  BY <1>0, <1>21 DEF CancelLooks, Silent, Reported
<1>22. ASSUME NEW o \in Ops, CancelSignals(o) PROVE Silent
  BY <1>0, <1>22 DEF CancelSignals, Silent, Reported
<1>23. ASSUME NEW o \in Ops, CancelRemoves(o) PROVE Silent
  BY <1>0, <1>23 DEF CancelRemoves, Silent, Reported
<1>24. ASSUME NEW o \in Ops, CancelRecords(o) PROVE ReportInv'
  <2>1. /\ "cancelled" \in Results \union Errors /\ AddHistory(o, "cancelled")
        /\ UNCHANGED <<outcome, phase, poll, seen>>
    BY <1>24 DEF CancelRecords, Results
  <2>2. /\ cancel'[o] = "recorded" /\ ~Reported(o)
        /\ \A q \in Ops \ {o} : cancel'[q] = cancel[q] /\ phase'[q] = phase[q]
    BY <1>0, <1>24 DEF CancelRecords, Reported, Ending, ExecutorInv, RemovedIsOut
  <2>3. QED
    BY <2>1, <2>2, RecordKeepsReports
<1>25. ASSUME NEW o \in Ops, CancelMisses(o) PROVE Silent
  BY <1>0, <1>25 DEF CancelMisses, Silent, Reported
<1>26. ASSUME NEW o \in Ops, PollStep(o) PROVE ReportInv'
  BY <1>26, PollKeepsReports
<1>27. ASSUME Shutdown PROVE Silent
  BY <1>27 DEF Shutdown, Silent, Reported
<1>28. ASSUME UNCHANGED vars PROVE Silent
  BY <1>28 DEF vars, execVars, Silent, Reported
<1>29. Silent => ReportInv'
  BY SilentKeepsReports
<1>30. ASSUME NEW o \in Ops, OpStep(o) PROVE ReportInv'
  BY ONLY <1>29, <1>30, <1>2, <1>3, <1>4, <1>5, <1>6, <1>7, <1>8, <1>9, <1>10, <1>11, <1>12, <1>13, <1>14 DEF OpStep
<1>31. ASSUME NEW w \in Workers, WorkerStep(w) PROVE ReportInv'
  BY ONLY <1>29, <1>31, <1>16, <1>17, <1>18, <1>19, <1>20 DEF WorkerStep
<1>32. ASSUME NEW o \in Ops, CancelStep(o) PROVE ReportInv'
  BY ONLY <1>29, <1>32, <1>21, <1>22, <1>23, <1>24, <1>25 DEF CancelStep
<1>33. QED
  BY ONLY [Next]_vars, TargetsAssumption, <1>29, <1>1, <1>15, <1>26, <1>27, <1>28, <1>30, <1>31, <1>32 DEF Next, Quiescent

(* Every reachable state of the orchestrator satisfies ExecutorInv: phases, *)
(* lock, registration, outcome, audit, queue and cancellation agree.        *)
THEOREM ExecutorInvariant == Spec => []ExecutorInv
<1>1. Init => ExecutorInv
  BY ExecutorInitInv
<1>2. ExecutorInv /\ [Next]_vars => ExecutorInv'
  <2>1. SUFFICES ASSUME ExecutorInv, [Next]_vars PROVE ExecutorInv'
    OBVIOUS
  <2>2. LockerInv'
    BY <2>1, StepsLocker, LockerStepInv DEF ExecutorInv
  <2>3. [QueueNext]_queueVars
    BY <2>1, StepsQueue DEF ExecutorInv
  <2>4. QueueInv'
    BY <2>1, <2>3, QueueStepType, QueueStepStranded, QueueStepOwner, QueueStepStamps
    DEF ExecutorInv, QueueInv
  <2>5. ExecutorTypeOK' /\ PhaseInv'
    BY <2>1, ExecutorStepInv
  <2>6. ReportInv'
    BY <2>1, ExecutorStepReports
  <2>7. QED
    BY <2>2, <2>4, <2>5, <2>6 DEF ExecutorInv, PhaseInv
<1>3. QED
  BY <1>1, <1>2, PTL DEF Spec

(* However handlers and workers race, Docker sees one operation per project *)
(* at a time.                                                               *)
THEOREM ExecutorOneOperationPerProject == Spec => []OneOperationPerProject
<1>1. ExecutorInv => OneOperationPerProject
  BY LockerInvExcludes DEF ExecutorInv, MutualExclusion, LockMatchesPhase, OneOperationPerProject
<1>2. QED
  BY <1>1, ExecutorInvariant, PTL

(* An operation that is listed as running, and that Cancel can reach,       *)
(* holds its project's lock.                                                *)
THEOREM ExecutorRunningHoldsLock == Spec => []RunningHoldsLock
<1>1. ExecutorInv => RunningHoldsLock
  BY DEF ExecutorInv, ExecutorTypeOK, LockMatchesPhase, RunningIsRegistered, LockerInv,
         EntryIsHolders, RunningHoldsLock, Holding
<1>2. QED
  BY <1>1, ExecutorInvariant, PTL

(* A request that Cancel took out of the queue never runs. *)
THEOREM ExecutorRemovedNeverRuns == Spec => []RemovedNeverRuns
<1>1. ExecutorInv => RemovedNeverRuns
  BY DEF ExecutorInv, RemovedIsOut, RunningIsRegistered, RemovedNeverRuns, Registered
<1>2. QED
  BY <1>1, ExecutorInvariant, PTL

(* When an operation's lock is free again it is audited exactly if          *)
(* executeOp was called for it.                                             *)
THEOREM ExecutorAuditIsExact == Spec => []AuditIsExact
<1>1. ExecutorInv => AuditIsExact
  BY DEF ExecutorInv, ExecutorTypeOK, OutcomeMatchesPhase, AuditIsExact, Executed, Phases,
         Ending, InRun, Holding, Registered, Results
<1>2. QED
  BY <1>1, ExecutorInvariant, PTL

(* The records of an operation never tell two stories: a record of a        *)
(* removed request says cancelled, any other says what run returned, and    *)
(* no operation gets both kinds.                                            *)
THEOREM ExecutorRecordsAgree == Spec => []RecordsAgree
<1>1. ExecutorInv => RecordsAgree
  <2>1. SUFFICES ASSUME ExecutorInv, NEW i \in DOMAIN history, NEW j \in DOMAIN history,
                        history[i].op = history[j].op
                 PROVE  history[i].status = history[j].status
    BY DEF RecordsAgree
  <2>2. history[i].op \in Ops
    BY <2>1, HistoryOfOps DEF ExecutorInv
  <2>3. cancel[history[i].op] = "recorded" => ~Reported(history[i].op)
    BY <2>1, <2>2 DEF ExecutorInv, RemovedIsOut, Reported, Ending
  <2>4. QED
    BY <2>1, <2>3 DEF ExecutorInv, ReportInv, HistoryIsTrue
<1>2. QED
  BY <1>1, ExecutorInvariant, PTL

(* GetOperation finds every operation with a result or removed by Cancel,   *)
(* whatever happens between its two looks, until the history is full.       *)
THEOREM ExecutorPollFindsResult == Spec => []PollFindsResult
<1>1. ExecutorInv => PollFindsResult
  BY DEF ExecutorInv, ReportInv
<1>2. QED
  BY <1>1, ExecutorInvariant, PTL

(* The order of the queue holds in the orchestrator: a worker never gets a  *)
(* request before one that has precedence over it.                          *)
THEOREM ExecutorNoOvertaking == Spec => NoOvertaking
<1>1. ExecutorInv /\ [Next]_vars =>
          [\A w \in Workers, r \in Requests :
              DequeueTake(w, r) =>
                  \A s \in items \ {r} :
                      /\ Priority[s] <= Priority[r]
                      /\ Priority[s] = Priority[r] => s \notin ahead[r]]_queueVars
  BY TakeOvertakesNobody DEF ExecutorInv
<1>2. QED
  BY <1>1, ExecutorInvariant, PTL DEF Spec, NoOvertaking

-----------------------------------------------------------------------------
(* The refinement of OpLifecycle. *)

(* The operations other than o are where they were. *)
OthersStay(o) ==
    \A q \in Ops \ {o} : /\ phase'[q] = phase[q]
                         /\ outcome'[q] = outcome[q]
                         /\ cancel'[q] = cancel[q]

(* The stage of an operation depends on its phase, outcome and Cancel call  *)
(* alone, so a step that changes these of o alone is a move of o.           *)
LEMMA StageMoves ==
    ASSUME NEW o \in Ops, OthersStay(o), NEW from, NEW to, Stage(o) = from, Stage(o)' = to
    PROVE  Lifecycle!Move(o, from, to)
<1>1. \A q \in Ops \ {o} : Stage(q)' = Stage(q)
  BY DEF OthersStay, Stage
<1>2. [q \in Ops |-> Stage(q)]' = [[q \in Ops |-> Stage(q)] EXCEPT ![o] = to]
  BY <1>1
<1>3. QED
  BY <1>2 DEF Lifecycle!Move

(* And it is a stuttering step if o stays in its stage. *)
LEMMA StageStutters ==
    ASSUME NEW o \in Ops, OthersStay(o), Stage(o)' = Stage(o)
    PROVE  UNCHANGED [q \in Ops |-> Stage(q)]
<1>1. \A q \in Ops \ {o} : Stage(q)' = Stage(q)
  BY DEF OthersStay, Stage
<1>2. QED
  BY <1>1

(* A step of the executor is a step of the lifecycle or leaves every stage  *)
(* as it is: one step per action that moves an operation, cancels it or     *)
(* gives it its outcome.                                                    *)
LEMMA ExecutorStepRefines ==
    ASSUME ExecutorInv, [Next]_vars
    PROVE  Lifecycle!Next \/ UNCHANGED [o \in Ops |-> Stage(o)]
<1> DEFINE Goal == Lifecycle!Next \/ UNCHANGED [o \in Ops |-> Stage(o)]
<1> USE RequestsAssumption, TargetsAssumption
<1>0. /\ phase \in [Ops -> Phases] /\ cancel \in [Ops -> CancelStates]
      /\ outcome \in [Ops -> Results \union Errors \union {"none"}]
      /\ \A o \in Ops : phase[o] # "new" => cancel[o] \notin {"removed", "recorded"}
      /\ OutcomeMatchesPhase
  BY DEF ExecutorInv, ExecutorTypeOK, RemovedIsOut
<1> USE DEF Holding, Registered, Results
<1>1. ASSUME NEW o \in Ops, NEW from, NEW to, Lifecycle!Move(o, from, to),
             <<from, to>> \in {<<"active", "executing">>, <<"executing", "executed">>,
                              <<"executed", "finished">>, <<"pending", "abandoned">>,
                              <<"active", "abandoned">>}
      PROVE  Goal
  BY <1>1 DEF Lifecycle!Next, Lifecycle!Step
<1>2. ASSUME NEW o \in Ops, ExecuteRefused(o) PROVE Goal
  <2>1. OthersStay(o) /\ Stage(o) = "pending" /\ Stage(o)' = "abandoned"
    BY <1>0, <1>2 DEF ExecuteRefused, Goto, OthersStay, Stage, ExecutorInv, RemovedIsOut
  <2>2. QED
    BY <1>1, <2>1, StageMoves
<1>3. ASSUME NEW o \in Ops, ExecuteEnters(o) PROVE Goal
  <2>1. OthersStay(o) /\ Stage(o)' = Stage(o)
    BY <1>0, <1>3 DEF ExecuteEnters, Goto, OthersStay, Stage
  <2>2. QED
    BY <2>1, StageStutters
<1>4. ASSUME NEW o \in Ops, RunAcquires(o) PROVE Goal
  <2>1. OthersStay(o) /\ Stage(o) = "pending" /\ Stage(o)' = "active"
    BY <1>0, <1>4 DEF RunAcquires, Goto, OthersStay, Stage, OutcomeMatchesPhase, Ending
  <2>2. Lifecycle!Move(o, "pending", "active")
    BY <2>1, StageMoves
  <2>3. ASSUME NEW q \in Ops, Proj[q] = Proj[o] PROVE Stage(q) \notin Lifecycle!Exclusive
    <3>1. locks[Proj[q]] = NoOp
      BY <1>4, <2>3 DEF RunAcquires, AcquireFree
    <3>2. phase[q] \notin Holding
      BY <3>1, NoOpAssumption DEF ExecutorInv, LockerInv, EntryIsHolders, LockMatchesPhase
    <3>3. QED
      BY <3>2 DEF Stage, Lifecycle!Exclusive
  <2>4. QED
    BY <2>2, <2>3 DEF Lifecycle!Next, Lifecycle!Step, Lifecycle!Begin
<1>5. ASSUME NEW o \in Ops, RunGivesUp(o) PROVE Goal
  <2>1. OthersStay(o) /\ Stage(o) = "pending" /\ Stage(o)' = "abandoned"
    BY <1>0, <1>5 DEF RunGivesUp, Goto, OthersStay, Stage
  <2>2. QED
    BY <1>1, <2>1, StageMoves
<1>6. ASSUME NEW o \in Ops, Register(o) PROVE Goal
  <2>1. OthersStay(o) /\ Stage(o)' = Stage(o)
    BY <1>0, <1>6 DEF Register, Goto, OthersStay, Stage
  <2>2. QED
    BY <2>1, StageStutters
<1>7. ASSUME NEW o \in Ops, Resolve(o) PROVE Goal
  <2>1. OthersStay(o) /\ Stage(o) = "active"
    BY <1>0, <1>7 DEF Resolve, Goto, OthersStay, Stage, OutcomeMatchesPhase, Ending
  <2>2. Stage(o)' = "executing" \/ Stage(o)' = "active"
    BY <1>0, <1>7 DEF Resolve, Goto, Stage
  <2>3. QED
    BY <1>1, <2>1, <2>2, StageMoves, StageStutters
<1>8. ASSUME NEW o \in Ops, ExecuteOp(o) PROVE Goal
  <2>1. OthersStay(o) /\ Stage(o) = "executing" /\ Stage(o)' = "executed"
    BY <1>0, <1>8 DEF ExecuteOp, Goto, OthersStay, Stage
  <2>2. QED
    BY <1>1, <2>1, StageMoves
<1>9. ASSUME NEW o \in Ops, Audit(o) \/ RecordResult(o) \/ Unregister(o) PROVE Goal
  <2>1. OthersStay(o) /\ Stage(o)' = Stage(o)
    BY <1>0, <1>9 DEF Audit, RecordResult, Unregister, Goto, OthersStay, Stage
  <2>2. QED
    BY <2>1, StageStutters
<1>10. ASSUME NEW o \in Ops, Unlock(o) PROVE Goal
  <2>1. OthersStay(o)
    BY <1>0, <1>10 DEF Unlock, Goto, OthersStay
  <2>2. CASE outcome[o] \in Results \union {"error"}
    <3>1. Stage(o) = "executed" /\ Stage(o)' = "finished"
      BY <1>0, <1>10, <2>2 DEF Unlock, Goto, Stage
    <3>2. QED
      BY <1>1, <2>1, <3>1, StageMoves
  <2>3. CASE outcome[o] \notin Results \union {"error"}
    <3>1. outcome[o] = "noproject"
      BY <1>0, <1>10, <2>3 DEF Unlock, Goto, OutcomeMatchesPhase
    <3>2. Stage(o) = "active" /\ Stage(o)' = "abandoned"
      BY <1>0, <1>10, <2>3, <3>1 DEF Unlock, Goto, Stage
    <3>3. QED
      BY <1>1, <2>1, <3>2, StageMoves
  <2>4. QED
    BY <2>2, <2>3
<1>11. ASSUME NEW o \in Ops, ExecuteReturns(o) PROVE Goal
  <2>1. OthersStay(o) /\ Stage(o)' = Stage(o)
    BY <1>0, <1>11 DEF ExecuteReturns, Goto, OthersStay, Stage
  <2>2. QED
    BY <2>1, StageStutters
<1>12. ASSUME NEW w \in Workers, NEW r \in Requests,
              WorkerTakes(w, r) \/ WorkerEnters(w, r) \/ QueuedReturns(w, r)
       PROVE  Goal
  <2>1. OthersStay(r) /\ Stage(r)' = Stage(r)
    BY <1>0, <1>12 DEF WorkerTakes, WorkerEnters, QueuedReturns, Goto, OthersStay, Stage
  <2>2. QED
    BY <2>1, StageStutters
<1>13. ASSUME NEW w \in Workers, NEW r \in Requests, WorkerDrops(w, r) PROVE Goal
  <2>1. OthersStay(r) /\ Stage(r) = "pending" /\ Stage(r)' = "abandoned"
    BY <1>0, <1>13 DEF WorkerDrops, Goto, OthersStay, Stage
  <2>2. QED
    BY <1>1, <2>1, StageMoves
<1>14. ASSUME NEW o \in Ops,
              CancelLooks(o) \/ CancelSignals(o) \/ CancelRecords(o) \/ CancelMisses(o)
       PROVE  Goal
  <2>1. OthersStay(o) /\ Stage(o)' = Stage(o)
    BY <1>0, <1>14 DEF CancelLooks, CancelSignals, CancelRecords, CancelMisses, OthersStay, Stage
  <2>2. QED
    BY <2>1, StageStutters
<1>15. ASSUME NEW o \in Ops, CancelRemoves(o) PROVE Goal
  <2>1. o \in Requests /\ phase[o] = "new"
    BY <1>15 DEF CancelRemoves, RemoveAndReturn, ExecutorInv, QueuedIsNew, QueueInv, QueueTypeOK
  <2>2. OthersStay(o) /\ Stage(o) = "pending" /\ Stage(o)' = "abandoned"
    BY <1>0, <1>15, <2>1 DEF CancelRemoves, OthersStay, Stage
  <2>3. QED
    BY <1>1, <2>2, StageMoves
<1>16. ASSUME UNCHANGED <<phase, outcome, cancel>> PROVE Goal
  BY <1>16 DEF Stage
<1>17. ASSUME NEW o \in Ops, OpStep(o) PROVE Goal
  <2>1. RunWaits(o) => UNCHANGED <<phase, outcome, cancel>>
    BY DEF RunWaits, execVars
  <2>2. QED
    BY ONLY <1>17, <2>1, <1>2, <1>3, <1>4, <1>5, <1>6, <1>7, <1>8, <1>9, <1>10, <1>11, <1>16 DEF OpStep
<1>18. ASSUME NEW w \in Workers, WorkerStep(w) PROVE Goal
  <2>1. WorkerSleeps(w) => UNCHANGED <<phase, outcome, cancel>>
    BY DEF WorkerSleeps, execVars
  <2>2. QED
    BY ONLY <1>18, <2>1, <1>12, <1>13, <1>16 DEF WorkerStep
<1>19. ASSUME NEW o \in Ops, CancelStep(o) PROVE Goal
  BY ONLY <1>19, <1>14, <1>15 DEF CancelStep
<1>20. \/ \E r \in Requests : Submit(r)
       \/ \E o \in Ops : CtxExpires(o) \/ PollStep(o)
       \/ Shutdown \/ UNCHANGED vars
       => UNCHANGED <<phase, outcome, cancel>>
  BY DEF Submit, CtxExpires, PollStep, PollLooksInRunning, PollLooksInHistory, Shutdown,
         vars, execVars
<1>21. QED
  BY ONLY [Next]_vars, TargetsAssumption, <1>16, <1>17, <1>18, <1>19, <1>20 DEF Next, Quiescent

(* The executor implements OpLifecycle: whatever handlers, workers,         *)
(* cancellations and timeouts do, an operation is abandoned before it       *)
(* touches Docker, or has its project to itself, executes once and          *)
(* finishes.                                                                *)
THEOREM ExecutorImplementsLifecycle == Spec => ImplementsLifecycle
<1>1. Init => Lifecycle!Init
  BY DEF Init, Lifecycle!Init, Stage
<1>2. ExecutorInv /\ [Next]_vars => [Lifecycle!Next]_([o \in Ops |-> Stage(o)])
  BY ExecutorStepRefines
<1>3. QED
  BY <1>1, <1>2, ExecutorInvariant, PTL DEF Spec, ImplementsLifecycle, Lifecycle!Spec
=============================================================================
