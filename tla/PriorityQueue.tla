--------------------------- MODULE PriorityQueue ---------------------------
(***************************************************************************)
(* The priority queue of internal/orchestrator/queue.go, with its two      *)
(* kinds of client: the handlers that Submit a request and the workers     *)
(* that loop over Dequeue.                                                 *)
(*                                                                         *)
(* Submit stamps CreatedAt before it takes the queue's mutex, so requests  *)
(* may enter the queue in another order than they were stamped.  Dequeue   *)
(* waits on a condition variable: Enqueue signals one sleeping worker, but *)
(* a worker that comes along by itself may take the item first.            *)
(*                                                                         *)
(* container/heap is external: Pop returns an item that no other item is   *)
(* Less than, and Remove takes out the item it is pointed at.              *)
(***************************************************************************)
EXTENDS Naturals, FiniteSets

CONSTANTS Requests,   \* the requests handed to Submit
          Workers,    \* the worker goroutines
          Priority,   \* 100 for an administrator's request, 50 for others
          NoRequest   \* not a request

ASSUME PriorityAssumption == Priority \in [Requests -> Nat]
ASSUME NoRequestAssumption == NoRequest \notin Requests
ASSUME WorkersAssumption == IsFiniteSet(Workers)

VARIABLES items,      \* the requests in the heap
          closed,     \* the queue's closed flag
          now,        \* the clock that time.Now reads
          createdAt,  \* each request's CreatedAt
          submit,     \* where each request is in Submit
          dq,         \* where each worker is in its loop
          job,        \* the request a worker got from Dequeue
          ahead       \* history: who was already submitted when r was stamped

queueVars == <<items, closed, now, createdAt, submit, dq, job, ahead>>

SubmitStates == {"new", "stamped", "submitted"}
DqStates == {"idle", "waiting", "woken", "got", "exited"}

(* Shape of the queue's state. *)
QueueTypeOK ==
    /\ items \in SUBSET Requests /\ IsFiniteSet(items)
    /\ closed \in BOOLEAN
    /\ now \in Nat
    /\ createdAt \in [Requests -> Nat]
    /\ submit \in [Requests -> SubmitStates]
    /\ dq \in [Workers -> DqStates]
    /\ job \in [Workers -> Requests \union {NoRequest}]
    /\ ahead \in [Requests -> SUBSET Requests]

QueueInit ==
    /\ items = {}
    /\ closed = FALSE
    /\ now = 0
    /\ createdAt = [r \in Requests |-> 0]
    /\ submit = [r \in Requests |-> "new"]
    /\ dq = [w \in Workers |-> "idle"]
    /\ job = [w \in Workers |-> NoRequest]
    /\ ahead = [r \in Requests |-> {}]

Waiting == {w \in Workers : dq[w] = "waiting"}
Woken == {w \in Workers : dq[w] = "woken"}

(* Mutant: requests of one priority in the wrong order. *)
LessNewestFirst(a, b) ==
    \/ Priority[a] > Priority[b]
    \/ Priority[a] = Priority[b] /\ createdAt[a] > createdAt[b]

Less(a, b) ==
    \/ Priority[a] > Priority[b]
    \/ Priority[a] = Priority[b] /\ createdAt[a] < createdAt[b]

(* heap.Pop: an item that no other item precedes.  Items with equal         *)
(* priority and equal stamps come out in any order.                         *)
HeapMin == {r \in items : \A s \in items : ~Less(s, r)}

-----------------------------------------------------------------------------
(* Submit reads the clock, outside the mutex.  Two stamps may be equal only *)
(* if the two Submit calls overlap: the clock moves while one completes.    *)
Stamp(r) ==
    /\ submit[r] = "new"
    /\ \E t \in {now, now + 1} :
          /\ now' = t
          /\ createdAt' = [createdAt EXCEPT ![r] = t]
    /\ submit' = [submit EXCEPT ![r] = "stamped"]
    /\ ahead' = [ahead EXCEPT ![r] = {s \in Requests : submit[s] = "submitted"}]
    /\ UNCHANGED <<items, closed, dq, job>>

(* cond.Signal wakes one sleeping worker, if there is one. *)
Signal ==
    \/ \E w \in Waiting : dq' = [dq EXCEPT ![w] = "woken"]
    \/ Waiting = {} /\ UNCHANGED dq

(* Mutant: the item is pushed and nobody is signalled. *)
EnqueueWithoutSignal(r) ==
    /\ submit[r] = "stamped"
    /\ items' = items \union {r}
    /\ submit' = [submit EXCEPT ![r] = "submitted"]
    /\ now' = now + 1
    /\ UNCHANGED <<closed, createdAt, job, ahead, dq>>

(* Enqueue under the mutex; Submit returns the request's ID. *)
Enqueue(r) ==
    /\ submit[r] = "stamped"
    /\ items' = items \union {r}
    /\ submit' = [submit EXCEPT ![r] = "submitted"]
    /\ now' = now + 1
    /\ Signal
    /\ UNCHANGED <<closed, createdAt, job, ahead>>

(* Dequeue finds nothing and sleeps.  A worker that was woken for an item   *)
(* somebody else took meanwhile comes back here.                            *)
DequeueWait(w) ==
    /\ dq[w] \in {"idle", "woken"}
    /\ items = {}
    /\ ~closed
    /\ dq' = [dq EXCEPT ![w] = "waiting"]
    /\ UNCHANGED <<items, closed, now, createdAt, submit, job, ahead>>

(* Dequeue returns an item; a closed queue is drained first. *)
DequeueTake(w, r) ==
    /\ dq[w] \in {"idle", "woken"}
    /\ r \in HeapMin
    /\ items' = items \ {r}
    /\ job' = [job EXCEPT ![w] = r]
    /\ dq' = [dq EXCEPT ![w] = "got"]
    /\ UNCHANGED <<closed, now, createdAt, submit, ahead>>

(* Dequeue returns false and the worker ends. *)
DequeueClosed(w) ==
    /\ dq[w] \in {"idle", "woken"}
    /\ items = {}
    /\ closed
    /\ dq' = [dq EXCEPT ![w] = "exited"]
    /\ UNCHANGED <<items, closed, now, createdAt, submit, job, ahead>>

(* TryDequeue returns an item or nothing and never sleeps; no worker uses   *)
(* it, so the item leaves the system.                                       *)
TryDequeue ==
    /\ \E r \in HeapMin : items' = items \ {r}
    /\ UNCHANGED <<closed, now, createdAt, submit, dq, job, ahead>>

(* Remove and RemoveAndReturn take a queued request out by its ID. *)
RemoveAndReturn(r) ==
    /\ r \in items
    /\ items' = items \ {r}
    /\ UNCHANGED <<closed, now, createdAt, submit, dq, job, ahead>>

(* Close, with Broadcast. *)
Close ==
    /\ ~closed
    /\ closed' = TRUE
    /\ dq' = [w \in Workers |-> IF dq[w] = "waiting" THEN "woken" ELSE dq[w]]
    /\ UNCHANGED <<items, now, createdAt, submit, job, ahead>>

(* The worker has executed its request and loops. *)
WorkerLoop(w) ==
    /\ dq[w] = "got"
    /\ dq' = [dq EXCEPT ![w] = "idle"]
    /\ job' = [job EXCEPT ![w] = NoRequest]
    /\ UNCHANGED <<items, closed, now, createdAt, submit, ahead>>

(* The worker's context is over when it gets a request: it drops the        *)
(* request and ends.                                                        *)
WorkerQuit(w) ==
    /\ dq[w] = "got"
    /\ dq' = [dq EXCEPT ![w] = "exited"]
    /\ UNCHANGED <<items, closed, now, createdAt, submit, job, ahead>>

WorkerDequeue(w) ==
    \/ DequeueWait(w)
    \/ \E r \in Requests : DequeueTake(w, r)
    \/ DequeueClosed(w)

QueueNext ==
    \/ \E r \in Requests : Stamp(r) \/ Enqueue(r) \/ RemoveAndReturn(r)
    \/ \E w \in Workers : WorkerDequeue(w) \/ WorkerLoop(w) \/ WorkerQuit(w)
    \/ TryDequeue
    \/ Close

QueueSpec == QueueInit /\ [][QueueNext]_queueVars

-----------------------------------------------------------------------------
(* Signal wakes one worker per Enqueue and a woken worker may be overtaken, *)
(* yet no item is stranded: while a worker sleeps, each item in the queue   *)
(* has a woken worker of its own on the way.                                *)
NoStrandedItem ==
    Waiting # {} => Cardinality(items) <= Cardinality(Woken)

(* A request has one owner: while it is queued no worker has it, and two    *)
(* workers never have the same one, so no request is executed twice.        *)
OneOwner ==
    /\ \A r \in items : submit[r] = "submitted"
    /\ \A w \in Workers :
          dq[w] = "got" => /\ job[w] \in Requests
                           /\ job[w] \notin items
                           /\ submit[job[w]] = "submitted"
    /\ \A v, w \in Workers :
          (dq[v] = "got" /\ dq[w] = "got" /\ job[v] = job[w]) => v = w

(* Nobody sleeps in a closed queue: Dequeue rechecks closed before it       *)
(* waits, under the mutex that Close sets it under.                         *)
NoSleepAfterClose == closed => Waiting = {}

(* Why the stamps order requests although they are read outside the mutex:  *)
(* the clock has passed the stamp of a request whose Submit has returned,   *)
(* so every request stamped afterwards has a later stamp.                   *)
StampsInOrder ==
    \A r \in Requests :
        /\ createdAt[r] <= now
        /\ submit[r] = "submitted" => createdAt[r] < now
        /\ \A s \in ahead[r] : submit[s] = "submitted" /\ createdAt[s] < createdAt[r]

(* The inductive invariant of the queue. *)
QueueInv ==
    /\ QueueTypeOK
    /\ NoStrandedItem
    /\ OneOwner
    /\ NoSleepAfterClose
    /\ StampsInOrder

(* The order a client can rely on although CreatedAt is read outside the    *)
(* mutex: a worker never gets a request while the queue holds one of higher *)
(* priority, or one of the same priority whose Submit had returned before   *)
(* this one was stamped.                                                    *)
NoOvertaking ==
    [][\A w \in Workers, r \in Requests :
          DequeueTake(w, r) =>
              \A s \in items \ {r} :
                  /\ Priority[s] <= Priority[r]
                  /\ Priority[s] = Priority[r] => s \notin ahead[r]]_queueVars
=============================================================================
