----------------------------- MODULE Executor -----------------------------
(***************************************************************************)
(* The orchestrator of internal/orchestrator/executor.go: the operations   *)
(* that HTTP handlers run synchronously (Execute) or hand to the workers   *)
(* (Submit), their way through run, and the calls Cancel and GetOperation  *)
(* that other requests make meanwhile.                                     *)
(*                                                                         *)
(* It composes ProjectLocker (an operation holds its project's lock while  *)
(* it runs) and PriorityQueue (workers take submitted operations from it). *)
(* Requests are the operations that come in through Submit, the others     *)
(* come in through Execute.  Each action is one critical section or one    *)
(* call out of the executor; everything interleaves between them.          *)
(*                                                                         *)
(* Docker (executeOp), the project registry (GetProject) and the audit     *)
(* table (LogOperation) are seen only through what their calls return.     *)
(***************************************************************************)
EXTENDS ProjectLocker, PriorityQueue, Sequences

CONSTANTS CancelTargets,   \* bound: the operations somebody calls Cancel on
          PollTargets,     \* bound: the operations somebody calls GetOperation on
          MaxHistory       \* capacity of the history, 256 in the code

ASSUME RequestsAssumption == Requests \subseteq Ops /\ NoRequest \notin Ops
ASSUME TargetsAssumption == CancelTargets \subseteq Ops /\ PollTargets \subseteq Ops
ASSUME MaxHistoryAssumption == MaxHistory \in Nat \ {0}

VARIABLES phase,     \* where each operation is between its arrival and its end
          running,   \* keys of the maps running and cancelFns, written together
          outcome,   \* what run returns, or why the operation never ran
          history,   \* the completed operations, oldest first
          audit,     \* the operations LogOperation was called for
          cancel,    \* where the call Cancel(o) is, and what it returned
          poll,      \* where the call GetOperation(o) is, and what it returned
          seen,      \* history: o should have been visible when its poll began
          appDone    \* the server's context, parent of the workers' contexts

execVars == <<phase, running, outcome, history, audit, cancel, poll, seen, appDone>>
vars == <<lockerVars, queueVars, execVars>>

(* What executeOp gives back: a result, or only an error.  The executor     *)
(* treats the statuses succeeded, failed and rolled_back alike: "ended".    *)
Results == {"ended", "cancelled"}
Errors == {"inprogress", "locked", "noproject", "error"}

(* run, after Acquire: the phases in which the lock is held, and among them *)
(* those in which the operation is registered.                              *)
Registered == {"registered", "executing", "executed", "audited", "unwinding"}
Holding == Registered \union {"acquired", "unregistered"}
InRun == Holding \union {"acquiring"}
Phases == InRun \union {"new", "dequeued", "leaving", "done", "dropped"}

Records == [op : Ops, status : Results \union Errors]
CancelStates == {"none", "hit", "miss", "signalled", "removed", "recorded", "notfound"}
PollStates == {"none", "checked", "found", "missed"}

(* Shape of the executor's state; the history never exceeds its capacity. *)
ExecutorTypeOK ==
    /\ phase \in [Ops -> Phases]
    /\ running \in SUBSET Ops
    /\ outcome \in [Ops -> Results \union Errors \union {"none"}]
    /\ history \in Seq(Records) /\ Len(history) <= MaxHistory
    /\ audit \in SUBSET Ops
    /\ cancel \in [Ops -> CancelStates]
    /\ poll \in [Ops -> PollStates]
    /\ seen \in SUBSET Ops
    /\ appDone \in BOOLEAN

Init ==
    /\ LockerInit
    /\ QueueInit
    /\ phase = [o \in Ops |-> "new"]
    /\ running = {}
    /\ outcome = [o \in Ops |-> "none"]
    /\ history = <<>>
    /\ audit = {}
    /\ cancel = [o \in Ops |-> "none"]
    /\ poll = [o \in Ops |-> "none"]
    /\ seen = {}
    /\ appDone = FALSE

Goto(o, from, to) ==
    /\ phase[o] = from
    /\ phase' = [phase EXCEPT ![o] = to]

(* addHistory: the ring buffer drops its oldest record when it is full. *)
AddHistory(o, status) ==
    LET kept == IF Len(history) >= MaxHistory THEN Tail(history) ELSE history
    IN  history' = Append(kept, [op |-> o, status |-> status])

InHistory(o) == \E i \in DOMAIN history : history[i].op = o

-----------------------------------------------------------------------------
(* Arrivals *)

(* SubmitAsync -> Submit: the stamp, then the queue. *)
Submit(r) ==
    /\ Stamp(r) \/ Enqueue(r)
    /\ UNCHANGED <<lockerVars, execVars>>

(* The handlers' executeOp -> Execute: a project that is locked right now   *)
(* is refused.                                                              *)
ExecuteRefused(o) ==
    /\ o \notin Requests
    /\ IsLocked(Proj[o])
    /\ Goto(o, "new", "done")
    /\ outcome' = [outcome EXCEPT ![o] = "inprogress"]
    /\ UNCHANGED <<lockerVars, queueVars, running, history, audit, cancel, poll, seen, appDone>>

(* Otherwise Execute enters run.  Somebody else may take the lock before    *)
(* run asks for it: then the call waits after all.                          *)
ExecuteEnters(o) ==
    /\ o \notin Requests
    /\ ~IsLocked(Proj[o])
    /\ Goto(o, "new", "acquiring")
    /\ AcquireCall(o)
    /\ UNCHANGED <<queueVars, running, outcome, history, audit, cancel, poll, seen, appDone>>

(* worker: Dequeue sleeps, or returns a request. *)
WorkerSleeps(w) ==
    /\ DequeueWait(w)
    /\ UNCHANGED <<lockerVars, execVars>>

WorkerTakes(w, r) ==
    /\ DequeueTake(w, r)
    /\ Goto(r, "new", "dequeued")
    /\ UNCHANGED <<lockerVars, running, outcome, history, audit, cancel, poll, seen, appDone>>

(* The worker finds its context over: the request is dropped without a      *)
(* record and the worker ends.                                              *)
WorkerDrops(w, r) ==
    /\ job[w] = r
    /\ appDone
    /\ Goto(r, "dequeued", "dropped")
    /\ WorkerQuit(w)
    /\ UNCHANGED <<lockerVars, running, outcome, history, audit, cancel, poll, seen, appDone>>

(* executeQueued enters run. *)
WorkerEnters(w, r) ==
    /\ dq[w] = "got"
    /\ job[w] = r
    /\ ~appDone
    /\ Goto(r, "dequeued", "acquiring")
    /\ AcquireCall(r)
    /\ UNCHANGED <<queueVars, running, outcome, history, audit, cancel, poll, seen, appDone>>

-----------------------------------------------------------------------------
(* run *)

(* Acquire: one pass of its loop, or its select. *)
RunAcquires(o) ==
    /\ Goto(o, "acquiring", "acquired")
    /\ AcquireFree(o)
    /\ UNCHANGED <<queueVars, running, outcome, history, audit, cancel, poll, seen, appDone>>

RunWaits(o) ==
    /\ phase[o] = "acquiring"
    /\ AcquireBlock(o) \/ AcquireWake(o)
    /\ UNCHANGED <<queueVars, execVars>>

RunGivesUp(o) ==
    /\ Goto(o, "acquiring", "leaving")
    /\ AcquireFail(o)
    /\ outcome' = [outcome EXCEPT ![o] = "locked"]
    /\ UNCHANGED <<queueVars, running, history, audit, cancel, poll, seen, appDone>>

(* The operation enters running and cancelFns, under the executor's mutex. *)
Register(o) ==
    /\ Goto(o, "acquired", "registered")
    /\ running' = running \union {o}
    /\ UNCHANGED <<lockerVars, queueVars, outcome, history, audit, cancel, poll, seen, appDone>>

(* Mutant: the early return leaves without the deferred calls. *)
ResolveLeaksLock(o) ==
    /\ \/ Goto(o, "registered", "executing") /\ UNCHANGED outcome
       \/ /\ Goto(o, "registered", "leaving")
          /\ outcome' = [outcome EXCEPT ![o] = "noproject"]
    /\ UNCHANGED <<lockerVars, queueVars, running, history, audit, cancel, poll, seen, appDone>>

(* GetProject: the registry has the project, or run returns its error. *)
Resolve(o) ==
    /\ \/ Goto(o, "registered", "executing") /\ UNCHANGED outcome
       \/ /\ Goto(o, "registered", "unwinding")
          /\ outcome' = [outcome EXCEPT ![o] = "noproject"]
    /\ UNCHANGED <<lockerVars, queueVars, running, history, audit, cancel, poll, seen, appDone>>

(* executeOp returns.  Only Up and Down look at the context between their   *)
(* steps, and report a cancellation when it has ended; an operation whose   *)
(* context has ended may also fail or succeed.                              *)
ExecuteOp(o) ==
    /\ Goto(o, "executing", "executed")
    /\ \E res \in Results \union {"error"} :
          /\ res = "cancelled" => o \in ctxDone
          /\ outcome' = [outcome EXCEPT ![o] = res]
    /\ UNCHANGED <<lockerVars, queueVars, running, history, audit, cancel, poll, seen, appDone>>

(* Mutant: the operation is unregistered before its result is recorded. *)
AuditUnregisters(o) ==
    /\ Goto(o, "executed", IF outcome[o] = "error" THEN "unwinding" ELSE "audited")
    /\ audit' = audit \union {o}
    /\ running' = running \ {o}
    /\ UNCHANGED <<lockerVars, queueVars, outcome, history, cancel, poll, seen, appDone>>

(* LogOperation is called whatever executeOp returned, and its own error is *)
(* ignored; after an error of executeOp run returns without a record.       *)
Audit(o) ==
    /\ Goto(o, "executed", IF outcome[o] = "error" THEN "unwinding" ELSE "audited")
    /\ audit' = audit \union {o}
    /\ UNCHANGED <<lockerVars, queueVars, running, outcome, history, cancel, poll, seen, appDone>>

(* run stores the result in the history, still registered and locked. *)
RecordResult(o) ==
    /\ Goto(o, "audited", "unwinding")
    /\ AddHistory(o, outcome[o])
    /\ UNCHANGED <<lockerVars, queueVars, running, outcome, audit, cancel, poll, seen, appDone>>

(* Mutant: the operation stays in running. *)
UnregisterForgets(o) ==
    /\ Goto(o, "unwinding", "unregistered")
    /\ UNCHANGED <<lockerVars, queueVars, running, outcome, history, audit, cancel, poll, seen, appDone>>

(* The deferred calls, last first: unregister, release, cancel. *)
Unregister(o) ==
    /\ Goto(o, "unwinding", "unregistered")
    /\ running' = running \ {o}
    /\ UNCHANGED <<lockerVars, queueVars, outcome, history, audit, cancel, poll, seen, appDone>>

Unlock(o) ==
    /\ Goto(o, "unregistered", "leaving")
    /\ Release(o)
    /\ UNCHANGED <<queueVars, running, outcome, history, audit, cancel, poll, seen, appDone>>

(* run's last deferred call ends the operation's context; Execute returns   *)
(* to its handler.                                                          *)
ExecuteReturns(o) ==
    /\ o \notin Requests
    /\ Goto(o, "leaving", "done")
    /\ CtxEnd({o})
    /\ UNCHANGED <<queueVars, running, outcome, history, audit, cancel, poll, seen, appDone>>

(* Mutant: executeQueued leaves the recording to run. *)
QueuedReturnsSilently(w, r) ==
    /\ job[w] = r
    /\ Goto(r, "leaving", "done")
    /\ CtxEnd({r})
    /\ WorkerLoop(w)
    /\ UNCHANGED <<running, outcome, history, audit, cancel, poll, seen, appDone>>

(* executeQueued records what run returned, a second time if run recorded a *)
(* result itself, and the worker loops.                                     *)
QueuedReturns(w, r) ==
    /\ job[w] = r
    /\ Goto(r, "leaving", "done")
    /\ CtxEnd({r})
    /\ AddHistory(r, outcome[r])
    /\ WorkerLoop(w)
    /\ UNCHANGED <<running, outcome, audit, cancel, poll, seen, appDone>>

-----------------------------------------------------------------------------
(* The environment and the other requests *)

(* The operation's timeout fires, or its client goes away. *)
CtxExpires(o) ==
    /\ phase[o] \in InRun
    /\ o \notin ctxDone
    /\ CtxEnd({o})
    /\ UNCHANGED <<queueVars, execVars>>

(* main cancels the workers' context; the handlers' contexts are not        *)
(* derived from it.                                                         *)
Shutdown ==
    /\ ~appDone
    /\ appDone' = TRUE
    /\ CtxEnd(Requests)
    /\ UNCHANGED <<queueVars, phase, running, outcome, history, audit, cancel, poll, seen>>

(* o is, or has been, among the running operations. *)
WasRegistered(o) ==
    phase[o] \in Registered \/ outcome[o] \in Results \union {"noproject", "error"}

(* A client knows an operation's ID once Submit has returned it, or once    *)
(* the list of running operations has shown it.                             *)
Known(o) ==
    IF o \in Requests THEN submit[o] = "submitted" ELSE WasRegistered(o)

(* Cancel looks for the cancel function, and drops the mutex. *)
CancelLooks(o) ==
    /\ cancel[o] = "none"
    /\ Known(o)
    /\ cancel' = [cancel EXCEPT ![o] = IF o \in running THEN "hit" ELSE "miss"]
    /\ UNCHANGED <<lockerVars, queueVars, phase, running, outcome, history, audit, poll, seen, appDone>>

(* It calls the function it found, which may be over by now. *)
CancelSignals(o) ==
    /\ cancel[o] = "hit"
    /\ CtxEnd({o})
    /\ cancel' = [cancel EXCEPT ![o] = "signalled"]
    /\ UNCHANGED <<queueVars, phase, running, outcome, history, audit, poll, seen, appDone>>

(* Mutant: the request is reported as removed but stays in the heap. *)
CancelForgetsToRemove(o) ==
    /\ cancel[o] = "miss"
    /\ o \in items
    /\ cancel' = [cancel EXCEPT ![o] = "removed"]
    /\ UNCHANGED <<lockerVars, queueVars, phase, running, outcome, history, audit, poll, seen, appDone>>

(* Without one it takes the request out of the queue, *)
CancelRemoves(o) ==
    /\ cancel[o] = "miss"
    /\ RemoveAndReturn(o)
    /\ cancel' = [cancel EXCEPT ![o] = "removed"]
    /\ UNCHANGED <<lockerVars, phase, running, outcome, history, audit, poll, seen, appDone>>

(* and then records it as cancelled and returns. *)
CancelRecords(o) ==
    /\ cancel[o] = "removed"
    /\ AddHistory(o, "cancelled")
    /\ cancel' = [cancel EXCEPT ![o] = "recorded"]
    /\ UNCHANGED <<lockerVars, queueVars, phase, running, outcome, audit, poll, seen, appDone>>

(* It is not in the queue either: "operation not found or already           *)
(* completed".                                                              *)
CancelMisses(o) ==
    /\ cancel[o] = "miss"
    /\ o \notin items
    /\ cancel' = [cancel EXCEPT ![o] = "notfound"]
    /\ UNCHANGED <<lockerVars, queueVars, phase, running, outcome, history, audit, poll, seen, appDone>>

(* What a client expects to find when it asks now: an operation that has    *)
(* been registered, or that Cancel has said it took out of the queue.       *)
Visible(o) == WasRegistered(o) \/ cancel[o] = "recorded"

(* GetOperation looks among the running operations, *)
PollLooksInRunning(o) ==
    /\ poll[o] = "none"
    /\ Known(o)
    /\ poll' = [poll EXCEPT ![o] = IF o \in running THEN "found" ELSE "checked"]
    /\ seen' = IF Visible(o) THEN seen \union {o} ELSE seen
    /\ UNCHANGED <<lockerVars, queueVars, phase, running, outcome, history, audit, cancel, appDone>>

(* and then, under another mutex, in the history. *)
PollLooksInHistory(o) ==
    /\ poll[o] = "checked"
    /\ poll' = [poll EXCEPT ![o] = IF InHistory(o) THEN "found" ELSE "missed"]
    /\ UNCHANGED <<lockerVars, queueVars, phase, running, outcome, history, audit, cancel, seen, appDone>>

-----------------------------------------------------------------------------
OpStep(o) ==
    \/ ExecuteRefused(o)
    \/ ExecuteEnters(o)
    \/ RunAcquires(o)
    \/ RunWaits(o)
    \/ RunGivesUp(o)
    \/ Register(o)
    \/ Resolve(o)
    \/ ExecuteOp(o)
    \/ Audit(o)
    \/ RecordResult(o)
    \/ Unregister(o)
    \/ Unlock(o)
    \/ ExecuteReturns(o)

WorkerStep(w) ==
    \/ WorkerSleeps(w)
    \/ \E r \in Requests : \/ WorkerTakes(w, r)
                           \/ WorkerDrops(w, r)
                           \/ WorkerEnters(w, r)
                           \/ QueuedReturns(w, r)

CancelStep(o) ==
    \/ CancelLooks(o)
    \/ CancelSignals(o)
    \/ CancelRemoves(o)
    \/ CancelRecords(o)
    \/ CancelMisses(o)

PollStep(o) == PollLooksInRunning(o) \/ PollLooksInHistory(o)

(* All that arrived is over: nothing has to happen any more.  Requests may  *)
(* be left in the queue when the workers have ended with the server.        *)
Settled(o) ==
    \/ phase[o] \in {"done", "dropped"}
    \/ /\ o \in Requests
       /\ phase[o] = "new"
       /\ submit[o] = "submitted"
       /\ o \notin items \/ \A w \in Workers : dq[w] = "exited"

Quiescent ==
    /\ \A o \in Ops : Settled(o)
    /\ UNCHANGED vars

Next ==
    \/ \E r \in Requests : Submit(r)
    \/ \E o \in Ops : OpStep(o) \/ CtxExpires(o)
    \/ \E w \in Workers : WorkerStep(w)
    \/ \E o \in CancelTargets : CancelStep(o)
    \/ \E o \in PollTargets : PollStep(o)
    \/ Shutdown
    \/ Quiescent

Spec == Init /\ [][Next]_vars

(* Goroutines that can move do: the handlers' and the workers'.  Docker     *)
(* calls return, at the latest when the operation's timeout ends their      *)
(* context.  Nothing makes a client submit, cancel or poll, or the server   *)
(* stop.                                                                    *)
Fairness ==
    /\ \A r \in Requests : WF_vars(Enqueue(r) /\ UNCHANGED <<lockerVars, execVars>>)
    /\ \A o \in Ops : WF_vars(phase[o] # "new" /\ OpStep(o))
    /\ \A w \in Workers : WF_vars(WorkerStep(w))
    /\ \A o \in CancelTargets : WF_vars(cancel[o] # "none" /\ CancelStep(o))

FairSpec == Spec /\ Fairness

-----------------------------------------------------------------------------
(* Two operations are never between acquire and release on one project at   *)
(* the same time, so Docker sees one operation per project: handlers and    *)
(* workers race through IsLocked, Acquire and its retry loop.               *)
OneOperationPerProject ==
    \A o, q \in Ops :
        (phase[o] \in Holding /\ phase[q] \in Holding /\ Proj[o] = Proj[q]) => o = q

(* The entry GetRunningOps shows and Cancel uses is never stale: the        *)
(* operation it names holds its project's lock.                             *)
RunningHoldsLock ==
    \A o \in running : locks[Proj[o]] = o /\ phase[o] \in Registered

(* A request that Cancel took out of the queue never reaches Docker, even   *)
(* when a worker dequeues while Cancel is between its two mutexes.          *)
RemovedNeverRuns ==
    \A o \in Ops :
        cancel[o] \in {"removed", "recorded"} =>
            /\ phase[o] = "new"
            /\ o \notin items
            /\ o \notin running

(* An operation may be in the history more than once (run and executeQueued *)
(* both record a result), but its records never tell two stories, such as   *)
(* cancelled and succeeded.                                                 *)
RecordsAgree ==
    \A i, j \in DOMAIN history :
        history[i].op = history[j].op => history[i].status = history[j].status

(* GetOperation takes two mutexes one after the other, and still does not   *)
(* miss an operation that moves from running to the history between them:   *)
(* an operation that has (or had) a result, or that Cancel removed, is      *)
(* found, unless the full history has dropped it.                           *)
PollFindsResult ==
    \A o \in seen :
        (poll[o] = "missed" /\ Len(history) < MaxHistory) =>
            outcome[o] \notin Results /\ cancel[o] # "recorded"

(* The audit trail is exact once an operation's lock is free again:         *)
(* LogOperation was called for the operations that executeOp was called     *)
(* for, with whatever outcome, and for no others.  (An error of the insert  *)
(* itself is dropped by run and is not modelled.)                           *)
AuditIsExact ==
    \A o \in Ops :
        phase[o] \notin Holding =>
            (o \in audit <=> outcome[o] \in Results \union {"error"})

(* What makes these inductive: how the phase of an operation determines     *)
(* its use of the lock, its registration, its outcome and its audit entry,  *)
(* and that a queued request is untouched.                                  *)
LockMatchesPhase ==
    \A o \in Ops :
        /\ phase[o] \in Holding <=> acq[o] = "held"
        /\ phase[o] = "acquiring" <=> acq[o] \in {"trying", "waiting"}
        /\ phase[o] \in {"new", "dequeued", "dropped"} => acq[o] = "idle"

RunningIsRegistered == \A o \in Ops : o \in running <=> phase[o] \in Registered

(* The last phases of an operation: run has nothing left to record. *)
Ending == {"unwinding", "unregistered", "leaving", "done"}

Reported(o) == phase[o] \in Ending

Executed(o) == outcome[o] \in Results \union {"error"}

OutcomeMatchesPhase ==
    \A o \in Ops :
        /\ phase[o] \in {"executed"} => Executed(o) /\ o \notin audit
        /\ phase[o] = "audited" => outcome[o] \in Results /\ o \in audit
        /\ phase[o] \in {"unwinding", "unregistered"} =>
              outcome[o] \in Results \union {"noproject", "error"}
        /\ phase[o] \in Ending =>
              /\ outcome[o] # "none"
              /\ o \in audit <=> Executed(o)
        /\ phase[o] \notin {"executed", "audited"} \union Ending =>
              outcome[o] = "none" /\ o \notin audit

QueuedIsNew ==
    \A r \in Requests : (submit[r] # "submitted" \/ r \in items) => phase[r] = "new"

RemovedIsOut ==
    \A o \in Ops :
        cancel[o] \in {"removed", "recorded"} =>
            o \in Requests /\ submit[o] = "submitted" /\ phase[o] = "new" /\ o \notin items

(* Every record says what became of its operation. *)
HistoryIsTrue ==
    \A i \in DOMAIN history :
        \/ cancel[history[i].op] = "recorded" /\ history[i].status = "cancelled"
        \/ Reported(history[i].op) /\ history[i].status = outcome[history[i].op]

(* A history that is not full has never dropped a record. *)
HistoryIsComplete ==
    Len(history) < MaxHistory =>
        \A o \in Ops :
            (cancel[o] = "recorded" \/ (Reported(o) /\ outcome[o] \in Results)) => InHistory(o)

(* A GetOperation that did not find among the running operations one that   *)
(* should be visible came after that operation's last record.               *)
PollIsLate ==
    \A o \in seen :
        /\ poll[o] # "none"
        /\ poll[o] \in {"checked", "missed"} => cancel[o] = "recorded" \/ Reported(o)

(* The part of the invariant about what is recorded and found. *)
ReportInv ==
    /\ HistoryIsTrue
    /\ HistoryIsComplete
    /\ PollIsLate
    /\ PollFindsResult

ExecutorInv ==
    /\ LockerInv
    /\ QueueInv
    /\ ExecutorTypeOK
    /\ LockMatchesPhase
    /\ RunningIsRegistered
    /\ OutcomeMatchesPhase
    /\ QueuedIsNew
    /\ RemovedIsOut
    /\ ReportInv

(* Every submitted operation is recorded in the history (executed, refused  *)
(* for lack of the lock, failed, or cancelled) unless the server stops.     *)
SubmittedIsRecorded ==
    \A r \in Requests : submit[r] = "submitted" ~> (InHistory(r) \/ appDone)

(* Whatever happens to an operation that holds a project's lock (an error,  *)
(* a cancellation, its timeout, the server stopping), the project is        *)
(* unlocked again.                                                          *)
LockIsReleased ==
    \A p \in Projects, o \in Ops : locks[p] = o ~> locks[p] # o

(* The refinement mapping to OpLifecycle. *)
Stage(o) ==
    IF phase[o] = "dropped" \/ cancel[o] \in {"removed", "recorded"} THEN "abandoned"
    ELSE IF phase[o] \in {"new", "dequeued", "acquiring"} THEN "pending"
    ELSE IF phase[o] = "executing" THEN "executing"
    ELSE IF phase[o] \in Holding THEN
        IF outcome[o] \in {"none", "noproject"} THEN "active" ELSE "executed"
    ELSE IF outcome[o] \in Results \union {"error"} THEN "finished"
    ELSE "abandoned"

Lifecycle == INSTANCE OpLifecycle WITH stage <- [o \in Ops |-> Stage(o)]

(* The executor implements OpLifecycle: each operation is abandoned before  *)
(* it touches Docker, or has its project for itself, executes once and      *)
(* finishes, and never leaves those last stages.                            *)
ImplementsLifecycle == Lifecycle!Spec
=============================================================================
