--------------------------- MODULE ProjectLocker ---------------------------
(***************************************************************************)
(* The in-memory project lock of internal/orchestrator/lock.go.            *)
(*                                                                         *)
(* An operation locks its project for the whole of its run.  A caller of   *)
(* Acquire that finds the project locked keeps the channel of the entry it *)
(* saw, drops the mutex, and waits for that channel to be closed or for    *)
(* its own context to end.  Between the two the entry may be released and  *)
(* the project locked again by somebody else: that is the race the         *)
(* properties below are about.                                             *)
(*                                                                         *)
(* Operation IDs are fresh UUIDs and an operation calls Acquire once, so   *)
(* the channel of a lock entry is named by the operation that made it.     *)
(***************************************************************************)
EXTENDS Naturals

CONSTANTS Ops,        \* operation IDs
          Projects,   \* project IDs
          Proj,       \* the project each operation is about
          NoOp        \* not an operation: "no entry" or "no channel"

ASSUME ProjAssumption == Proj \in [Ops -> Projects]
ASSUME NoOpAssumption == NoOp \notin Ops

VARIABLES locks,      \* the holder of each project's entry, NoOp without entry
          closedCh,   \* the entries whose channel is closed
          acq,        \* where each operation is in its use of the lock
          waitCh,     \* the channel an operation took from the entry it saw
          ctxDone     \* the operations whose context has ended

lockerVars == <<locks, closedCh, acq, waitCh, ctxDone>>

AcqStates == {"idle", "trying", "waiting", "held", "failed", "released"}

(* Shape of the locker's state. *)
LockerTypeOK ==
    /\ locks \in [Projects -> Ops \union {NoOp}]
    /\ closedCh \in SUBSET Ops
    /\ acq \in [Ops -> AcqStates]
    /\ waitCh \in [Ops -> Ops \union {NoOp}]
    /\ ctxDone \in SUBSET Ops

LockerInit ==
    /\ locks = [p \in Projects |-> NoOp]
    /\ closedCh = {}
    /\ acq = [o \in Ops |-> "idle"]
    /\ waitCh = [o \in Ops |-> NoOp]
    /\ ctxDone = {}

-----------------------------------------------------------------------------
(* The contexts of the operations in S end: a timeout fires, an operation   *)
(* is cancelled or returns, the client that waits for it goes away, or the  *)
(* server stops and ends the contexts of all queued operations at once.     *)
CtxEnd(S) ==
    /\ ctxDone' = ctxDone \union S
    /\ UNCHANGED <<locks, closedCh, acq, waitCh>>

(* o enters Acquire. *)
AcquireCall(o) ==
    /\ acq[o] = "idle"
    /\ acq' = [acq EXCEPT ![o] = "trying"]
    /\ UNCHANGED <<locks, closedCh, waitCh, ctxDone>>

(* Mutant: the entry is written without looking for an existing one. *)
AcquireFreeUnguarded(o) ==
    /\ acq[o] = "trying"
    /\ locks' = [locks EXCEPT ![Proj[o]] = o]
    /\ acq' = [acq EXCEPT ![o] = "held"]
    /\ UNCHANGED <<closedCh, waitCh, ctxDone>>

(* One pass of the loop under the mutex: no entry, so o makes one and has   *)
(* the lock.  The context is not looked at here, so an operation whose      *)
(* context has ended still takes a free project.                            *)
AcquireFree(o) ==
    /\ acq[o] = "trying"
    /\ locks[Proj[o]] = NoOp
    /\ locks' = [locks EXCEPT ![Proj[o]] = o]
    /\ acq' = [acq EXCEPT ![o] = "held"]
    /\ UNCHANGED <<closedCh, waitCh, ctxDone>>

(* The same pass when there is an entry: o takes the entry's channel. *)
AcquireBlock(o) ==
    /\ acq[o] = "trying"
    /\ locks[Proj[o]] # NoOp
    /\ waitCh' = [waitCh EXCEPT ![o] = locks[Proj[o]]]
    /\ acq' = [acq EXCEPT ![o] = "waiting"]
    /\ UNCHANGED <<locks, closedCh, ctxDone>>

(* The select takes the closed channel: o goes round the loop again. *)
AcquireWake(o) ==
    /\ acq[o] = "waiting"
    /\ waitCh[o] \in closedCh
    /\ acq' = [acq EXCEPT ![o] = "trying"]
    /\ UNCHANGED <<locks, closedCh, waitCh, ctxDone>>

(* The select takes ctx.Done(): Acquire returns ErrProjectLocked. *)
AcquireFail(o) ==
    /\ acq[o] = "waiting"
    /\ o \in ctxDone
    /\ acq' = [acq EXCEPT ![o] = "failed"]
    /\ UNCHANGED <<locks, closedCh, waitCh, ctxDone>>

(* TryAcquire: the one pass, without the wait.  Only tests call it. *)
TryAcquire(o) ==
    /\ acq[o] = "idle"
    /\ \/ /\ locks[Proj[o]] = NoOp
          /\ locks' = [locks EXCEPT ![Proj[o]] = o]
          /\ acq' = [acq EXCEPT ![o] = "held"]
       \/ /\ locks[Proj[o]] # NoOp
          /\ acq' = [acq EXCEPT ![o] = "failed"]
          /\ UNCHANGED locks
    /\ UNCHANGED <<closedCh, waitCh, ctxDone>>

(* IsLocked, which Execute asks before it enters run. *)
IsLocked(p) == locks[p] # NoOp

(* Mutant: the entry is deleted and its channel left open. *)
ReleaseWithoutClose(o) ==
    /\ acq[o] = "held"
    /\ locks' = [locks EXCEPT ![Proj[o]] = NoOp]
    /\ acq' = [acq EXCEPT ![o] = "released"]
    /\ UNCHANGED <<closedCh, waitCh, ctxDone>>

(* The release function: closes the channel of whatever entry the project   *)
(* has and deletes the entry, without comparing its holder with o.          *)
Release(o) ==
    /\ acq[o] = "held"
    /\ closedCh' = IF IsLocked(Proj[o]) THEN closedCh \union {locks[Proj[o]]} ELSE closedCh
    /\ locks' = [locks EXCEPT ![Proj[o]] = NoOp]
    /\ acq' = [acq EXCEPT ![o] = "released"]
    /\ UNCHANGED <<waitCh, ctxDone>>

LockerStep(o) ==
    \/ AcquireCall(o)
    \/ AcquireFree(o)
    \/ AcquireBlock(o)
    \/ AcquireWake(o)
    \/ AcquireFail(o)
    \/ TryAcquire(o)
    \/ Release(o)

LockerNext ==
    \/ \E o \in Ops : LockerStep(o)
    \/ \E S \in SUBSET Ops : CtxEnd(S)

LockerSpec == LockerInit /\ [][LockerNext]_lockerVars

-----------------------------------------------------------------------------
(* Acquire gives a project to one operation at a time, even though waiters  *)
(* retry with what they saw before they dropped the mutex.                  *)
MutualExclusion ==
    \A o1, o2 \in Ops :
        (acq[o1] = "held" /\ acq[o2] = "held" /\ Proj[o1] = Proj[o2]) => o1 = o2

(* releaseFunc deletes the project's entry whoever made it.  That is        *)
(* harmless only because the holder's own entry is always the one there,    *)
(* and an entry never outlives its holder: no project stays locked by an    *)
(* operation that is over.                                                  *)
EntryIsHolders ==
    \A o \in Ops : acq[o] = "held" <=> locks[Proj[o]] = o

(* No lost wakeup: the channel a waiter blocks on is closed already, or is  *)
(* the channel of the entry that is there now, whose release will close it. *)
NoLostWakeup ==
    \A o \in Ops :
        acq[o] = "waiting" =>
            \/ waitCh[o] \in closedCh
            \/ waitCh[o] \in Ops /\ locks[Proj[o]] = waitCh[o]

(* The strengthening that makes the three invariants inductive: an entry    *)
(* belongs to an operation of that project, and its channel is still open.  *)
EntryIsOpen ==
    \A p \in Projects :
        IsLocked(p) => Proj[locks[p]] = p /\ locks[p] \notin closedCh

ClosedIsOver == \A o \in closedCh : acq[o] = "released"

LockerInv ==
    /\ LockerTypeOK
    /\ EntryIsHolders
    /\ EntryIsOpen
    /\ ClosedIsOver
    /\ NoLostWakeup
=============================================================================
