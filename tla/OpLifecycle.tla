---------------------------- MODULE OpLifecycle ----------------------------
(***************************************************************************)
(* What the orchestrator promises of every operation, whichever way it     *)
(* came in: it is given up before it touches Docker, or it gets its        *)
(* project for itself, executes once, and finishes.  Executor implements   *)
(* this specification.                                                     *)
(***************************************************************************)
CONSTANTS Ops, Projects, Proj

VARIABLE stage

Stages == {"pending", "active", "executing", "executed", "finished", "abandoned"}

(* The stages in which an operation has its project to itself. *)
Exclusive == {"active", "executing", "executed"}

Init == stage = [o \in Ops |-> "pending"]

Move(o, from, to) ==
    /\ stage[o] = from
    /\ stage' = [stage EXCEPT ![o] = to]

(* An operation starts only on a project no other operation is busy with. *)
Begin(o) ==
    /\ \A q \in Ops : Proj[q] = Proj[o] => stage[q] \notin Exclusive
    /\ Move(o, "pending", "active")

Step(o) ==
    \/ Begin(o)
    \/ Move(o, "active", "executing")
    \/ Move(o, "executing", "executed")
    \/ Move(o, "executed", "finished")
    \/ Move(o, "pending", "abandoned")
    \/ Move(o, "active", "abandoned")

Next == \E o \in Ops : Step(o)

Spec == Init /\ [][Next]_stage
=============================================================================
