----------------------------- MODULE MCExecutor -----------------------------
(* Operations on one project: two submitted ones (a1, a2) and a synchronous *)
(* one (s1), of which each configuration takes some.                        *)
EXTENDS Executor, TLC

CONSTANTS a1, a2, s1, p1, w1, w2

MCProjects == {p1}
MCProj == [o \in Ops |-> p1]
MCPriority == [r \in Requests |-> 50]
MCSymmetry == Permutations({w1, w2})
=============================================================================
