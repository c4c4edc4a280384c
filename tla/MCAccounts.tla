----------------------------- MODULE MCAccounts -----------------------------
(* Two servers and the two migrations, two people who register, two        *)
(* updates of different fields.                                            *)
EXTENDS Accounts

CONSTANTS r1, r2, q1, q2

MCUsers == {r1, r2}
MCName == [u \in Users |-> u]
MCEmail == [u \in Users |-> u]
MCUpdates == {q1, q2}
MCTarget == [q \in Updates |-> r2]
MCFields == [q \in Updates |-> IF q = q1 THEN [role |-> "operator"] ELSE [name |-> q, email |-> q]]
=============================================================================
