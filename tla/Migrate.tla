------------------------------ MODULE Migrate ------------------------------
(***************************************************************************)
(* The migrations at start-up: DB.AutoMigrate of internal/store/migrate.go *)
(* and its call in main.  A migration is applied by one statement batch,   *)
(* which PostgreSQL runs as one transaction, and is recorded by another.   *)
(* A server may crash, or the database refuse a statement, between any two *)
(* of them; the container's restart policy starts it again.  Two servers   *)
(* overlap when one is replaced by the other.                              *)
(***************************************************************************)
EXTENDS Naturals

CONSTANTS
    Servers,     \* processes that start on the same database
    N,           \* the number of migration files, sorted by name
    MaxFaults    \* bound: crashes and refused statements

ASSUME MigrateAssumption == N \in Nat /\ MaxFaults \in Nat

VARIABLES
    applied,    \* the migrations whose tables exist
    recorded,   \* the rows of schema_migrations
    server,     \* what each server does next
    idx,        \* the migration that it looks at
    faults

migrateVars == <<applied, recorded, server, idx, faults>>

Versions == 1..N

MigrateTypeOK ==
    /\ applied \subseteq Versions /\ recorded \subseteq Versions
    /\ server \in [Servers -> {"down", "check", "apply", "record", "serving"}]
    /\ idx \in [Servers -> 1..(N + 1)]
    /\ faults \in 0..MaxFaults

MigrateInit ==
    /\ applied = {} /\ recorded = {}
    /\ server = [s \in Servers |-> "down"]
    /\ idx = [s \in Servers |-> 1]
    /\ faults = 0

-----------------------------------------------------------------------------
(* The process starts; schema_migrations is created if it is not there.    *)
Start(s) ==
    /\ server[s] = "down"
    /\ server' = [server EXCEPT ![s] = "check"]
    /\ idx' = [idx EXCEPT ![s] = 1]
    /\ UNCHANGED <<applied, recorded, faults>>

(* Mutant: the loop ends before the last file.                             *)
CheckStopsEarly(s) ==
    /\ server[s] = "check"
    /\ \/ /\ idx[s] >= N
          /\ server' = [server EXCEPT ![s] = "serving"]
          /\ UNCHANGED idx
       \/ /\ idx[s] < N /\ idx[s] \in recorded
          /\ idx' = [idx EXCEPT ![s] = @ + 1]
          /\ UNCHANGED server
       \/ /\ idx[s] < N /\ idx[s] \notin recorded
          /\ server' = [server EXCEPT ![s] = "apply"]
          /\ UNCHANGED idx
    /\ UNCHANGED <<applied, recorded, faults>>

(* The next file is looked up; after the last one main goes on.            *)
Check(s) ==
    /\ server[s] = "check"
    /\ \/ /\ idx[s] > N
          /\ server' = [server EXCEPT ![s] = "serving"]
          /\ UNCHANGED idx
       \/ /\ idx[s] \in recorded
          /\ idx' = [idx EXCEPT ![s] = @ + 1]
          /\ UNCHANGED server
       \/ /\ idx[s] <= N /\ idx[s] \notin recorded
          /\ server' = [server EXCEPT ![s] = "apply"]
          /\ UNCHANGED idx
    /\ UNCHANGED <<applied, recorded, faults>>

(* Mutant: CREATE TABLE without IF NOT EXISTS.                             *)
ApplyOnce(s) ==
    /\ server[s] = "apply"
    /\ server' = [server EXCEPT ![s] = IF idx[s] \in applied THEN "down" ELSE "record"]
    /\ applied' = applied \cup {idx[s]}
    /\ UNCHANGED <<recorded, idx, faults>>

(* The tables are created if they are not there.  A migration refers to    *)
(* the tables of those before it, which PassedIsApplied says exist.        *)
Apply(s) ==
    /\ server[s] = "apply"
    /\ applied' = applied \cup {idx[s]}
    /\ server' = [server EXCEPT ![s] = "record"]
    /\ UNCHANGED <<recorded, idx, faults>>

(* The version is a primary key: the second of two servers fails here, and *)
(* main exits.                                                             *)
Record(s) ==
    /\ server[s] = "record"
    /\ \/ /\ idx[s] \notin recorded
          /\ recorded' = recorded \cup {idx[s]}
          /\ idx' = [idx EXCEPT ![s] = @ + 1]
          /\ server' = [server EXCEPT ![s] = "check"]
       \/ /\ idx[s] \in recorded
          /\ server' = [server EXCEPT ![s] = "down"]
          /\ UNCHANGED <<recorded, idx>>
    /\ UNCHANGED <<applied, faults>>

(* A statement fails without effect and main exits, or the process dies.   *)
Fault(s) ==
    /\ server[s] # "down" /\ faults < MaxFaults
    /\ server' = [server EXCEPT ![s] = "down"]
    /\ faults' = faults + 1
    /\ UNCHANGED <<applied, recorded, idx>>

ServerStep(s) == Start(s) \/ Check(s) \/ Apply(s) \/ Record(s)
AllServe == (\A s \in Servers : server[s] = "serving") /\ UNCHANGED migrateVars

MigrateNext == (\E s \in Servers : ServerStep(s) \/ Fault(s)) \/ AllServe

MigrateSpec == MigrateInit /\ [][MigrateNext]_migrateVars

-----------------------------------------------------------------------------
(* A server never serves requests without the whole schema.                *)
ServesWithSchema == \A s \in Servers : server[s] = "serving" => applied = Versions

(* schema_migrations claims no more than what is there.                    *)
RecordedIsApplied == recorded \subseteq applied

(* A server has passed only migrations that are applied.                   *)
PassedIsApplied ==
    \A s \in Servers :
        /\ \A i \in Versions : i < idx[s] => i \in applied
        /\ server[s] = "serving" => idx[s] = N + 1
        /\ server[s] = "record" => idx[s] \in applied
        /\ server[s] = "apply" => idx[s] \in Versions

MigrateInv == MigrateTypeOK /\ RecordedIsApplied /\ PassedIsApplied

(* Whatever was interrupted where, all servers serve in the end.           *)
StartsInTheEnd == <>[](\A s \in Servers : server[s] = "serving")
=============================================================================
