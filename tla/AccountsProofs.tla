--------------------------- MODULE AccountsProofs ---------------------------
(***************************************************************************)
(* Migrate and Accounts on any number of servers, for any number of        *)
(* migrations, users, updates and operations.  No server serves without    *)
(* its schema, wherever it was interrupted; so requests run on the whole   *)
(* schema, and what they have read is true or known to be outdated when    *)
(* they use it.                                                            *)
(***************************************************************************)
EXTENDS Accounts, TLAPS

(* An empty database satisfies the invariant. *)
LEMMA MigrateInitInv == MigrateInit => MigrateInv
BY MigrateAssumption DEF MigrateInit, MigrateInv, MigrateTypeOK, RecordedIsApplied, PassedIsApplied, Versions

(* Each statement of AutoMigrate, and each interruption, keeps it. *)
LEMMA MigrateStepInv == MigrateInv /\ [MigrateNext]_migrateVars => MigrateInv'
<1> SUFFICES ASSUME MigrateInv, [MigrateNext]_migrateVars PROVE MigrateInv'
  OBVIOUS
<1> USE MigrateAssumption DEF MigrateInv, MigrateTypeOK, RecordedIsApplied, PassedIsApplied, Versions
<1>1. ASSUME NEW s \in Servers, Start(s) \/ Fault(s) PROVE MigrateInv'
  <2>1. CASE Start(s)
    <3>1. /\ UNCHANGED <<applied, recorded, faults>> /\ idx' \in [Servers -> 1..(N + 1)]
          /\ \A t \in Servers : t # s => idx'[t] = idx[t] /\ server'[t] = server[t]
          /\ idx'[s] = 1 /\ server'[s] = "check"
      BY <2>1 DEF Start
    <3>2. server' \in [Servers -> {"down", "check", "apply", "record", "serving"}]
      BY <2>1 DEF Start
    <3>3. PassedIsApplied'
      BY <3>1
    <3>4. QED
      BY <3>1, <3>2, <3>3
  <2>2. CASE Fault(s)
    BY <2>2 DEF Fault
  <2>3. QED
    BY <1>1, <2>1, <2>2
<1>2. ASSUME NEW s \in Servers, Check(s) PROVE MigrateInv'
  <2>1. CASE server' = [server EXCEPT ![s] = "serving"] /\ idx[s] > N /\ UNCHANGED idx
    BY <1>2, <2>1 DEF Check
  <2>2. CASE idx[s] \in recorded /\ idx' = [idx EXCEPT ![s] = @ + 1] /\ UNCHANGED server
    <3>1. /\ idx[s] \in applied /\ idx[s] \in Versions /\ idx'[s] = idx[s] + 1
          /\ UNCHANGED <<applied, recorded, faults>>
      BY <1>2, <2>2 DEF Check
    <3>2. \A t \in Servers : \A i \in Versions : i < idx'[t] => i \in applied
      BY <2>2, <3>1
    <3>3. QED
      BY <1>2, <2>2, <3>1, <3>2 DEF Check
  <2>3. CASE /\ idx[s] <= N /\ idx[s] \notin recorded
             /\ server' = [server EXCEPT ![s] = "apply"] /\ UNCHANGED idx
    BY <1>2, <2>3 DEF Check
  <2>4. QED
    BY <1>2, <2>1, <2>2, <2>3 DEF Check
<1>3. ASSUME NEW s \in Servers, Apply(s) PROVE MigrateInv'
  BY <1>3 DEF Apply
<1>4. ASSUME NEW s \in Servers, Record(s) PROVE MigrateInv'
  <2>1. idx[s] \in applied /\ idx[s] \in Versions
    BY <1>4 DEF Record
  <2>2. CASE /\ recorded' = recorded \cup {idx[s]} /\ idx' = [idx EXCEPT ![s] = @ + 1]
             /\ server' = [server EXCEPT ![s] = "check"]
    <3>1. idx'[s] = idx[s] + 1 /\ UNCHANGED <<applied, faults>>
      BY <1>4, <2>2 DEF Record
    <3>2. \A t \in Servers : \A i \in Versions : i < idx'[t] => i \in applied
      BY <2>1, <2>2, <3>1
    <3>3. MigrateTypeOK' /\ RecordedIsApplied'
      <4>1. recorded' \subseteq Versions /\ recorded' \subseteq applied'
        BY <2>1, <2>2, <3>1
      <4>2. server' \in [Servers -> {"down", "check", "apply", "record", "serving"}]
        BY <2>2
      <4>3. idx[s] + 1 \in 1..(N + 1)
        BY <2>1
      <4>4. idx' \in [Servers -> 1..(N + 1)]
        BY <2>2, <4>3
      <4>5. QED
        BY <3>1, <4>1, <4>2, <4>4
    <3>4. PassedIsApplied'
      <4>1. \A t \in Servers : t # s => idx'[t] = idx[t] /\ server'[t] = server[t]
        BY <2>2
      <4>2. server'[s] = "check"
        BY <2>2
      <4>3. QED
        BY <3>1, <3>2, <4>1, <4>2
    <3>5. QED
      BY <3>3, <3>4
  <2>3. CASE server' = [server EXCEPT ![s] = "down"] /\ UNCHANGED <<recorded, idx>>
    BY <1>4, <2>3 DEF Record
  <2>4. QED
    BY <1>4, <2>2, <2>3 DEF Record
<1>5. CASE UNCHANGED migrateVars
  BY <1>5 DEF migrateVars
<1>6. QED
  BY <1>1, <1>2, <1>3, <1>4, <1>5 DEF MigrateNext, ServerStep, AllServe

(* The inductive invariant of start-up: a recorded migration is applied,    *)
(* and so is every one that a server has passed.                            *)
THEOREM MigrateInvariant == MigrateSpec => []MigrateInv
BY MigrateInitInv, MigrateStepInv, PTL DEF MigrateSpec

(* A server that serves has passed every migration. *)
LEMMA MigrateInvServes == MigrateInv => ServesWithSchema
<1> SUFFICES ASSUME MigrateInv, NEW s \in Servers, server[s] = "serving" PROVE applied = Versions
  BY DEF ServesWithSchema
<1>1. \A i \in Versions : i < N + 1 /\ i < idx[s]
  BY MigrateAssumption DEF MigrateInv, PassedIsApplied, Versions
<1>2. \A i \in Versions : i \in applied
  BY <1>1 DEF MigrateInv, PassedIsApplied
<1>3. applied \subseteq Versions
  BY DEF MigrateInv, MigrateTypeOK
<1> QED
  BY <1>2, <1>3

(* main serves requests only with the whole schema (migrate.go:39-67).      *)
THEOREM MigrateServesWithSchema == MigrateSpec => []ServesWithSchema
BY MigrateInvServes, MigrateInvariant, PTL

-----------------------------------------------------------------------------
Settled == RequestsInv /\ DeletionIsFinal

USE AccountsAssumption

(* The rows that are inserted and written are rows.                        *)
LEMMA NewRowIsRow == \A u \in Users, role \in Roles : NewRow(u, role) \in Rows
BY DEF NewRow, Rows

(* A row with some of its columns replaced is a row.                       *)
LEMMA ChangedIsRow == \A q \in Updates : row[q] \in Rows => Changed(q) \in Rows
BY DEF Changed, Rows, SetTo

(* An empty database and no request.                                       *)
LEMMA AccountsInitSettled == Init => Settled
<1> SUFFICES ASSUME Init PROVE Settled
  OBVIOUS
<1>1. MigrateInv
  BY MigrateInitInv DEF Init
<1>2. AccountsTypeOK
  <2>1. uncounted \in BOOLEAN
    BY Zenon DEF Init
  <2> QED
    BY <2>1 DEF Init, AccountsTypeOK, TablesTypeOK, LocalsTypeOK, HistoryTypeOK, Roles
<1>3. RequestsHaveSchema /\ RequestsAreWhole /\ DeletionIsFinal
  BY DEF Init, RequestsHaveSchema, InFlight, RequestsAreWhole, DeletionIsFinal, Present, Requests
<1> QED
  BY <1>1, <1>2, <1>3 DEF Settled, RequestsInv

(* Steps of requests leave the servers alone, but for the count of faults. *)
LEMMA SchemaStays ==
    ASSUME MigrateInv, UNCHANGED <<applied, recorded, server, idx>>, faults' \in 0..MaxFaults
    PROVE  MigrateInv'
BY DEF MigrateInv, MigrateTypeOK, RecordedIsApplied, PassedIsApplied

(* Where a server serves the tables are there, before a step               *)
LEMMA ServingHasSchema == MigrateInv /\ Serving => applied = Versions
BY MigrateInvServes DEF Serving, ServesWithSchema

(* and after it.                                                           *)
LEMMA ServingHasSchemaNext == MigrateInv' /\ Serving' => applied' = Versions
<1>1. (MigrateInv /\ Serving => applied = Versions)'
  BY ServingHasSchema, PTL
<1> QED
  BY <1>1 DEF Versions

(* What a step of a request has to keep, if it leaves the servers alone    *)
(* and no request begins without one that serves.                          *)
LEMMA SchemaSettled ==
    ASSUME Settled, UNCHANGED <<applied, recorded, server, idx>>, faults' \in 0..MaxFaults,
           \A r \in Requests : InFlight(r)' => InFlight(r) \/ Serving
    PROVE  MigrateInv' /\ RequestsHaveSchema'
<1>1. MigrateInv'
  BY SchemaStays DEF Settled, RequestsInv
<1>2. Serving' <=> Serving
  BY DEF Serving
<1>3. \A r \in Requests : InFlight(r)' => Serving /\ applied = Versions
  BY ServingHasSchema DEF Settled, RequestsInv, RequestsHaveSchema
<1>4. RequestsHaveSchema'
  BY <1>2, <1>3 DEF RequestsHaveSchema
<1> QED
  BY <1>1, <1>4

(* The steps of a registration.                                            *)
LEMMA RegisterSettled ==
    ASSUME Settled, NEW r \in Users, RegisterLooksUp(r) \/ RegisterCounts(r) \/ RegisterInserts(r)
    PROVE  Settled'
<1> USE DEF Settled, RequestsInv, tables, locals, history, migrateVars, AccountsTypeOK
<1>1. CASE RegisterLooksUp(r)
  <2> USE <1>1 DEF RegisterLooksUp, Begins
  <2>1. AccountsTypeOK'
    <3>1. TablesTypeOK'
      BY DEF TablesTypeOK
    <3>2. LocalsTypeOK'
      BY DEF TablesTypeOK, LocalsTypeOK, HistoryTypeOK, Present, Roles
    <3>3. HistoryTypeOK'
      BY DEF HistoryTypeOK, Present
    <3> QED
      BY <3>1, <3>2, <3>3
  <2>2. MigrateInv' /\ RequestsHaveSchema'
    BY SchemaSettled DEF LocalsTypeOK, InFlight, MigrateInv, MigrateTypeOK, Requests
  <2>3. RequestsAreWhole'
    BY DEF RequestsAreWhole, TablesTypeOK, LocalsTypeOK, HistoryTypeOK, Present, Requests
  <2>4. DeletionIsFinal'
    BY DEF DeletionIsFinal, RequestsAreWhole, TablesTypeOK, LocalsTypeOK, HistoryTypeOK, Present, Requests
  <2> QED
    BY <2>1, <2>2, <2>3, <2>4
<1>2. CASE RegisterCounts(r)
  <2> USE <1>2 DEF RegisterCounts, Continues
  <2>0. faults' \in 0..MaxFaults
    BY MigrateAssumption DEF MigrateInv, MigrateTypeOK, migrateVars
  <2>1. AccountsTypeOK'
    <3>1. TablesTypeOK'
      BY <2>0 DEF TablesTypeOK, LocalsTypeOK, HistoryTypeOK, Present, Roles
    <3>2. LocalsTypeOK'
      BY <2>0 DEF TablesTypeOK, LocalsTypeOK, HistoryTypeOK, Present, Roles
    <3>3. HistoryTypeOK'
      BY <2>0 DEF TablesTypeOK, LocalsTypeOK, HistoryTypeOK, Present, Roles
    <3> QED
      BY <3>1, <3>2, <3>3
  <2>2. MigrateInv' /\ RequestsHaveSchema'
    BY <2>0, SchemaSettled DEF LocalsTypeOK, InFlight, MigrateInv, MigrateTypeOK, Requests
  <2>3. RequestsAreWhole'
    BY <2>0 DEF RequestsAreWhole, TablesTypeOK, LocalsTypeOK, HistoryTypeOK, Present, Requests
  <2>4. DeletionIsFinal'
    BY <2>0 DEF DeletionIsFinal, RequestsAreWhole, TablesTypeOK, LocalsTypeOK, HistoryTypeOK, Present, Requests
  <2> QED
    BY <2>1, <2>2, <2>3, <2>4
<1>3. CASE RegisterInserts(r)
  <2> USE <1>3 DEF RegisterInserts, Ends, Continues
  <2>1. AccountsTypeOK'
    <3>1. TablesTypeOK'
      BY NewRowIsRow DEF TablesTypeOK, LocalsTypeOK, HistoryTypeOK, Present, Roles
    <3>2. LocalsTypeOK'
      BY DEF LocalsTypeOK, Roles
    <3>3. HistoryTypeOK'
      BY DEF HistoryTypeOK
    <3> QED
      BY <3>1, <3>2, <3>3
  <2>2. MigrateInv' /\ RequestsHaveSchema'
    BY SchemaSettled DEF LocalsTypeOK, InFlight, MigrateInv, MigrateTypeOK, Requests
  <2>3. RequestsAreWhole'
    BY NewRowIsRow DEF RequestsAreWhole, TablesTypeOK, LocalsTypeOK, HistoryTypeOK, Present, Requests
  <2>4. DeletionIsFinal'
    BY NewRowIsRow DEF DeletionIsFinal, RequestsAreWhole, TablesTypeOK, LocalsTypeOK, HistoryTypeOK, Present, Requests
  <2> QED
    BY <2>1, <2>2, <2>3, <2>4
<1> QED
  BY <1>1, <1>2, <1>3

(* The steps of an update: one that comes too late finds no row.            *)
LEMMA UpdateSettled ==
    ASSUME Settled, NEW q \in Updates, UpdateReads(q) \/ UpdateWrites(q)
    PROVE  Settled'
<1> USE DEF Settled, RequestsInv, tables, locals, history, migrateVars, AccountsTypeOK
<1>1. CASE UpdateReads(q)
  <2> USE <1>1 DEF UpdateReads, Begins
  <2>1. AccountsTypeOK'
    <3>1. TablesTypeOK'
      BY DEF TablesTypeOK
    <3>2. LocalsTypeOK'
      BY DEF TablesTypeOK, LocalsTypeOK, HistoryTypeOK, Present, Roles
    <3>3. HistoryTypeOK'
      BY DEF HistoryTypeOK, Present
    <3> QED
      BY <3>1, <3>2, <3>3
  <2>2. MigrateInv' /\ RequestsHaveSchema'
    BY SchemaSettled DEF LocalsTypeOK, InFlight, MigrateInv, MigrateTypeOK, Requests
  <2>3. RequestsAreWhole'
    BY DEF RequestsAreWhole, TablesTypeOK, LocalsTypeOK, HistoryTypeOK, Present, Requests
  <2>4. DeletionIsFinal'
    BY DEF DeletionIsFinal, RequestsAreWhole, TablesTypeOK, LocalsTypeOK, HistoryTypeOK, Present, Requests
  <2> QED
    BY <2>1, <2>2, <2>3, <2>4
<1>2. CASE UpdateWrites(q)
  <2> USE <1>2 DEF UpdateWrites, Writes, Ends, Continues
  <2>1. Changed(q) \in Rows /\ Target[q] \in Users /\ Append(commits, q) \in Seq(Updates)
    BY ChangedIsRow DEF RequestsAreWhole, LocalsTypeOK, HistoryTypeOK
  <2>2. /\ acl' = acl /\ audit' = audit
        /\ \/ users' = users
           \/ Target[q] \in Present /\ users' = [users EXCEPT ![Target[q]] = Changed(q)]
    OBVIOUS
  <2>3. users' \in [Users -> Rows \cup {NoRow}] /\ \A u \in Users : users'[u] = NoRow <=> users[u] = NoRow
    <3>1. users \in [Users -> Rows \cup {NoRow}] /\ NoRow \notin Rows
      BY DEF TablesTypeOK
    <3> HIDE <1>2
    <3> QED
      BY <2>1, <2>2, <3>1 DEF Present
  <2>4. AccountsTypeOK'
    <3>1. TablesTypeOK'
      BY <2>2, <2>3 DEF TablesTypeOK
    <3>2. LocalsTypeOK'
      BY <2>1 DEF TablesTypeOK, LocalsTypeOK, HistoryTypeOK, Present, Roles
    <3>3. HistoryTypeOK'
      BY <2>1 DEF TablesTypeOK, LocalsTypeOK, HistoryTypeOK, Present, Roles
    <3> QED
      BY <3>1, <3>2, <3>3
  <2>5. MigrateInv' /\ RequestsHaveSchema'
    BY <2>1, SchemaSettled DEF LocalsTypeOK, InFlight, MigrateInv, MigrateTypeOK, Requests
  <2>6. RequestsAreWhole'
    BY <2>2, <2>3 DEF RequestsAreWhole, TablesTypeOK, LocalsTypeOK, HistoryTypeOK, Present, Requests
  <2>7. DeletionIsFinal'
    BY <2>2, <2>3 DEF DeletionIsFinal, RequestsAreWhole, TablesTypeOK, LocalsTypeOK, HistoryTypeOK, Present, Requests
  <2> QED
    BY <2>4, <2>5, <2>6, <2>7
<1> QED
  BY <1>1, <1>2

(* The steps of an operation.                                              *)
LEMMA UseSettled ==
    ASSUME Settled, NEW o \in Uses, LogOperation(o) \/ \E t \in tokens : UseAdmitted(o, t)
    PROVE  Settled'
<1> USE DEF Settled, RequestsInv, tables, locals, history, migrateVars, AccountsTypeOK
<1>1. CASE LogOperation(o)
  <2> USE <1>1 DEF LogOperation, Ends, Continues
  <2>0. claims[o] \in Claims /\ claims[o].uid \in Users
    BY DEF RequestsAreWhole, LocalsTypeOK, Claims
  <2>1. AccountsTypeOK'
    <3>1. TablesTypeOK'
      BY <2>0 DEF TablesTypeOK, LocalsTypeOK, HistoryTypeOK, Present, Roles
    <3>2. LocalsTypeOK'
      BY <2>0 DEF TablesTypeOK, LocalsTypeOK, HistoryTypeOK, Present, Roles
    <3>3. HistoryTypeOK'
      BY <2>0 DEF TablesTypeOK, LocalsTypeOK, HistoryTypeOK, Present, Roles
    <3> QED
      BY <3>1, <3>2, <3>3
  <2>2. MigrateInv' /\ RequestsHaveSchema'
    BY <2>0, SchemaSettled DEF LocalsTypeOK, InFlight, MigrateInv, MigrateTypeOK, Requests
  <2>3. RequestsAreWhole'
    BY <2>0 DEF RequestsAreWhole, TablesTypeOK, LocalsTypeOK, HistoryTypeOK, Present, Requests
  <2>4. DeletionIsFinal'
    BY <2>0 DEF DeletionIsFinal, RequestsAreWhole, TablesTypeOK, LocalsTypeOK, HistoryTypeOK, Present, Requests
  <2> QED
    BY <2>1, <2>2, <2>3, <2>4
<1>2. ASSUME NEW t \in tokens, UseAdmitted(o, t) PROVE Settled'
  <2> USE <1>2 DEF UseAdmitted, Begins
  <2>1. AccountsTypeOK'
    <3>1. TablesTypeOK'
      BY DEF TablesTypeOK
    <3>2. LocalsTypeOK'
      BY DEF TablesTypeOK, LocalsTypeOK, HistoryTypeOK, Present, Roles
    <3>3. HistoryTypeOK'
      BY DEF HistoryTypeOK, Present
    <3> QED
      BY <3>1, <3>2, <3>3
  <2>2. MigrateInv' /\ RequestsHaveSchema'
    BY SchemaSettled DEF LocalsTypeOK, InFlight, MigrateInv, MigrateTypeOK, Requests
  <2>3. RequestsAreWhole'
    BY DEF RequestsAreWhole, TablesTypeOK, LocalsTypeOK, HistoryTypeOK, Present, Requests
  <2>4. DeletionIsFinal'
    BY DEF DeletionIsFinal, RequestsAreWhole, TablesTypeOK, LocalsTypeOK, HistoryTypeOK, Present, Requests
  <2> QED
    BY <2>1, <2>2, <2>3, <2>4
<1> QED
  BY <1>1, <1>2

(* The requests of one statement.                                          *)
LEMMA CallSettled ==
    ASSUME Settled, NEW u \in Users,
           \/ UserDelete(u) \/ Revoke(u) \/ Login(u) \/ Refresh(u)
           \/ \E role \in Roles : UserCreate(u, role)
           \/ \E role \in {"operator", "viewer"} : Grant(u, role)
    PROVE  Settled'
<1> USE DEF Settled, RequestsInv, tables, locals, history, migrateVars, AccountsTypeOK
<1>1. ASSUME NEW role \in Roles, UserCreate(u, role) PROVE Settled'
  <2> USE <1>1 DEF UserCreate, Call
  <2>1. AccountsTypeOK'
    <3>1. TablesTypeOK'
      BY NewRowIsRow DEF TablesTypeOK, LocalsTypeOK, HistoryTypeOK, Present, Roles
    <3>2. LocalsTypeOK'
      <4>1. pc' \in [Requests -> {"idle", "count", "insert", "write", "audit", "done"}]
        BY DEF LocalsTypeOK
      <4>2. calls' \in 0..MaxCalls
        BY DEF LocalsTypeOK
      <4> QED
        BY <4>1, <4>2 DEF LocalsTypeOK
    <3>3. HistoryTypeOK'
      BY DEF HistoryTypeOK
    <3> QED
      BY <3>1, <3>2, <3>3
  <2>2. MigrateInv' /\ RequestsHaveSchema'
    BY SchemaSettled DEF LocalsTypeOK, InFlight, MigrateInv, MigrateTypeOK, Requests
  <2>3. RequestsAreWhole'
    BY NewRowIsRow DEF RequestsAreWhole, TablesTypeOK, LocalsTypeOK, HistoryTypeOK, Present, Requests
  <2>4. DeletionIsFinal'
    BY NewRowIsRow DEF DeletionIsFinal, RequestsAreWhole, TablesTypeOK, LocalsTypeOK, HistoryTypeOK, Present, Requests
  <2> QED
    BY <2>1, <2>2, <2>3, <2>4
<1>2. CASE UserDelete(u)
  <2> USE <1>2 DEF UserDelete, Call
  <2>1. AccountsTypeOK'
    BY DEF TablesTypeOK, LocalsTypeOK, HistoryTypeOK
  <2>2. MigrateInv' /\ RequestsHaveSchema'
    BY SchemaSettled DEF LocalsTypeOK, InFlight, MigrateInv, MigrateTypeOK, Requests
  <2>3. RequestsAreWhole'
    BY DEF RequestsAreWhole, TablesTypeOK, LocalsTypeOK, HistoryTypeOK, Present, Requests
  <2>4. DeletionIsFinal'
    BY DEF DeletionIsFinal, RequestsAreWhole, TablesTypeOK, LocalsTypeOK, HistoryTypeOK, Present, Requests
  <2> QED
    BY <2>1, <2>2, <2>3, <2>4
<1>3. ASSUME NEW role \in {"operator", "viewer"}, Grant(u, role) PROVE Settled'
  <2> USE <1>3 DEF Grant, Call, Grants, Claims
  <2>1. AccountsTypeOK'
    BY DEF TablesTypeOK, LocalsTypeOK, HistoryTypeOK
  <2>2. MigrateInv' /\ RequestsHaveSchema'
    BY SchemaSettled DEF LocalsTypeOK, InFlight, MigrateInv, MigrateTypeOK, Requests
  <2>3. RequestsAreWhole'
    BY DEF RequestsAreWhole, TablesTypeOK, LocalsTypeOK, HistoryTypeOK, Present, Requests
  <2>4. DeletionIsFinal'
    BY DEF DeletionIsFinal, RequestsAreWhole, TablesTypeOK, LocalsTypeOK, HistoryTypeOK, Present, Requests
  <2> QED
    BY <2>1, <2>2, <2>3, <2>4
<1>4. CASE Revoke(u)
  <2> USE <1>4 DEF Revoke, Call
  <2>1. AccountsTypeOK'
    BY DEF TablesTypeOK, LocalsTypeOK, HistoryTypeOK
  <2>2. MigrateInv' /\ RequestsHaveSchema'
    BY SchemaSettled DEF LocalsTypeOK, InFlight, MigrateInv, MigrateTypeOK, Requests
  <2>3. RequestsAreWhole'
    BY DEF RequestsAreWhole, TablesTypeOK, LocalsTypeOK, HistoryTypeOK, Present, Requests
  <2>4. DeletionIsFinal'
    BY DEF DeletionIsFinal, RequestsAreWhole, TablesTypeOK, LocalsTypeOK, HistoryTypeOK, Present, Requests
  <2> QED
    BY <2>1, <2>2, <2>3, <2>4
<1>5. CASE Login(u) \/ Refresh(u)
  <2> USE <1>5 DEF Login, Refresh, Call, GenerateTokenPair, Claims, Rows
  <2>1. AccountsTypeOK'
    <3>1. TablesTypeOK'
      BY DEF TablesTypeOK
    <3>2. LocalsTypeOK'
      <4>1. users[u] \in Rows
        BY DEF TablesTypeOK, Present
      <4>2. tokens' \subseteq Claims
        BY <4>1 DEF LocalsTypeOK
      <4> QED
        BY <4>2 DEF LocalsTypeOK
    <3>3. HistoryTypeOK'
      BY DEF HistoryTypeOK, Present
    <3> QED
      BY <3>1, <3>2, <3>3
  <2>2. MigrateInv' /\ RequestsHaveSchema'
    BY SchemaSettled DEF LocalsTypeOK, InFlight, MigrateInv, MigrateTypeOK, Requests
  <2>3. RequestsAreWhole'
    BY DEF RequestsAreWhole, TablesTypeOK, LocalsTypeOK, HistoryTypeOK, Present, Requests
  <2>4. DeletionIsFinal'
    BY DEF DeletionIsFinal, RequestsAreWhole, TablesTypeOK, LocalsTypeOK, HistoryTypeOK, Present, Requests
  <2> QED
    BY <2>1, <2>2, <2>3, <2>4
<1> QED
  BY <1>1, <1>2, <1>3, <1>4, <1>5

(* A server that migrates takes no request from another, and one that dies *)
(* takes those that ran on it along.                                       *)
LEMMA ServersSettled ==
    ASSUME Settled, NEW s \in Servers, Migrates(s) \/ Dies(s)
    PROVE  Settled'
<1> USE DEF Settled, RequestsInv
<1>1. MigrateInv'
  BY MigrateStepInv DEF Migrates, Dies, MigrateNext
<1>2. CASE Migrates(s)
  <2> USE <1>2 DEF Migrates, accountVars, tables, locals, history
  <2>1. AccountsTypeOK' /\ RequestsAreWhole' /\ DeletionIsFinal'
    BY DEF AccountsTypeOK, TablesTypeOK, LocalsTypeOK, HistoryTypeOK, RequestsAreWhole, DeletionIsFinal, Present
  <2>2. Serving => Serving'
    BY DEF Serving, ServerStep, Start, Check, Apply, Record, MigrateInv, MigrateTypeOK
  <2>3. RequestsHaveSchema'
    BY <1>1, <2>2, ServingHasSchema, ServingHasSchemaNext DEF RequestsHaveSchema, InFlight
  <2> QED
    BY <1>1, <2>1, <2>3
<1>3. CASE Dies(s)
  <2> USE <1>3 DEF Dies, tables
  <2>1. AccountsTypeOK'
    BY DEF AccountsTypeOK, TablesTypeOK, LocalsTypeOK, HistoryTypeOK, Roles
  <2>2. RequestsAreWhole' /\ DeletionIsFinal'
    BY DEF AccountsTypeOK, TablesTypeOK, LocalsTypeOK, HistoryTypeOK, RequestsAreWhole, DeletionIsFinal,
           Present, Requests
  <2>3. \A r \in Requests : InFlight(r)' => Serving'
    BY DEF InFlight, Serving, RequestsHaveSchema
  <2>4. RequestsHaveSchema'
    BY <1>1, <2>3, ServingHasSchemaNext DEF RequestsHaveSchema
  <2> QED
    BY <1>1, <2>1, <2>2, <2>4
<1> QED
  BY <1>2, <1>3

(* Every step of the system keeps the invariant.                           *)
LEMMA AccountsStepSettled == Settled /\ [Next]_vars => Settled'
<1> SUFFICES ASSUME Settled, [Next]_vars PROVE Settled'
  OBVIOUS
<1>1. CASE UNCHANGED vars
  BY <1>1 DEF vars, migrateVars, accountVars, tables, locals, history, Settled, RequestsInv, AccountsTypeOK,
              TablesTypeOK, LocalsTypeOK, HistoryTypeOK,
              MigrateInv, MigrateTypeOK, RecordedIsApplied, PassedIsApplied, RequestsHaveSchema, InFlight,
              Serving, RequestsAreWhole, DeletionIsFinal, Present
<1>2. CASE RequestStep
  BY <1>2, RegisterSettled, UpdateSettled, UseSettled DEF RequestStep
<1>3. CASE CallStep
  BY <1>3, CallSettled DEF CallStep
<1>4. ASSUME NEW s \in Servers, Migrates(s) \/ Dies(s) PROVE Settled'
  BY <1>4, ServersSettled
<1> QED
  BY <1>1, <1>2, <1>3, <1>4 DEF Next, AllQuiet, AllServe, vars

-----------------------------------------------------------------------------
(* Who becomes an administrator.                                           *)

(* The invariants that the proofs below start from.                        *)
RolesBase == Settled /\ RolesInv

(* A step that changes no table, token or update, and keeps registrations, *)
(* keeps the roles.                                                        *)
LEMMA RolesStutter ==
    ASSUME RolesBase, UNCHANGED <<users, deleted, tokens, rank, before, uncounted, commits, row>>,
           \A r \in Users : pc'[r] = "insert" <=> pc[r] = "insert",
           \A q \in Updates : pc'[q] = "write" => pc[q] = "write"
    PROVE  RolesInv'
<1>1. Present' = Present /\ Ever' = Ever /\ (RolesKept' <=> RolesKept)
  BY DEF Present, Ever, RolesKept
<1>2. RegistrationRoles'
  BY <1>1 DEF RolesBase, RolesInv, RegistrationRoles
<1> QED
  BY <1>1, <1>2 DEF RolesBase, RolesInv

(* A registration decides by a count, and what it has counted is still     *)
(* there or deleted.                                                       *)
LEMMA RegisterRoles ==
    ASSUME RolesBase, NEW r \in Users, RegisterLooksUp(r) \/ RegisterCounts(r) \/ RegisterInserts(r)
    PROVE  RolesInv'
<1>0. /\ r \in Requests /\ pc \in [Requests -> {"idle", "count", "insert", "write", "audit", "done"}]
      /\ rank \in [Users -> Roles] /\ before \in [Users -> SUBSET Users]
      /\ users \in [Users -> Rows \cup {NoRow}]
      /\ Updates \subseteq Requests /\ Users \subseteq Requests
  BY DEF RolesBase, Settled, RequestsInv, AccountsTypeOK, TablesTypeOK, LocalsTypeOK, HistoryTypeOK, Requests
<1>1. CASE RegisterLooksUp(r)
  <2>1. /\ pc[r] = "idle" /\ pc' = [pc EXCEPT ![r] = "count"]
        /\ before' = [before EXCEPT ![r] = Present]
        /\ UNCHANGED <<users, deleted, tokens, rank, uncounted, commits, row>>
    BY <1>1 DEF RegisterLooksUp, Begins, tables
  <2>2. Present' = Present /\ Ever' = Ever /\ (RolesKept' <=> RolesKept) /\ Present \subseteq Ever
    BY <2>1 DEF Present, Ever, RolesKept
  <2>3. RegistrationRoles'
    BY <1>0, <2>1, <2>2 DEF RolesBase, RolesInv, RegistrationRoles
  <2> QED
    BY <1>0, <2>1, <2>2, <2>3 DEF RolesBase, RolesInv
<1>2. CASE RegisterCounts(r)
  <2>1. /\ pc[r] = "count" /\ pc' = [pc EXCEPT ![r] = "insert"]
        /\ UNCHANGED <<users, deleted, tokens, before, commits, row>>
        /\ \/ rank' = [rank EXCEPT ![r] = IF Present = {} THEN "admin" ELSE "viewer"] /\ uncounted' = uncounted
           \/ rank' = rank /\ uncounted' = TRUE
    BY <1>2 DEF RegisterCounts, Continues, tables
  <2>2. /\ Present' = Present /\ Ever' = Ever /\ (RolesKept' <=> RolesKept)
        /\ Present = {} => Ever = deleted
        /\ Present # {} => Ever # {}
    BY <2>1 DEF Present, Ever, RolesKept
  <2>3. RegistrationRoles'
    BY <1>0, <2>1, <2>2 DEF RolesBase, RolesInv, RegistrationRoles
  <2> QED
    BY <1>0, <2>1, <2>2, <2>3 DEF RolesBase, RolesInv
<1>3. CASE RegisterInserts(r)
  <2>1. /\ pc[r] = "insert" /\ pc' = [pc EXCEPT ![r] = "done"]
        /\ users' = users \/ users' = [users EXCEPT ![r] = NewRow(r, rank[r])]
        /\ rank' = [rank EXCEPT ![r] = "viewer"] /\ before' = [before EXCEPT ![r] = {}]
        /\ UNCHANGED <<deleted, tokens, uncounted, commits, row>>
    BY <1>3 DEF RegisterInserts, Ends, Continues
  <2>2. r \notin Ever
    BY <2>1 DEF RolesBase, Settled, RequestsInv, RequestsAreWhole, Ever
  <2>3. NewRow(r, rank[r]) \in Rows /\ NewRow(r, rank[r]).role = rank[r] /\ NoRow \notin Rows
    BY <1>0, NewRowIsRow DEF NewRow
  <2>4. /\ \A u \in Present : users'[u] = users[u]
        /\ Present \subseteq Present' /\ Present' \subseteq Present \cup {r}
        /\ r \in Present' => users'[r].role = rank[r]
    BY <1>0, <2>1, <2>2, <2>3 DEF Present, Ever
  <2>5. Ever \subseteq Ever' /\ (RolesKept' <=> RolesKept)
    BY <2>1, <2>4 DEF Ever, RolesKept
  <2>6. RegistrationRoles'
    <3>1. \A u \in Users : rank'[u] = "admin" => before'[u] \subseteq deleted'
      BY <1>0, <2>1 DEF RolesBase, RolesInv, RegistrationRoles
    <3>2. ASSUME Present' # {}, ~uncounted, deleted = {}, RolesKept
          PROVE  \E u \in Present' : users'[u].role = "admin"
      <4>1. CASE Present # {}
        BY <2>4, <3>2, <4>1 DEF RolesBase, RolesInv, RegistrationRoles
      <4>2. CASE Present = {}
        <5>1. Ever = {}
          BY <3>2, <4>2 DEF Ever
        <5>2. rank[r] = "admin"
          BY <2>1, <3>2, <5>1 DEF RolesBase, RolesInv
        <5> QED
          BY <2>4, <3>2, <4>2, <5>2
      <4> QED
        BY <4>1, <4>2
    <3> QED
      BY <2>1, <2>5, <3>1, <3>2 DEF RegistrationRoles
  <2>7. ASSUME NEW q \in Updates, pc'[q] = "write"
        PROVE  /\ Target[q] \in Ever'
               /\ Target[q] \in Present' /\ RolesKept' => row'[q].role = users'[Target[q]].role
    <3>1. pc[q] = "write" /\ Target[q] \in Ever /\ Target[q] # r
      BY <1>0, <2>1, <2>2, <2>7 DEF RolesBase, RolesInv
    <3> QED
      BY <2>1, <2>4, <2>5, <2>7, <3>1 DEF RolesBase, RolesInv
  <2>8. ASSUME NEW u \in Users
        PROVE  /\ before'[u] \subseteq Ever'
               /\ rank'[u] = "admin" => pc'[u] = "insert"
               /\ pc'[u] = "insert" /\ rank'[u] # "admin" => uncounted' \/ Ever' # {}
    BY <1>0, <2>1, <2>5 DEF RolesBase, RolesInv
  <2> QED
    BY <2>1, <2>5, <2>6, <2>7, <2>8 DEF RolesBase, RolesInv
<1> QED
  BY <1>1, <1>2, <1>3

(* What the list of commits is after one more.                             *)
LEMMA CommitAppended ==
    ASSUME commits \in Seq(Updates), NEW q \in Updates, commits' = Append(commits, q)
    PROVE  /\ Len(commits) \in Nat /\ Len(commits') = Len(commits) + 1
           /\ DOMAIN commits = 1..Len(commits)
           /\ DOMAIN commits' = 1..(Len(commits) + 1)
           /\ commits'[Len(commits) + 1] = q
           /\ \A i \in DOMAIN commits : i \in DOMAIN commits' /\ commits'[i] = commits[i]
OBVIOUS

(* An update that sets no role writes the role back that it had read,      *)
(* which is the user's unless another update set one.                      *)
LEMMA UpdateRoles ==
    ASSUME RolesBase, NEW q \in Updates, UpdateReads(q) \/ UpdateWrites(q)
    PROVE  RolesInv'
<1>0. /\ q \in Requests /\ pc \in [Requests -> {"idle", "count", "insert", "write", "audit", "done"}]
      /\ users \in [Users -> Rows \cup {NoRow}] /\ row \in [Updates -> Rows \cup {NoRow}]
      /\ commits \in Seq(Updates) /\ Target[q] \in Users /\ NoRow \notin Rows
      /\ Updates \subseteq Requests /\ Users \subseteq Requests
  BY DEF RolesBase, Settled, RequestsInv, AccountsTypeOK, TablesTypeOK, LocalsTypeOK, HistoryTypeOK, Requests
<1>1. CASE UpdateReads(q)
  <2>1. /\ pc[q] = "idle" /\ pc' = [pc EXCEPT ![q] = "write"] /\ Target[q] \in Present
        /\ row' = [row EXCEPT ![q] = users[Target[q]]]
        /\ UNCHANGED <<users, deleted, tokens, rank, before, uncounted, commits>>
    BY <1>1 DEF UpdateReads, Begins, tables
  <2>2. Present' = Present /\ Ever' = Ever /\ (RolesKept' <=> RolesKept) /\ Present \subseteq Ever
    BY <2>1 DEF Present, Ever, RolesKept
  <2>3. RegistrationRoles'
    BY <1>0, <2>1, <2>2 DEF RolesBase, RolesInv, RegistrationRoles
  <2> QED
    BY <1>0, <2>1, <2>2, <2>3 DEF RolesBase, RolesInv
<1>2. CASE UpdateWrites(q)
  <2>1. /\ pc[q] = "write" /\ pc' = [pc EXCEPT ![q] = "done"]
        /\ row' = [row EXCEPT ![q] = NoRow]
        /\ UNCHANGED <<deleted, tokens, rank, before, uncounted>>
        /\ \/ UNCHANGED <<users, commits>>
           \/ /\ Target[q] \in Present /\ users' = [users EXCEPT ![Target[q]] = Changed(q)]
              /\ commits' = Append(commits, q)
    BY <1>2 DEF UpdateWrites, Writes, Ends, Continues
  <2>2. Changed(q) \in Rows
    BY <1>0, <2>1, ChangedIsRow DEF RolesBase, Settled, RequestsInv, RequestsAreWhole
  <2>3. Present' = Present /\ Ever' = Ever
    BY <1>0, <2>1, <2>2 DEF Present, Ever
  <2>4. RolesKept' => RolesKept /\ \A u \in Present : users'[u].role = users[u].role
    <3>1. CASE UNCHANGED <<users, commits>>
      BY <3>1 DEF RolesKept
    <3>2. CASE /\ Target[q] \in Present /\ users' = [users EXCEPT ![Target[q]] = Changed(q)]
               /\ commits' = Append(commits, q)
      <4>1. RolesKept' => RolesKept /\ "role" \notin DOMAIN Fields[q]
        BY <1>0, <3>2, CommitAppended DEF RolesKept
      <4>2. "role" \notin DOMAIN Fields[q] => Changed(q).role = row[q].role
        BY DEF Changed
      <4>3. RolesKept => row[q].role = users[Target[q]].role
        BY <2>1, <3>2 DEF RolesBase, RolesInv
      <4> QED
        BY <1>0, <3>2, <4>1, <4>2, <4>3 DEF Present
    <3> QED
      BY <2>1, <3>1, <3>2
  <2>5. RegistrationRoles'
    BY <2>1, <2>3, <2>4 DEF RolesBase, RolesInv, RegistrationRoles
  <2>6. \A p \in Updates : pc'[p] = "write" => pc[p] = "write" /\ row'[p] = row[p]
    BY <1>0, <2>1
  <2>7. \A r \in Users : pc'[r] = "insert" <=> pc[r] = "insert"
    BY <1>0, <2>1
  <2> QED
    BY <2>1, <2>3, <2>4, <2>5, <2>6, <2>7 DEF RolesBase, RolesInv
<1> QED
  BY <1>1, <1>2

(* The requests of one statement: only a user can have a token, so an      *)
(* administrator's request does not come before the first user.            *)
LEMMA CallRoles ==
    ASSUME RolesBase, NEW u \in Users,
           \/ UserDelete(u) \/ Revoke(u) \/ Login(u) \/ Refresh(u)
           \/ \E role \in Roles : UserCreate(u, role)
           \/ \E role \in {"operator", "viewer"} : Grant(u, role)
    PROVE  RolesInv'
<1>0. /\ u \in Requests /\ pc \in [Requests -> {"idle", "count", "insert", "write", "audit", "done"}]
      /\ users \in [Users -> Rows \cup {NoRow}] /\ NoRow \notin Rows
      /\ Updates \subseteq Requests /\ Users \subseteq Requests
  BY DEF RolesBase, Settled, RequestsInv, AccountsTypeOK, TablesTypeOK, LocalsTypeOK, HistoryTypeOK, Requests
<1>1. ASSUME NEW role \in Roles, UserCreate(u, role) PROVE RolesInv'
  <2>1. /\ pc[u] = "idle" /\ pc' = [pc EXCEPT ![u] = "done"] /\ tokens # {}
        /\ users' = [users EXCEPT ![u] = NewRow(u, role)]
        /\ UNCHANGED <<deleted, tokens, rank, before, uncounted, commits, row>>
    BY <1>1 DEF UserCreate, history
  <2>2. u \notin Ever /\ Ever # {}
    BY <2>1 DEF RolesBase, RolesInv, Settled, RequestsInv, RequestsAreWhole, Ever
  <2>3. \A w \in Present : users'[w] = users[w] /\ w \in Present'
    BY <1>0, <2>1, <2>2 DEF Present, Ever
  <2>4. Present' \subseteq Present \cup {u}
    BY <1>0, <2>1 DEF Present
  <2>5. Ever \subseteq Ever' /\ (RolesKept' <=> RolesKept)
    BY <2>1, <2>3 DEF Ever, RolesKept
  <2>6. RegistrationRoles'
    <3>1. deleted = {} => Present # {}
      BY <2>2 DEF Ever
    <3> QED
      BY <2>1, <2>3, <2>5, <3>1 DEF RolesBase, RolesInv, RegistrationRoles
  <2>7. ASSUME NEW q \in Updates, pc'[q] = "write"
        PROVE  /\ Target[q] \in Ever'
               /\ Target[q] \in Present' /\ RolesKept' => row'[q].role = users'[Target[q]].role
    <3>1. pc[q] = "write" /\ Target[q] \in Ever /\ Target[q] # u
      BY <1>0, <2>1, <2>2, <2>7 DEF RolesBase, RolesInv
    <3> QED
      BY <2>1, <2>3, <2>4, <2>5, <3>1 DEF RolesBase, RolesInv
  <2>8. \A r \in Users : pc'[r] = "insert" <=> pc[r] = "insert"
    BY <1>0, <2>1
  <2> QED
    BY <2>1, <2>2, <2>5, <2>6, <2>7, <2>8 DEF RolesBase, RolesInv
<1>2. CASE UserDelete(u)
  <2>1. /\ u \in Present /\ users' = [users EXCEPT ![u] = NoRow] /\ deleted' = deleted \cup {u}
        /\ UNCHANGED <<pc, tokens, rank, before, uncounted, commits, row>>
    BY <1>2 DEF UserDelete, locals
  <2>2. Present' = Present \ {u} /\ Ever' = Ever /\ (RolesKept' <=> RolesKept)
    BY <1>0, <2>1 DEF Present, Ever, RolesKept
  <2>3. \A w \in Present' : users'[w] = users[w] /\ w \in Present
    BY <1>0, <2>1, <2>2 DEF Present
  <2>4. RegistrationRoles'
    BY <2>1 DEF RolesBase, RolesInv, RegistrationRoles
  <2> QED
    BY <2>1, <2>2, <2>3, <2>4 DEF RolesBase, RolesInv
<1>3. CASE Login(u) \/ Refresh(u)
  <2>1. /\ u \in Present
        /\ UNCHANGED <<pc, users, deleted, rank, before, uncounted, commits, row>>
    BY <1>3 DEF Login, Refresh, tables, locals, history
  <2>2. Present' = Present /\ Ever' = Ever /\ Ever # {} /\ (RolesKept' <=> RolesKept)
    BY <2>1 DEF Present, Ever, RolesKept
  <2>3. RegistrationRoles'
    BY <2>1, <2>2 DEF RolesBase, RolesInv, RegistrationRoles
  <2> QED
    BY <2>1, <2>2, <2>3 DEF RolesBase, RolesInv
<1>4. ASSUME Revoke(u) \/ \E role \in {"operator", "viewer"} : Grant(u, role) PROVE RolesInv'
  BY <1>4, RolesStutter DEF Revoke, Grant, locals, history
<1> QED
  BY <1>1, <1>2, <1>3, <1>4

(* What the other steps leave of the requests is what they were.           *)
LEMMA RolesStep == RolesBase /\ [Next]_vars => RolesInv'
<1> SUFFICES ASSUME RolesBase, [Next]_vars PROVE RolesInv'
  OBVIOUS
<1>0. pc \in [Requests -> {"idle", "count", "insert", "write", "audit", "done"}] /\ Uses \subseteq Requests
  BY DEF RolesBase, Settled, RequestsInv, AccountsTypeOK, LocalsTypeOK, Requests
<1>1. ASSUME NEW o \in Uses, LogOperation(o) \/ \E t \in tokens : UseAdmitted(o, t) PROVE RolesInv'
  <2>1. \/ pc[o] = "audit" /\ pc' = [pc EXCEPT ![o] = "done"]
        \/ pc[o] = "idle" /\ pc' = [pc EXCEPT ![o] = "audit"]
    BY <1>1 DEF LogOperation, UseAdmitted, Ends, Continues, Begins
  <2>2. /\ \A r \in Users : pc'[r] = "insert" <=> pc[r] = "insert"
        /\ \A q \in Updates : pc'[q] = "write" => pc[q] = "write"
    BY <1>0, <2>1 DEF Requests
  <2> QED
    BY <1>1, <2>2, RolesStutter DEF LogOperation, UseAdmitted, tables, history
<1>2. ASSUME NEW s \in Servers, Dies(s) PROVE RolesInv'
  <2>1. PICK lost \in SUBSET Requests :
          /\ pc' = [r \in Requests |-> IF r \in lost THEN "done" ELSE pc[r]]
          /\ row' = [q \in Updates |-> IF q \in lost THEN NoRow ELSE row[q]]
          /\ rank' = [r \in Users |-> IF r \in lost THEN "viewer" ELSE rank[r]]
          /\ before' = [r \in Users |-> IF r \in lost THEN {} ELSE before[r]]
    BY <1>2 DEF Dies
  <2>2. UNCHANGED <<users, deleted, tokens, uncounted, commits>>
    BY <1>2 DEF Dies, tables
  <2>3. Present' = Present /\ Ever' = Ever /\ (RolesKept' <=> RolesKept)
    BY <2>2 DEF Present, Ever, RolesKept
  <2>4. RegistrationRoles'
    BY <2>1, <2>2, <2>3 DEF RolesBase, RolesInv, RegistrationRoles
  <2> QED
    BY <1>0, <2>1, <2>2, <2>3, <2>4 DEF RolesBase, RolesInv, Requests
<1>3. CASE UNCHANGED accountVars
  BY <1>3, RolesStutter DEF accountVars, tables, locals, history
<1>4. CASE RequestStep
  BY <1>1, <1>4, RegisterRoles, UpdateRoles DEF RequestStep
<1>5. CASE CallStep
  BY <1>5, CallRoles DEF CallStep
<1> QED
  BY <1>2, <1>3, <1>4, <1>5 DEF Next, AllQuiet, Migrates, vars

-----------------------------------------------------------------------------
(* What becomes of an update.                                              *)

(* A step that is not an update's: the users that stay keep their rows.    *)
LEMMA UpdatesKept ==
    ASSUME Settled, UpdatesInv, UNCHANGED <<commits, overlap>>, Ever \subseteq Ever',
           \A u \in Ever : u \in Present' => u \in Present /\ users'[u] = users[u],
           \A q \in Updates : pc'[q] = "write" => pc[q] = "write" /\ row'[q] = row[q]
    PROVE  UpdatesInv'
<1> USE DEF Superseded
<1>1. UpdatesStick'
  BY DEF UpdatesInv, UpdatesStick
<1> QED
  BY <1>1 DEF UpdatesInv

(* An update begins: the row that it reads is the one that UpdatesStick is *)
(* about, and it runs at the same time as those under way.                 *)
LEMMA UpdateReadsKeeps ==
    ASSUME Settled, UpdatesInv, NEW q \in Updates, UpdateReads(q)
    PROVE  UpdatesInv'
<1> USE DEF Superseded
<1>0. /\ q \in Requests /\ pc \in [Requests -> {"idle", "count", "insert", "write", "audit", "done"}]
      /\ row \in [Updates -> Rows \cup {NoRow}] /\ Updates \subseteq Requests
  BY DEF Settled, RequestsInv, AccountsTypeOK, LocalsTypeOK, Requests
<1>1. /\ pc[q] = "idle" /\ pc' = [pc EXCEPT ![q] = "write"] /\ Target[q] \in Present
      /\ row' = [row EXCEPT ![q] = users[Target[q]]]
      /\ UNCHANGED <<users, deleted, commits>>
      /\ overlap' = overlap \cup {<<q, o>> : o \in {o \in Updates : InFlight(o)}}
                            \cup {<<o, q>> : o \in {o \in Updates : InFlight(o)}}
  BY DEF UpdateReads, Begins, tables
<1>2. /\ overlap \subseteq overlap'
      /\ \A o \in Updates : pc[o] = "write" => <<q, o>> \in overlap' /\ <<o, q>> \in overlap'
  BY <1>1 DEF InFlight
<1>3. Present' = Present /\ Ever' = Ever
  BY <1>1 DEF Present, Ever
<1>4. UpdatesStick'
  BY <1>1, <1>2, <1>3 DEF UpdatesInv, UpdatesStick
<1>5. \A p, o \in Updates : pc'[p] = "write" /\ pc'[o] = "write" /\ p # o => <<p, o>> \in overlap'
  BY <1>0, <1>1, <1>2 DEF UpdatesInv
<1>6. ASSUME NEW p \in Updates, NEW i \in DOMAIN commits, pc'[p] = "write",
             Target[commits[i]] = Target[p], <<commits[i], p>> \notin overlap',
             NEW f \in DOMAIN Fields[commits[i]]
      PROVE  row'[p][f] = Fields[commits[i]][f] \/ Superseded(i, f)
  <2>1. CASE p = q
    <3>1. row'[p] = users[Target[commits[i]]] /\ Target[commits[i]] \in Present
      BY <1>0, <1>1, <1>6, <2>1
    <3> HIDE DEF Superseded
    <3>2. users[Target[commits[i]]][f] = Fields[commits[i]][f] \/ Superseded(i, f)
      BY <1>6, <3>1 DEF UpdatesInv, UpdatesStick
    <3> QED
      BY <3>1, <3>2
  <2>2. CASE p # q
    <3>1. pc[p] = "write" /\ row'[p] = row[p] /\ <<commits[i], p>> \notin overlap
      BY <1>0, <1>1, <1>2, <1>6, <2>2
    <3> QED
      BY <1>6, <3>1 DEF UpdatesInv
  <2> QED
    BY <2>1, <2>2
<1>7. \A i \in DOMAIN commits : \A f : Superseded(i, f) => Superseded(i, f)'
  BY <1>1, <1>2
<1>8. \A p \in Updates, i \in DOMAIN commits :
          pc'[p] = "write" /\ Target[commits[i]] = Target[p] /\ <<commits[i], p>> \notin overlap' =>
              \A f \in DOMAIN Fields[commits[i]] : row'[p][f] = Fields[commits[i]][f] \/ Superseded(i, f)'
  BY <1>6, <1>7
<1>9. \A i \in DOMAIN commits : Target[commits[i]] \in Ever
  BY DEF UpdatesInv
<1> HIDE DEF Superseded
<1> QED
  BY <1>1, <1>3, <1>4, <1>5, <1>8, <1>9 DEF UpdatesInv

(* The columns of the row that an update writes.                           *)
LEMMA ChangedFields ==
    ASSUME NEW q \in Updates, NEW f \in {"name", "email", "role"}
    PROVE  Changed(q)[f] = IF f \in DOMAIN Fields[q] THEN Fields[q][f] ELSE row[q][f]
<1>1. CASE f = "name"
  BY <1>1 DEF Changed
<1>2. CASE f = "email"
  BY <1>2 DEF Changed
<1>3. CASE f = "role"
  BY <1>3 DEF Changed
<1> QED
  BY <1>1, <1>2, <1>3

(* An update writes: it sets its own fields, and the others to what it had *)
(* read, which earlier updates had set unless they ran at the same time.   *)
LEMMA UpdateWritesKeeps ==
    ASSUME Settled, UpdatesInv, NEW q \in Updates, UpdateWrites(q)
    PROVE  UpdatesInv'
<1>0. /\ q \in Requests /\ pc \in [Requests -> {"idle", "count", "insert", "write", "audit", "done"}]
      /\ users \in [Users -> Rows \cup {NoRow}] /\ row \in [Updates -> Rows \cup {NoRow}]
      /\ commits \in Seq(Updates) /\ Target[q] \in Users /\ NoRow \notin Rows
      /\ Updates \subseteq Requests
  BY DEF Settled, RequestsInv, AccountsTypeOK, TablesTypeOK, LocalsTypeOK, HistoryTypeOK, Requests
<1>1. /\ pc[q] = "write" /\ pc' = [pc EXCEPT ![q] = "done"]
      /\ row' = [row EXCEPT ![q] = NoRow]
      /\ UNCHANGED <<deleted, overlap>>
  BY DEF UpdateWrites, Writes, Ends, Continues
<1>2. Changed(q) \in Rows
  BY <1>0, <1>1, ChangedIsRow DEF Settled, RequestsInv, RequestsAreWhole
<1>3. \A p \in Updates : pc'[p] = "write" => p # q /\ pc[p] = "write" /\ row'[p] = row[p]
  BY <1>0, <1>1
<1>4. CASE UNCHANGED <<users, commits>>
  <2>1. Present' = Present /\ Ever' = Ever
    BY <1>1, <1>4 DEF Present, Ever
  <2> QED
    BY <1>1, <1>3, <1>4, <2>1, UpdatesKept
<1>5. CASE /\ Target[q] \in Present /\ users' = [users EXCEPT ![Target[q]] = Changed(q)]
           /\ commits' = Append(commits, q)
  <2>1. /\ Len(commits) \in Nat /\ Len(commits') = Len(commits) + 1
        /\ DOMAIN commits = 1..Len(commits)
        /\ DOMAIN commits' = 1..(Len(commits) + 1)
        /\ commits'[Len(commits) + 1] = q
        /\ \A i \in DOMAIN commits : i \in DOMAIN commits' /\ commits'[i] = commits[i]
    BY <1>0, <1>5, CommitAppended
  <2>2. Present' = Present /\ Ever' = Ever /\ Present \subseteq Ever
    BY <1>0, <1>1, <1>2, <1>5 DEF Present, Ever
  <2>3. \A i \in DOMAIN commits' : i \in DOMAIN commits \/ i = Len(commits) + 1
    BY <2>1
  <2>4. \A i \in DOMAIN commits : commits[i] \in Updates
    BY <1>0
  <2>5. ASSUME NEW i \in DOMAIN commits, NEW f, Superseded(i, f) PROVE Superseded(i, f)'
    <3>1. PICK j \in (i + 1)..Len(commits) :
            /\ Target[commits[j]] = Target[commits[i]]
            /\ f \in DOMAIN Fields[commits[j]] \/ <<commits[i], commits[j]>> \in overlap
      BY <2>5 DEF Superseded
    <3>2. j \in DOMAIN commits /\ j \in (i + 1)..Len(commits')
      BY <2>1, <3>1
    <3> QED
      BY <1>1, <2>1, <3>1, <3>2 DEF Superseded
  <2>6. \A i \in DOMAIN commits : \A f :
            /\ Target[q] = Target[commits[i]]
            /\ f \in DOMAIN Fields[q] \/ <<commits[i], q>> \in overlap
            => Superseded(i, f)'
    BY <1>1, <2>1 DEF Superseded
  <2>7. UpdatesStick'
    <3>1. SUFFICES ASSUME NEW i \in DOMAIN commits', Target[commits'[i]] \in Present,
                          NEW f \in DOMAIN Fields[commits'[i]]
                   PROVE  users'[Target[commits'[i]]][f] = Fields[commits'[i]][f] \/ Superseded(i, f)'
      BY <2>2 DEF UpdatesStick
    <3>2. CASE i = Len(commits) + 1
      <4>1. commits'[i] = q /\ f \in DOMAIN Fields[q] /\ f \in {"name", "email", "role"}
        BY <2>1, <3>1, <3>2, FieldsAssumption
      <4>2. users'[Target[q]] = Changed(q)
        BY <1>0, <1>5
      <4>3. Changed(q)[f] = Fields[q][f]
        BY <4>1, ChangedFields
      <4> QED
        BY <4>1, <4>2, <4>3
    <3>3. CASE i \in DOMAIN commits
      <4>1. /\ commits'[i] = commits[i] /\ commits[i] \in Updates
            /\ f \in DOMAIN Fields[commits[i]] /\ f \in {"name", "email", "role"}
        BY <2>1, <2>4, <3>1, <3>3, FieldsAssumption
      <4>2. users[Target[commits[i]]][f] = Fields[commits[i]][f] \/ Superseded(i, f)
        BY <3>1, <3>3, <4>1 DEF UpdatesInv, UpdatesStick
      <4>3. CASE Target[commits[i]] # Target[q]
        <5>1. users'[Target[commits[i]]] = users[Target[commits[i]]]
          BY <1>0, <1>5, <3>1, <4>1, <4>3 DEF Present
        <5> QED
          BY <2>5, <3>3, <4>1, <4>2, <5>1
      <4>4. CASE /\ Target[commits[i]] = Target[q]
                 /\ f \in DOMAIN Fields[q] \/ <<commits[i], q>> \in overlap
        BY <2>6, <3>3, <4>4
      <4>5. CASE /\ Target[commits[i]] = Target[q]
                 /\ f \notin DOMAIN Fields[q] /\ <<commits[i], q>> \notin overlap
        <5>1. row[q][f] = Fields[commits[i]][f] \/ Superseded(i, f)
          BY <1>1, <3>3, <4>1, <4>5 DEF UpdatesInv
        <5>2. Changed(q)[f] = row[q][f]
          BY <4>1, <4>5, ChangedFields
        <5>3. users'[Target[commits[i]]] = Changed(q)
          BY <1>0, <1>5, <4>5
        <5> QED
          BY <2>5, <3>3, <4>1, <5>1, <5>2, <5>3
      <4> QED
        BY <4>3, <4>4, <4>5
    <3> QED
      BY <2>3, <3>2, <3>3
  <2>8. \A i \in DOMAIN commits' : Target[commits'[i]] \in Ever
    BY <1>5, <2>1, <2>2, <2>3 DEF UpdatesInv
  <2>9. \A p, o \in Updates : pc'[p] = "write" /\ pc'[o] = "write" /\ p # o => <<p, o>> \in overlap
    BY <1>3 DEF UpdatesInv
  <2>10. ASSUME NEW p \in Updates, NEW i \in DOMAIN commits', pc'[p] = "write",
                Target[commits'[i]] = Target[p], <<commits'[i], p>> \notin overlap,
                NEW f \in DOMAIN Fields[commits'[i]]
         PROVE  row'[p][f] = Fields[commits'[i]][f] \/ Superseded(i, f)'
    <3>1. pc[p] = "write" /\ row'[p] = row[p] /\ <<q, p>> \in overlap
      BY <1>1, <1>3, <2>10 DEF UpdatesInv
    <3>2. i \in DOMAIN commits /\ commits'[i] = commits[i]
      BY <2>1, <2>3, <2>10, <3>1
    <3>3. row[p][f] = Fields[commits[i]][f] \/ Superseded(i, f)
      BY <2>10, <3>1, <3>2 DEF UpdatesInv
    <3> QED
      BY <2>5, <3>1, <3>2, <3>3
  <2> QED
    BY <1>1, <2>2, <2>7, <2>8, <2>9, <2>10 DEF UpdatesInv
<1> QED
  BY <1>4, <1>5 DEF UpdateWrites, Writes

(* Every step keeps the invariant of the updates.                          *)
LEMMA UpdatesStep == Settled /\ UpdatesInv /\ [Next]_vars => UpdatesInv'
<1> SUFFICES ASSUME Settled, UpdatesInv, [Next]_vars PROVE UpdatesInv'
  OBVIOUS
<1>0. /\ pc \in [Requests -> {"idle", "count", "insert", "write", "audit", "done"}]
      /\ Updates \subseteq Requests /\ Users \subseteq Requests /\ Uses \subseteq Requests
      /\ users \in [Users -> Rows \cup {NoRow}] /\ rank \in [Users -> Roles] /\ NoRow \notin Rows
      /\ \A u \in Ever : u \in Users /\ pc[u] = "done"
      /\ \A u \in deleted : users[u] = NoRow
  BY DEF Settled, RequestsInv, RequestsAreWhole, AccountsTypeOK, LocalsTypeOK, TablesTypeOK, HistoryTypeOK,
         Requests, Ever, Present, DeletionIsFinal
<1>1. ASSUME UNCHANGED <<users, deleted, commits, overlap, row>>,
             \A q \in Updates : pc'[q] = "write" => pc[q] = "write"
      PROVE  UpdatesInv'
  <2>1. Present' = Present /\ Ever' = Ever
    BY <1>1 DEF Present, Ever
  <2> QED
    BY <1>1, <2>1, <1>0, UpdatesKept DEF Ever, Present
<1>2. ASSUME NEW u \in Users \ Ever, NEW new \in Rows, users' = users \/ users' = [users EXCEPT ![u] = new],
             UNCHANGED <<deleted, commits, overlap, row>>,
             \A q \in Updates : pc'[q] = "write" => pc[q] = "write"
      PROVE  UpdatesInv'
  <2>1. \A w \in Ever : users'[w] = users[w]
    BY <1>0, <1>2
  <2>2. Ever \subseteq Ever'
    BY <1>0, <1>2, <2>1 DEF Ever, Present
  <2>3. \A w \in Ever : w \in Present' => w \in Present /\ users'[w] = users[w]
    BY <1>0, <2>1 DEF Present
  <2> QED
    BY <1>2, <2>2, <2>3, UpdatesKept
<1>3. ASSUME NEW r \in Users, RegisterLooksUp(r) \/ RegisterCounts(r) PROVE UpdatesInv'
  <2>1. \A q \in Updates : pc'[q] = "write" => pc[q] = "write"
    BY <1>0, <1>3 DEF RegisterLooksUp, RegisterCounts, Begins, Continues
  <2> QED
    BY <1>1, <1>3, <2>1 DEF RegisterLooksUp, RegisterCounts, tables
<1>4. ASSUME NEW r \in Users, RegisterInserts(r) PROVE UpdatesInv'
  <2>1. pc[r] = "insert" /\ pc' = [pc EXCEPT ![r] = "done"] /\ UNCHANGED <<deleted, commits, overlap, row>>
    BY <1>4 DEF RegisterInserts, Ends, Continues
  <2>2. r \notin Ever /\ \A q \in Updates : pc'[q] = "write" => pc[q] = "write"
    BY <1>0, <2>1
  <2>3. NewRow(r, rank[r]) \in Rows /\ (users' = users \/ users' = [users EXCEPT ![r] = NewRow(r, rank[r])])
    BY <1>0, <1>4, NewRowIsRow DEF RegisterInserts
  <2> QED
    BY <1>2, <2>1, <2>2, <2>3
<1>5. ASSUME NEW u \in Users, NEW role \in Roles, UserCreate(u, role) PROVE UpdatesInv'
  <2>1. pc[u] = "idle" /\ pc' = [pc EXCEPT ![u] = "done"] /\ UNCHANGED <<deleted, commits, overlap, row>>
    BY <1>5 DEF UserCreate, history
  <2>2. u \notin Ever /\ \A q \in Updates : pc'[q] = "write" => pc[q] = "write"
    BY <1>0, <2>1
  <2>3. NewRow(u, role) \in Rows /\ users' = [users EXCEPT ![u] = NewRow(u, role)]
    BY <1>5, NewRowIsRow DEF UserCreate
  <2> QED
    BY <1>2, <2>1, <2>2, <2>3
<1>6. ASSUME NEW u \in Users, UserDelete(u) PROVE UpdatesInv'
  <2>1. /\ u \in Present /\ users' = [users EXCEPT ![u] = NoRow] /\ deleted' = deleted \cup {u}
        /\ UNCHANGED <<pc, commits, overlap, row>>
    BY <1>6 DEF UserDelete, locals
  <2>2. Present' = Present \ {u} /\ Ever' = Ever
    BY <1>0, <2>1 DEF Present, Ever
  <2>3. \A w \in Ever : w \in Present' => w \in Present /\ users'[w] = users[w]
    BY <1>0, <2>1, <2>2 DEF Present
  <2> QED
    BY <2>1, <2>2, <2>3, UpdatesKept
<1>7. ASSUME NEW u \in Users, Revoke(u) \/ Login(u) \/ Refresh(u) \/ \E role \in {"operator", "viewer"} : Grant(u, role)
      PROVE  UpdatesInv'
  BY <1>1, <1>7 DEF Revoke, Login, Refresh, Grant, tables, locals, history
<1>8. ASSUME NEW o \in Uses, LogOperation(o) \/ \E t \in tokens : UseAdmitted(o, t) PROVE UpdatesInv'
  <2>1. \A q \in Updates : pc'[q] = "write" => pc[q] = "write"
    BY <1>0, <1>8 DEF LogOperation, UseAdmitted, Ends, Continues, Begins
  <2> QED
    BY <1>1, <1>8, <2>1 DEF LogOperation, UseAdmitted, tables, history
<1>9. ASSUME NEW s \in Servers, Dies(s) PROVE UpdatesInv'
  <2>1. PICK lost \in SUBSET Requests :
          /\ pc' = [r \in Requests |-> IF r \in lost THEN "done" ELSE pc[r]]
          /\ row' = [q \in Updates |-> IF q \in lost THEN NoRow ELSE row[q]]
    BY <1>9 DEF Dies
  <2>2. UNCHANGED <<users, deleted, commits, overlap>>
    BY <1>9 DEF Dies, tables
  <2>3. \A q \in Updates : pc'[q] = "write" => pc[q] = "write" /\ row'[q] = row[q]
    BY <1>0, <2>1
  <2>4. Present' = Present /\ Ever' = Ever
    BY <2>2 DEF Present, Ever
  <2> QED
    BY <2>2, <2>3, <2>4, UpdatesKept
<1>10. CASE UNCHANGED accountVars
  BY <1>1, <1>10 DEF accountVars, tables, locals, history
<1>11. CASE RequestStep
  BY <1>3, <1>4, <1>8, <1>11, UpdateReadsKeeps, UpdateWritesKeeps DEF RequestStep
<1>12. CASE CallStep
  BY <1>5, <1>6, <1>7, <1>12 DEF CallStep
<1> QED
  BY <1>9, <1>10, <1>11, <1>12 DEF Next, AllQuiet, Migrates, vars

-----------------------------------------------------------------------------
(* The initial state satisfies the parts about roles and updates.           *)
LEMMA AccountsInitRest == Init => RolesInv /\ UpdatesInv
BY DEF Init, RolesInv, RegistrationRoles, RolesKept, Ever, Present, UpdatesInv, UpdatesStick, Requests

(* The inductive invariant of the composition: a request runs only while   *)
(* some server serves, on the whole schema, whatever servers die and start *)
(* (migrate.go:14-69), and what it has read is true or known to be         *)
(* outdated.                                                               *)
THEOREM AccountsInvariant == Spec => []AccountsInv
<1>1. Init => AccountsInv /\ Settled
  BY AccountsInitSettled, AccountsInitRest DEF AccountsInv, Settled
<1>2. AccountsInv /\ Settled /\ [Next]_vars => (AccountsInv /\ Settled)'
  BY AccountsStepSettled, RolesStep, UpdatesStep DEF AccountsInv, Settled, RolesBase
<1> QED
  BY <1>1, <1>2, PTL DEF Spec

(* A registration makes an administrator only if all users that it found   *)
(* are deleted, and while counts succeed and nobody is deleted or given    *)
(* another role, a table with users has an administrator                   *)
(* (auth_handler.go:117-139).                                              *)
THEOREM AccountsRegistrationRoles == Spec => []RegistrationRoles
<1>1. AccountsInv => RegistrationRoles
  BY DEF AccountsInv, RolesInv
<1> QED
  BY AccountsInvariant, <1>1, PTL

(* What an update has set stays until another update sets it or one that   *)
(* ran at the same time writes back what it had read                       *)
(* (user_handler.go:76-102).                                               *)
THEOREM AccountsUpdatesStick == Spec => []UpdatesStick
<1>1. AccountsInv => UpdatesStick
  BY DEF AccountsInv, UpdatesInv
<1> QED
  BY AccountsInvariant, <1>1, PTL

(* A deleted user stays deleted whatever request was under way, and no row *)
(* refers to it (user_repo.go:96-107).                                     *)
THEOREM AccountsDeletionIsFinal == Spec => []DeletionIsFinal
<1>1. Settled => DeletionIsFinal
  BY DEF Settled
<1> QED
  BY AccountsInitSettled, AccountsStepSettled, <1>1, PTL DEF Spec
=============================================================================
