------------------------------ MODULE Accounts ------------------------------
(***************************************************************************)
(* Users, grants, tokens and the audit table: the handlers auth_handler,   *)
(* user_handler and acl_handler of internal/api/handlers with              *)
(* acl_middleware, internal/auth and the repositories of internal/store.   *)
(* A handler runs one SQL statement after the other without a transaction  *)
(* around them, so those of other requests come in between.  The servers   *)
(* and the schema are those of Migrate: a request runs on a server that    *)
(* serves and is lost when that server dies.  PostgreSQL is external and   *)
(* modelled by the constraints of the two migrations.                      *)
(***************************************************************************)
EXTENDS Migrate, Sequences

CONSTANTS
    Users,                      \* the requests that make a user, and the users' IDs
    Name, Email,                \* what these ask for
    Updates, Target, Fields,    \* requests of user_handler.Update, their user, what they set
    Uses,                       \* requests for an operation on the project
    NoRow,                      \* no row, no user
    MaxCalls                    \* bound: requests of one statement

Requests == Users \cup Updates \cup Uses
Roles == {"admin", "operator", "viewer"}
SetTo(f) == {Fields[q][f] : q \in {r \in Updates : f \in DOMAIN Fields[r]}}
Rows == [name : {Name[u] : u \in Users} \cup SetTo("name"),
         email : {Email[u] : u \in Users} \cup SetTo("email"),
         role : Roles]
Grants == [role : {"operator", "viewer"}, by : Users]
Claims == [uid : Users, role : Roles]

ASSUME AccountsAssumption ==
    /\ MaxCalls \in Nat /\ Target \in [Updates -> Users]
    /\ SetTo("role") \subseteq Roles
    /\ NoRow \notin Rows \cup Grants \cup Claims \cup Users
    /\ "none" \notin Users \cup {NoRow}

ASSUME FieldsAssumption == \A q \in Updates : DOMAIN Fields[q] \subseteq {"name", "email", "role"}

VARIABLES
    users,      \* the table users
    acl,        \* project_acl, for one project
    audit,      \* audit_log: the user_id of the row of each operation
    tokens,     \* the claims of the tokens that were issued
    pc,         \* the next statement of each request
    row,        \* the row that an update read
    claims,     \* the claims that a request carries or will get
    rank,       \* the role that a registration has decided on
    calls

tables == <<users, acl, audit>>
locals == <<pc, row, claims, rank>>

VARIABLES
    deleted,    \* history: users that were deleted
    before,     \* history: rows that a registration found when it began
    uncounted,  \* history: some registration could not count the users
    commits,    \* history: the updates that took effect, in order
    overlap,    \* history: pairs of updates that ran at the same time
    logged      \* history: operations whose audit row was inserted

history == <<deleted, before, uncounted, commits, overlap, logged>>
accountVars == <<tables, tokens, locals, calls, history>>
vars == <<migrateVars, accountVars>>

InFlight(r) == pc[r] \notin {"idle", "done"}
Present == {u \in Users : users[u] # NoRow}
Admin(t) == t.role = "admin"

TablesTypeOK ==
    /\ users \in [Users -> Rows \cup {NoRow}]
    /\ acl \in [Users -> Grants \cup {NoRow}]
    /\ audit \in [Uses -> Users \cup {NoRow, "none"}]

LocalsTypeOK ==
    /\ tokens \subseteq Claims
    /\ pc \in [Requests -> {"idle", "count", "insert", "write", "audit", "done"}]
    /\ row \in [Updates -> Rows \cup {NoRow}]
    /\ claims \in [Uses -> Claims \cup {NoRow}]
    /\ rank \in [Users -> Roles]
    /\ calls \in 0..MaxCalls

HistoryTypeOK ==
    /\ deleted \subseteq Users /\ before \in [Users -> SUBSET Users]
    /\ uncounted \in BOOLEAN
    /\ commits \in Seq(Updates) /\ overlap \subseteq Updates \X Updates
    /\ logged \subseteq Uses

AccountsTypeOK == TablesTypeOK /\ LocalsTypeOK /\ HistoryTypeOK

Init ==
    /\ MigrateInit
    /\ users = [u \in Users |-> NoRow] /\ acl = [u \in Users |-> NoRow]
    /\ audit = [o \in Uses |-> "none"]
    /\ tokens = {}
    /\ pc = [r \in Requests |-> "idle"]
    /\ row = [q \in Updates |-> NoRow]
    /\ claims = [r \in Uses |-> NoRow]
    /\ rank = [r \in Users |-> "viewer"]
    /\ calls = 0
    /\ deleted = {} /\ before = [r \in Users |-> {}]
    /\ uncounted = FALSE
    /\ commits = <<>> /\ overlap = {} /\ logged = {}

-----------------------------------------------------------------------------
(* A request goes to a server that serves.  One that is refused changes    *)
(* nothing and is left out.                                                *)

Serving == \E s \in Servers : server[s] = "serving"
Begins(r, next) == pc[r] = "idle" /\ Serving /\ pc' = [pc EXCEPT ![r] = next]
Continues(r, from, next) == pc[r] = from /\ pc' = [pc EXCEPT ![r] = next]
Ends(r, from) == Continues(r, from, "done")

(* The unique columns of the table, and the rows that it would collide with. *)
Collides(u, new) ==
    \E w \in Present \ {u} : users[w].name = new.name \/ users[w].email = new.email

NewRow(u, role) == [name |-> Name[u], email |-> Email[u], role |-> role]

-----------------------------------------------------------------------------
(* Register: three statements.                                             *)

(* GetByUsername; a name that is taken is answered with 409.               *)
RegisterLooksUp(r) ==
    /\ Begins(r, "count")
    /\ \A w \in Present : users[w].name # Name[r]
    /\ before' = [before EXCEPT ![r] = Present]
    /\ UNCHANGED <<migrateVars, tables, tokens, row, claims, rank, calls,
                   deleted, uncounted, commits, overlap, logged>>

(* Mutant: a count that failed is taken for zero.                          *)
RegisterCountsAnyway(r) ==
    /\ Continues(r, "count", "insert")
    /\ \/ /\ rank' = [rank EXCEPT ![r] = IF Present = {} THEN "admin" ELSE "viewer"]
          /\ UNCHANGED <<faults, uncounted>>
       \/ /\ faults < MaxFaults /\ faults' = faults + 1
          /\ rank' = [rank EXCEPT ![r] = "admin"]
          /\ uncounted' = TRUE
    /\ UNCHANGED <<applied, recorded, server, idx, tables, tokens, row, claims, calls,
                   deleted, before, commits, overlap, logged>>

(* Count: the first user becomes an administrator.  If the statement fails *)
(* the user is a viewer.                                                   *)
RegisterCounts(r) ==
    /\ Continues(r, "count", "insert")
    /\ \/ /\ rank' = [rank EXCEPT ![r] = IF Present = {} THEN "admin" ELSE "viewer"]
          /\ UNCHANGED <<faults, uncounted>>
       \/ /\ faults < MaxFaults /\ faults' = faults + 1
          /\ uncounted' = TRUE
          /\ UNCHANGED rank
    /\ UNCHANGED <<applied, recorded, server, idx, tables, tokens, row, claims, calls,
                   deleted, before, commits, overlap, logged>>

(* Create: the row is inserted unless its name or email is taken by now.   *)
RegisterInserts(r) ==
    /\ Ends(r, "insert")
    /\ users' = IF Collides(r, NewRow(r, rank[r])) THEN users
                ELSE [users EXCEPT ![r] = NewRow(r, rank[r])]
    /\ rank' = [rank EXCEPT ![r] = "viewer"] /\ before' = [before EXCEPT ![r] = {}]
    /\ UNCHANGED <<migrateVars, acl, audit, tokens, row, claims, calls,
                   deleted, uncounted, commits, overlap, logged>>

-----------------------------------------------------------------------------
(* The handlers of one statement; RequireRole looks at the claims only.    *)

Call ==
    /\ calls < MaxCalls /\ calls' = calls + 1
    /\ Serving

(* user_handler.Create, with the role of the request.                      *)
UserCreate(u, role) ==
    /\ Call /\ \E t \in tokens : Admin(t)
    /\ ~Collides(u, NewRow(u, role))
    /\ pc[u] = "idle" /\ pc' = [pc EXCEPT ![u] = "done"]
    /\ users' = [users EXCEPT ![u] = NewRow(u, role)]
    /\ UNCHANGED <<migrateVars, acl, audit, tokens, row, claims, rank, history>>

(* The grants of the user go with it, its audit rows lose their user_id,   *)
(* and a user whose grants to others stand is not deleted.                 *)
UserDelete(u) ==
    /\ Call /\ \E t \in tokens : Admin(t)
    /\ u \in Present
    /\ \A w \in Users \ {u} : acl[w] # NoRow => acl[w].by # u
    /\ users' = [users EXCEPT ![u] = NoRow]
    /\ acl' = [acl EXCEPT ![u] = NoRow]
    /\ audit' = [o \in Uses |-> IF audit[o] = u THEN NoRow ELSE audit[o]]
    /\ deleted' = deleted \cup {u}
    /\ UNCHANGED <<migrateVars, tokens, locals, before, uncounted, commits, overlap, logged>>

(* SetProjectACL, on behalf of the user of the claims.                     *)
Grant(u, role) ==
    /\ Call
    /\ \E t \in tokens : /\ Admin(t) /\ {u, t.uid} \subseteq Present
                         /\ acl' = [acl EXCEPT ![u] = [role |-> role, by |-> t.uid]]
    /\ UNCHANGED <<migrateVars, users, audit, tokens, locals, history>>

Revoke(u) ==
    /\ Call /\ \E t \in tokens : Admin(t)
    /\ acl[u] # NoRow
    /\ acl' = [acl EXCEPT ![u] = NoRow]
    /\ UNCHANGED <<migrateVars, users, audit, tokens, locals, history>>

-----------------------------------------------------------------------------
(* user_handler.Update: the row is read, changed and written back whole.   *)

UpdateReads(q) ==
    /\ Begins(q, "write")
    /\ Target[q] \in Present /\ \E t \in tokens : Admin(t)
    /\ row' = [row EXCEPT ![q] = users[Target[q]]]
    /\ overlap' = overlap \cup {<<q, o>> : o \in {o \in Updates : InFlight(o)}}
                          \cup {<<o, q>> : o \in {o \in Updates : InFlight(o)}}
    /\ UNCHANGED <<migrateVars, tables, tokens, claims, rank, calls,
                   deleted, before, uncounted, commits, logged>>

Changed(q) ==
    LET Set(f, old) == IF f \in DOMAIN Fields[q] THEN Fields[q][f] ELSE old
    IN  [name |-> Set("name", row[q].name), email |-> Set("email", row[q].email), role |-> Set("role", row[q].role)]

Writes(q, new) ==
    /\ Ends(q, "write")
    /\ users' = [users EXCEPT ![Target[q]] = new]
    /\ commits' = Append(commits, q)

(* Mutant: what the request does not set is written empty.                 *)
UpdateWritesBlank(q) ==
    /\ pc[q] = "write"
    /\ \/ /\ Target[q] \in Present
          /\ Writes(q, [Changed(q) EXCEPT !.role = IF "role" \in DOMAIN Fields[q] THEN @ ELSE "viewer"])
       \/ /\ Ends(q, "write") /\ Target[q] \notin Present
          /\ UNCHANGED <<users, commits>>
    /\ row' = [row EXCEPT ![q] = NoRow]
    /\ UNCHANGED <<migrateVars, acl, audit, tokens, claims, rank, calls,
                   deleted, before, uncounted, overlap, logged>>

(* Mutant: the row is inserted again if it is gone.                        *)
UpdateUpserts(q) ==
    /\ pc[q] = "write"
    /\ Writes(q, Changed(q))
    /\ row' = [row EXCEPT ![q] = NoRow]
    /\ UNCHANGED <<migrateVars, acl, audit, tokens, claims, rank, calls,
                   deleted, before, uncounted, overlap, logged>>

(* UPDATE ... WHERE id: the row may be gone by now, which is no error, or  *)
(* the name or email taken, which is one.                                  *)
UpdateWrites(q) ==
    /\ pc[q] = "write"
    /\ \/ /\ Target[q] \in Present /\ ~Collides(Target[q], Changed(q))
          /\ Writes(q, Changed(q))
       \/ /\ Ends(q, "write")
          /\ Target[q] \notin Present \/ Collides(Target[q], Changed(q))
          /\ UNCHANGED <<users, commits>>
    /\ row' = [row EXCEPT ![q] = NoRow]
    /\ UNCHANGED <<migrateVars, acl, audit, tokens, claims, rank, calls,
                   deleted, before, uncounted, overlap, logged>>

-----------------------------------------------------------------------------
(* Login and Refresh read the user in one statement and make a token pair  *)
(* with its role.                                                          *)

GenerateTokenPair(u) == tokens' = tokens \cup {[uid |-> u, role |-> users[u].role]}

Login(u) ==
    /\ Call /\ u \in Present
    /\ GenerateTokenPair(u)
    /\ UNCHANGED <<migrateVars, tables, locals, history>>

(* The refresh token of an earlier pair names the user, and is refused if  *)
(* the user is gone.                                                       *)
Refresh(u) ==
    /\ Call /\ u \in Present
    /\ \E t \in tokens : t.uid = u
    /\ GenerateTokenPair(u)
    /\ UNCHANGED <<migrateVars, tables, locals, history>>

-----------------------------------------------------------------------------
(* An operation on the project: the role of the claims needs the operate   *)
(* permission, and who is no administrator a grant that is not a viewer's. *)

HasPermission(t) == t.role \in {"admin", "operator"}

ProjectACLMiddleware(t) == Admin(t) \/ (acl[t.uid] # NoRow /\ acl[t.uid].role # "viewer")

UseAdmitted(o, t) ==
    /\ Begins(o, "audit")
    /\ ProjectACLMiddleware(t) /\ HasPermission(t)
    /\ claims' = [claims EXCEPT ![o] = t]
    /\ UNCHANGED <<migrateVars, tables, tokens, row, rank, calls, history>>

(* LogOperation at the end of the operation; without the user's row the    *)
(* insert fails, and the executor drops the error.                         *)
LogOperation(o) ==
    /\ Ends(o, "audit")
    /\ \/ /\ claims[o].uid \in Present
          /\ audit' = [audit EXCEPT ![o] = claims[o].uid]
          /\ logged' = logged \cup {o}
       \/ /\ claims[o].uid \notin Present
          /\ UNCHANGED <<audit, logged>>
    /\ claims' = [claims EXCEPT ![o] = NoRow]
    /\ UNCHANGED <<migrateVars, users, acl, tokens, row, rank, calls,
                   deleted, before, uncounted, commits, overlap>>

-----------------------------------------------------------------------------
(* The servers migrate, serve and die with what runs on them.              *)

Migrates(s) == ServerStep(s) /\ UNCHANGED accountVars

(* The requests that ran on it are lost, which are all if no other serves. *)
Dies(s) ==
    /\ Fault(s)
    /\ \E lost \in SUBSET {r \in Requests : InFlight(r)} :
          /\ server[s] # "serving" => lost = {}
          /\ (\A w \in Servers : server'[w] # "serving") => lost = {r \in Requests : InFlight(r)}
          /\ pc' = [r \in Requests |-> IF r \in lost THEN "done" ELSE pc[r]]
          /\ row' = [q \in Updates |-> IF q \in lost THEN NoRow ELSE row[q]]
          /\ claims' = [o \in Uses |-> IF o \in lost THEN NoRow ELSE claims[o]]
          /\ rank' = [r \in Users |-> IF r \in lost THEN "viewer" ELSE rank[r]]
          /\ before' = [r \in Users |-> IF r \in lost THEN {} ELSE before[r]]
    /\ UNCHANGED <<tables, tokens, calls, deleted, uncounted, commits, overlap, logged>>

RequestStep ==
    \/ \E r \in Users : RegisterLooksUp(r) \/ RegisterCounts(r) \/ RegisterInserts(r)
    \/ \E q \in Updates : UpdateReads(q) \/ UpdateWrites(q)
    \/ \E o \in Uses : LogOperation(o) \/ \E t \in tokens : UseAdmitted(o, t)

CallStep ==
    \E u \in Users :
        \/ UserDelete(u) \/ Revoke(u) \/ Login(u) \/ Refresh(u)
        \/ \E role \in Roles : UserCreate(u, role)
        \/ \E role \in {"operator", "viewer"} : Grant(u, role)

(* Nothing more comes in, and the servers serve.                           *)
AllQuiet == AllServe /\ UNCHANGED accountVars

Next ==
    \/ RequestStep \/ CallStep
    \/ \E s \in Servers : Migrates(s) \/ Dies(s)
    \/ AllQuiet

Spec == Init /\ [][Next]_vars
FairSpec == Spec /\ \A s \in Servers : WF_vars(Migrates(s))

-----------------------------------------------------------------------------
(* A request runs only while some server serves, and only with the whole   *)
(* schema, however the servers started and died (migrate.go:14-69).        *)
RequestsHaveSchema == \A r \in Requests : InFlight(r) => Serving /\ applied = Versions

(* A request has what it read, the users that there are or were came by a  *)
(* request that is over, and only users have grants.                       *)
RequestsAreWhole ==
    /\ \A q \in Updates : pc[q] = "write" => row[q] # NoRow
    /\ \A o \in Uses : pc[o] = "audit" => claims[o] # NoRow
    /\ \A u \in Present \cup deleted : pc[u] = "done"
    /\ \A u \in Users : acl[u] # NoRow => u \in Present

RequestsInv == AccountsTypeOK /\ MigrateInv /\ RequestsHaveSchema /\ RequestsAreWhole

(* The users that there are or were, and whether no update set a role.     *)
Ever == Present \cup deleted
RolesKept == \A i \in DOMAIN commits : "role" \notin DOMAIN Fields[commits[i]]

(* A registration makes an administrator only if the users that were there *)
(* when it began are all deleted: a second administrator takes two that    *)
(* overlap.  And as long as every count succeeded, nobody was deleted and  *)
(* no role updated, a table with users has an administrator                *)
(* (auth_handler.go:117-139).                                              *)
RegistrationRoles ==
    /\ \A r \in Users : rank[r] = "admin" => before[r] \subseteq deleted
    /\ Present # {} /\ ~uncounted /\ deleted = {} /\ RolesKept =>
          \E u \in Present : users[u].role = "admin"

(* Another update of the user came after the i-th one, and set f or ran at *)
(* the same time.                                                          *)
Superseded(i, f) ==
    \E j \in (i + 1)..Len(commits) :
        /\ Target[commits[j]] = Target[commits[i]]
        /\ f \in DOMAIN Fields[commits[j]] \/ <<commits[i], commits[j]>> \in overlap

(* A field that an update has set keeps its value until another update     *)
(* sets it, or one that ran at the same time writes back what it had read  *)
(* (user_handler.go:76-102).                                               *)
UpdatesStick ==
    \A i \in DOMAIN commits :
        LET q == commits[i] IN
        Target[q] \in Present => \A f \in DOMAIN Fields[q] :
            users[Target[q]][f] = Fields[q][f] \/ Superseded(i, f)

(* What makes RegistrationRoles inductive: what a request has found out is *)
(* true or outdated by a deletion, a failed count or an update of a role.  *)
RolesInv ==
    /\ RegistrationRoles
    /\ \A r \in Users :
          /\ before[r] \subseteq Ever
          /\ rank[r] = "admin" => pc[r] = "insert"
          /\ pc[r] = "insert" /\ rank[r] # "admin" => uncounted \/ Ever # {}
    /\ tokens # {} => Ever # {}
    /\ \A q \in Updates : pc[q] = "write" =>
          /\ Target[q] \in Ever
          /\ Target[q] \in Present /\ RolesKept => row[q].role = users[Target[q]].role

(* What makes UpdatesStick inductive: a row that waits to be written back  *)
(* has what earlier updates set, unless they ran at the same time.         *)
UpdatesInv ==
    /\ UpdatesStick
    /\ \A i \in DOMAIN commits : Target[commits[i]] \in Ever
    /\ \A p, q \in Updates :
          pc[p] = "write" /\ pc[q] = "write" /\ p # q => <<p, q>> \in overlap
    /\ \A p \in Updates, i \in DOMAIN commits :
          LET q == commits[i] IN
          pc[p] = "write" /\ Target[q] = Target[p] /\ <<q, p>> \notin overlap =>
              \A f \in DOMAIN Fields[q] : row[p][f] = Fields[q][f] \/ Superseded(i, f)

(* The inductive invariant of the composition.                             *)
AccountsInv == RequestsInv /\ RolesInv /\ UpdatesInv

(* A deleted user stays deleted, whatever was under way, and nothing       *)
(* refers to it; the operations it was recorded for are still recorded     *)
(* (user_repo.go:96-107, 001_initial.sql:17).                              *)
DeletionIsFinal ==
    /\ \A u \in deleted : users[u] = NoRow /\ acl[u] = NoRow
    /\ \A u \in Users : acl[u] # NoRow => acl[u].by \in Present
    /\ \A o \in Uses : audit[o] \in Users => audit[o] \in Present
    /\ \A o \in logged : audit[o] # "none"
=============================================================================
