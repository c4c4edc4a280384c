# Compose Cockpit in TLA+

Compose Cockpit is a Go server that finds Compose projects on disk, runs `up`, `down`, `stop`,
`start` and `restart` on them through the Docker API, and streams events, logs and statistics to
browsers over SSE.  The modules here model its concurrent and failure-prone parts, TLC checks
them on small instances, and TLAPS proves the central invariants for every value of the constants.
`PROJECT.json` maps each definition to the lines it models; paths below are relative to `src/`.

## 1. The system

| Component | State | Operations | Interacts with |
|---|---|---|---|
| Project lock, `internal/orchestrator/lock.go` | map project -> entry (holder, channel), a mutex | `Acquire`, `TryAcquire`, `IsLocked`, release function | called by the executor; waiters block on the entry's channel or their context |
| Priority queue, `orchestrator/queue.go` | heap, closed flag, mutex and condition variable | `Enqueue`, `Dequeue`, `TryDequeue`, `Remove`, `RemoveAndReturn`, `Close` | fed by handlers through `Submit`, drained by workers, searched by `Cancel` |
| Executor, `orchestrator/executor.go` | maps `running` and `cancelFns` (one mutex), history of 256 records (another) | `Submit`, `Execute`, `worker`, `executeQueued`, `run`, `Cancel`, `GetOperation` | lock, queue, project registry, Docker operations, audit table |
| Compose operations, `internal/docker/operations.go` | local lists of what was created; the daemon's networks, volumes, containers | `Up` with rollback, `Down`, `Stop`, `Start`, `Restart` | Docker daemon, which other projects use at the same time |
| SSE broker, `internal/sse/` | map key -> subscriber, closed flag, ID counter; a channel and a goroutine per subscriber | `Subscribe`, `Publish`, `Close`, `ServeSSE` | the streamer publishes; HTTP connections read; `main` closes it, twice |
| Event stream, `docker/streamer.go`, `docker/sdk_client.go` | two channels and a goroutine per connection | `StreamDockerEvents`, `Events` | Docker SDK; publishes to the broker |
| Log streams, `docker/streamer.go`, `api/handlers/events_handler.go` | a goroutine per client | `ServiceLogs`, `StreamProjectLogs`, `demuxDockerLogs` | Docker; publishes to the broker |
| Scanner, `internal/discovery/scanner.go` | inode numbers visited, projects found | `Scan`, `walk` | file system, while others change it; called by `TriggerScan` and at start |
| Migrations, `internal/store/migrate.go` | tables, `schema_migrations` | `AutoMigrate` | PostgreSQL; other servers on the same database |
| Project registry, `api/handlers/project_handler.go` | map of pointers to projects, a read-write mutex; the projects themselves, which no lock guards | `InitialScan`, `TriggerScan`, lists, `GetProjectDetail`, `GetProject` | scanner, parser, executor, Docker status |
| Compose parser, `internal/discovery/parser.go` | none that outlives a call | `Parse`: include, extends, merge, variables, env files | called for each directory that the scanner found |
| Accounts, `internal/auth`, `internal/store`, `api/handlers` | tables of users, grants and audit rows; tokens that clients hold | register, login, refresh, create, update and delete users, grant, revoke, check, audit | PostgreSQL, one statement after the other without a transaction; every request runs on a server that may die |
| Router, configuration, logging, statistics | none that outlives a request | | |

What is hard to test here: a lock whose waiters hold channels of entries that are gone; a condition
variable with one `Signal` per item; a cancel or a poll that looks under two mutexes while the
operation moves between them; timeouts and the server's stop at any step of an operation; a Docker
call that fails in the middle of `Up`, and the rollback after it, while another project uses the
same network; closing a subscriber's channel while publishers send; map keys that collide; a
connection that breaks with events still buffered; a crash between applying and recording a
migration; symbolic links, includes and `extends` that form loops; scans that overlap and a project
that is written to without a lock; handlers of several statements that interleave with others and
with a deletion of the row that they read.  `PROJECT.json` lists these under `hazards`, each at its
line, with the properties that are about it.

## 2. Modules

One module per component; `Executor` extends (composes) `ProjectLocker` and `PriorityQueue` and
uses their actions as its own, and implements `OpLifecycle`; `Accounts` extends `Migrate`, whose
servers its requests run on.  `MC*` modules only give constants
their values.  Definitions marked "Mutant" in their comment (`AcquireFreeUnguarded`,
`EnqueueWithoutSignal`, ...) are no part of any specification: each is a plausible mistake in the
code that makes a property fail, and shows that the property depends on the line in question.

**ProjectLocker.**  `locks` is the map, `closedCh` the closed channels, `acq` and `waitCh` the local
state of callers.  A channel is named by the operation whose entry made it, as an operation acquires
once and IDs are fresh.  `AcquireFree`, `AcquireBlock` and `TryAcquire` are critical sections of the
mutex, `AcquireWake` and `AcquireFail` the two sides of the select, `Release` the release function.

**PriorityQueue.**  `items` is the heap, `dq` where workers are, with `"waiting"` and `"woken"` for
`cond.Wait`.  `Stamp` is the read of the clock in `Submit`, outside the mutex; `Enqueue` pushes and
signals.  `container/heap` is external: it pops an item no other is `Less` than.

**OpLifecycle** is the abstract specification: an operation is `idle`, is given up or gets its
project to itself, executes once and finishes.  **Executor** refines it with `Stage` as the mapping.
`phase` follows an operation through `Submit` or `Execute`, `run` and back; `running` stands for
both maps, which the code writes together; `CancelLooks` ... `CancelMisses` and
`PollLooksInRunning`, `PollLooksInHistory` are the critical sections of `Cancel` and `GetOperation`,
so everything interleaves between them.  `Audit` means that `LogOperation` was called; `run` drops
an error of the insert.

**Operations.**  A project is the process, as the executor admits one operation per project (proved
in `ExecutorProofs`).  One action is one Docker call or one loop's end.  The daemon is external and
modelled by what the code relies on: names are taken, volumes are created idempotently, what is in
use cannot be removed, a container does not start without its network.  A call fails when its
context has ended or by a fault.  `prior`, `made` and `hindered` are history variables.

**SSEBroker.**  `subscribers` are the values of the map, `id` their keys, `chan` the channels,
`cleaner` the cleanup goroutines (delete under the lock, close outside), `conn` the `ServeSSE` loop.
`GenerateID` keeps the arithmetic of the key: seconds and the counter modulo `IdMod`.  `Close` does not
ask whether the broker is closed, and may be called `MaxCloses` times: `main` calls it before the server's
`Shutdown` and again as it returns.

**EventStream.**  `wire`, `hand`, `outCh`, `outErrCh` are where an event is between the SDK and the
streamer, per connection; `streamer` is the select loop with its pause.  **LogStream** reads frames
by byte positions, so that losing the frame boundary is possible in the model and not excluded by
its shape: after a frame above the limit the reader goes on inside the payload and may take any
bytes for a header.

**Scanner.**  The recursion is a stack of frames.  `fs` is any layout of `Layouts`; entries vanish
or are unreadable at any time; `lost`, `deep` and `unread` are ghosts that record what walk left out and
why.  What can be reached is the smallest set with the root that no other entry leaves (`Reachable`),
a definition that shares nothing with the walk.

**Migrate.**  A server checks, applies and records each version, and crashes or is refused between
any two statements; the second fails if the row exists, as the insert has no conflict clause.

**Accounts.**  `users`, `acl` and `audit` are the tables, with the unique columns, the cascade, the
`SET NULL` and the plain reference of the two migrations; `tokens` are the claims that were issued,
and a token that has expired is one that nobody uses.  Handlers of several statements are several
actions: `RegisterLooksUp`, `RegisterCounts`, `RegisterInserts`; `UpdateReads`, `UpdateWrites`;
`UseAdmitted` (token, role and grant of an operation) and `LogOperation` at its end.  The others are
one statement.  Servers are those of `Migrate`: a request begins where one serves, and `Dies` takes any
requests along that may have been on that server, all of them if it was the last.

**ProjectRegistry.**  `projects` is the map and `heap` the objects that it points to, named by the load
that parsed them, so that a request keeps an object that a scan has replaced.  A load looks at one
directory per step, takes the lock (`mu`), parses and installs; `GetProjectDetail` is a step for the
lookup, the call of Docker, the status, each service, and the answer.  `steady`, `owed` and `disturbed`
are history variables: what has not changed since a load began, since the load that made the map
began, and which requests shared their object.

**Parser.**  `stack` is the recursion of `resolveIncludes`, `chain` that of `resolveExtends`.  A service
has one field of each way of merging that `mergeService` has.  `Join` and `Dir` are parameters, so that
paths relative to an including file, to an extended file and to the project are told apart.  The
reference, from `At` to `Broken`, says what the files mean without any order of steps: a document for
every path of includes within the limit, in the order of the text, and for every service one list of
definitions, of which the later go over the earlier.

## 3. Runs

Passing runs:

| Run | Instance | Shows |
|---|---|---|
| `executor_queued` | 2 submitted operations, 2 workers, a cancel, timeouts, stop | one operation per project at Docker; removed requests never run; an operation's records agree; no waiter on a channel nobody will close; while a worker sleeps every item has a woken worker on its way; requests are not overtaken by later ones that are not above them; the invariant that the proofs use |
| `executor_mixed` | 1 submitted and 1 synchronous operation, 1 worker, a cancel and a poll, fair | the refinement with `Execute`, whose `IsLocked` test is stale; `GetOperation` misses no result; submitted operations are recorded unless the server stops; locks are released |
| `operations` | 2 projects of 2 services with the same network and volume, 2 operations of one beside 1 of the other, 1 fault, 1 crash, contexts that end | `Up` is all or nothing: one that is rolled back leaves nothing of its own, one that is cancelled none of its containers (its networks and volumes stay), unless a fault or another project's container hindered it, and one that reports success is up; it keeps older containers and starts dependencies first; nothing of the other project is touched |
| `broker` | 2 connections, 2 topics, colliding keys, 2 calls of `Close`, fair | no send on a closed channel; nothing but another shutdown event after a shutdown event; a client that leaves leaves nothing behind; `Close` ends the connections in its map |
| `scanner` | 5 directories in every tree shape, up to 2 links, depth limit 2 | each directory once, exactly those found that can be reached through what could be followed, depth exact; the invariant that the proofs use |
| `event_stream` | 4 events, 3 connections, capacity 2, fair | per topic in order and once; gaps only where a connection was lost; no forwarder of an earlier connection left; a lost connection is replaced; a stop ends the streamer |
| `log_stream` | 2 clients, logs of up to 3 frames, one with a frame that is too long, fair | what a goroutine publishes is the log, in order, each line once and without gaps; it ends with its client |
| `accounts` | 2 servers, 2 migrations, 1 fault, 2 people, 2 updates of one user, 1 operation, 3 requests of one statement, fair servers | requests run only with the whole schema; only overlapping first registrations make a second administrator, and the first user is one unless the count failed; an update is undone only by a later one of the field or by one that overlapped it; a deleted user stays deleted and nothing refers to it; in the end both servers serve |
| `registry` | 2 directories, 2 contents of compose files, 2 scans beside the initial one, 2 detail requests for one project of 2 services, 1 edit, 1 change of a container | the map agrees with the disk wherever that has not changed since the map's scan began; a request that shared its project with no other answers what Docker told it |
| `parser` | 2 compose files and a library: 3 x 3, 2 x 2 and 3 x 3 contents, or unreadable; limit 2, fair | `Parse` returns what the files mean or fails for a reason, whichever service it takes first; it always returns |

Runs that TLC refutes, each a disagreement between the code and what a comment in it says:

| Run | What the counterexample shows |
|---|---|
| `operations_reused_volume` | the rollback of a failed `Up` removes a volume that it was to reuse ("allow reuse", `operations.go:662`) |
| `broker_delivery` | a subscriber with room in its channel misses events because another one has its map key ("drop if subscriber is too slow", `broker.go:122`) |

Behaviours that the models have and that a user of the code should know, though no run is about them:

* `Cancel` answers "not found or already completed" for an operation that a worker has dequeued and that
  waits for the lock (`RunWaits`); the operation runs later.
* A synchronous operation that ends with an error of `executeOp` or `GetProject` has no record, and
  `GetOperation` does not find it afterwards.
* A service without networks is put into a default network that `Up` never creates
  (`ResolveNetworks`, `CanStart`): its container does not start and `Up` is rolled back.
* A cancelled `Up` takes back its containers and keeps the networks and volumes that it created
  (`UpCancelled`, `operations.go:167-172`).
* A full history drops its oldest record whether or not a client still polls it, and submitted operations
  take two places in it (`AddHistory`).  When the server stops, what is in the queue or was just dequeued
  is lost without a record (`WorkerDrops`).
* A client that is connected when `main` returns may get two shutdown events; one that subscribes after the
  first `Close` is neither told nor cancelled before the second (`Subscribe`, `Close`), so that the server's
  `Shutdown` waits for its timeout because of it.
* Events that were received before a connection broke are dropped if the error is selected first
  (`StreamerError`); `GapsOnlyBetweenConnections` allows for it.
* Each client of a service's log starts a reader that publishes to the topic all of them are on: with two
  clients each line arrives twice (`LogStream`'s `received` keeps the sender for this reason).  The reader is
  started before its client subscribes; what it publishes before is lost.
* Of two scans that overlap the one that takes the lock last makes the map, though it may have looked at
  the disk first; `RegistryMatchesDisk` counts from the beginning of the scan that made the map.
* A service whose container is gone keeps the state that an earlier detail request wrote
  (`DetailWritesStatus`), until the next scan.  Requests that share a project may answer a mixture of
  two snapshots; `disturbed` names them.
* Of two updates of one user that overlap one may undo what the other has set (`UpdateWrites`).
* Two first registrations that overlap may both become administrators, and a failed count makes the
  first user a viewer, after which nobody is an administrator (`RegisterCounts`).  A failed
  `GetByUsername` is answered like a name that is taken.
* An update of a user that was deleted in between succeeds and writes nothing (`UpdateWrites`).  A user
  who has granted something cannot be deleted (`UserDelete`).  The audit row of an operation whose
  user was deleted meanwhile is not written (`LogOperation`).  A token keeps its role after an update of
  the user, until it expires.
* An included file goes over the file that includes it.  Includes that form a circle are read up to the
  limit and merged that often, so that ports are appended several times; an `extends` that forms a
  circle fails the project.  `extends` without a file names a directory and fails it too.  The `extends`
  of a later file is ignored where an earlier one has defined the service, and paths of `extends` and
  `env_file` count from the project's directory even in an included file (`ExtendBegins`, `Finish`).

### Bounds

Bounds are constants and named so in their modules.  Two operations on one project show a release that
races with a wait and a retry, and two workers with a cancel a woken worker whose item is gone.
`MaxHistory` is 3 in place of 256 in `executor_queued`, so that the history drops
records, and 4 in `executor_mixed`, where `PollFindsResult` needs a history that has not dropped any.
The two requests of `executor_queued` have the same priority, so that their order depends on the stamps;
`NoOvertaking` for requests of different priorities rests on its proof.
`Capacity` 2 in place of 128 and `Cap` 2 in place of 64 make channels full after few events.  `IdMod` is 2 in place of 10: keys collide with two subscriptions and an event
between them, where the code needs ten uses of the counter in a second.  `HeaderLen` 2 in place of 8
and `MaxSize` 3 in place of 1 MiB keep all positions inside and between headers; `MaxGarbage` is
above `MaxSize`, so that misread sizes are accepted as well as refused.  Depth 2 with five
directories has directories above, at and below the limit, reached in two ways.  In `accounts` one
fault is a crash at any statement, a migration that is refused or a count that fails; two people
and three requests allow a user to be created, given a token, updated and deleted with an
operation under way.  In `registry` one edit, which removes, breaks or replaces the project or adds one, falls
before, between or after the looks of each scan, and two scans beside the initial one overlap in both orders.  `Limit` is 2 in place of 10 in `parser`; chains and circles of three
files reach, and go beyond, it.

Symmetry is used in `executor_queued`, among the workers, and in `registry`, among scans and among
detail requests; neither run has a liveness property.  The modules have an explicit final stuttering step for the state in which all is done, so
that TLC checks that they stop nowhere else.

### Fairness

Weak fairness is assumed of goroutines that can run, one action group per goroutine: Go's scheduler
preempts and runs every runnable goroutine.  Nothing is assumed of clients, of contexts ending, of
faults or of the daemon's events.  The two exceptions: `ServeReturns` of the broker is strongly fair,
since `select` chooses at random among ready cases and a loop that finds `Done` ready again and again
takes it in the end, and the SDK is assumed to report an ended context.  A restart of a crashed server
(`Migrates`) is fair because of `restart: unless-stopped` in
`deployments/docker-compose.yml`.  `Parse` is one sequential call.  `executeOp` is
assumed to return: the executor's timeout ends the context that its Docker calls were given.

## 4. Proofs

Each proof module extends its component (`ExecutorProofs` the executor and with it the lock and the queue,
`AccountsProofs` the accounts and with them the migrations) and proves `Spec => []Inv` from an inductive invariant, with
one step per action, and derives the properties from it.

* `ExecutorProofs`, first the lock and the queue by themselves.  Mutual exclusion is not inductive by itself, because `Release` deletes
  whatever entry the project has.  `LockerInv` adds that an entry is its holder's and open, and that
  a closed channel belongs to an operation that has released; `NoLostWakeup` then follows for the
  waiter that kept an old channel.  `QueueInv` counts: while some worker waits, the items are at most the
  woken workers.  The argument is about cardinalities of finite sets (`FiniteSetTheorems`).
  `NoOvertaking` needs `StampsInOrder`: a request whose `Submit` had returned when another was stamped
  has the earlier stamp, although the clock is read outside the mutex.
  Then the executor: `ExecutorInv` is the invariants of both parts and the ties between them: the
  lock's state and `phase` agree, `running` holds exactly the registered phases, the outcome fits
  the phase, queued requests have not begun and removed ones are out of the queue and of every
  worker's hands.  One operation per project, the lock of what runs, removed requests that never
  run, and the exact audit follow.  `ReportInv` is the part about what clients are told:
  a record says what became of its operation (`HistoryIsTrue`, from which `RecordsAgree` follows), a
  history that is not full has every record (`HistoryIsComplete`), and a `GetOperation` that did not
  find its operation running came after the operation's last record (`PollIsLate`), so that its second
  look finds it (`PollFindsResult`).  The lemmas of the two components are reused for their actions.
  The refinement, `Spec => ImplementsLifecycle`, is proved action by action with `Stage` as the mapping:
  each action is a step of `OpLifecycle` or leaves every `Stage` as it is, and the invariant provides
  that an operation which gets its lock finds its project free.
* `OperationsProofs`.  `OperationsInv` has, for each project, what its operation has in hand
  (`LoopsInHand`), that Up's lists only hold what it created (`ListsAreTrue`), that each target is still
  to come, current or started (`EachServiceHasItsTurn`), that what was created is in a list until it is
  taken back, or forgotten by a cancelled `Up` (`NothingForgotten`), and that what Up created has only containers of this Up as users
  (`OnlyNewUsers`), without which an older container of the same project could keep the rollback from
  removing a volume.  That last part rests on `UsedExist`, which is about all projects at once: what a
  container uses exists, so a network or volume that `Up` finds absent has no user.  A step of one
  project leaves the parts of the others as they are (`UntouchedKeeps`), as names are only created where
  they are absent and removed by their owner; volumes are the exception (the run
  `operations_reused_volume`), and the invariant says of a volume only that it does not *become* another
  project's.  `UpIsAllOrNothing`, `UpKeepsOldContainers` and `OthersUntouched` follow.
* `EventStreamProofs`.  Order on a topic is not inductive: it depends on what is still under way.
  `StreamInv` says that there is a number `a` such that the events in `outCh`, in the forwarder's hand and
  on the wire are the numbers after `a`, in this order and without gaps, and everything published is at
  most `a` (`Pending`); that only the current connection has a forwarder that may send; and that the last
  message of each event is the global one, which is the one that every event has.  `InOrder` and
  `GapsOnlyBetweenConnections` hold with it, for any capacity and any number of connections and events.
* `SSEBrokerProofs`.  `BrokerInv` needs that a map entry's goroutine has not reached its close, and
  that a key has one entry even when keys collide; no send on a closed channel, and nothing but shutdown
  events behind a shutdown event, follow, for every capacity, counter modulus and number of calls of `Close`.
* `ScannerProofs`.  `ScannerInv` relates the stack, the visited inode numbers and the projects; each
  directory is found once, for every file system and depth, and even if inode numbers were not distinct.
  Where they are, the invariant says where the scan is: the entries that are left are in one frame each
  and new (`PendingIsNew`); every closed set contains what was visited, and what was visited leads
  elsewhere only through entries that are left, lost or too deep (`VisitedIsReachable`); the depth of a
  frame is the length of a chain of entries to its directory, and without links of the only one
  (`DepthIsTrue`).  The step that takes an argument is a visit through an entry: for a set closed under
  the entries that are left afterwards, its part that was visited before is closed under those left
  before (`VisitIsReachable`).  At the end nothing is left, so the visited directories are the smallest
  closed set (`NothingMissed`); `DepthIsExact` looks at the first directory of a chain that was not visited.
* `LogStreamProofs`.  What a client has received is in order only because of where the goroutine stands:
  `ReadersInStep` says that it is at the start of a frame that it has sent to nobody, and that whoever is
  subscribed has all since its first line.  `Start`, the sum of the frames before, is a recursive function;
  that it satisfies its equation, and that no two frames start at one position, are lemmas (`StartFacts`,
  `StartsDiffer`).  The order is claimed of logs whose frames are within the limit (`Framed`); the types of
  all logs.
* `AccountsProofs`.  `MigrateInv`: what is recorded is applied, and what a server has passed is applied.
  A server therefore serves only with the whole schema, for any number of servers and faults.
  `AccountsInv` adds that a request under way has a server and the
  schema, that it has what it read, that a user came by a request that is over, and that only users
  have grants (`RequestsInv`); the proof carries `DeletionIsFinal` along with it.  A deleted user cannot
  come back because the ID of a user is that of the request that made it, which is over, and because the
  statements of late requests update, and do not insert, a row or fail on the reference.
  `RolesInv` makes `RegistrationRoles` inductive: what a registration has counted, and the role in a row
  that an update has read, are true or outdated by a deletion, a failed count or an update of a role.
  `UpdatesInv` does so for `UpdatesStick`: a row that waits to be written back has what earlier updates
  set, unless they ran at the same time.
* `RegistryProofs`.  `RegistryInv` says what a load has found and parsed so far, where the disk is
  steady; that the lock is held exactly while a load parses; that the map points to what finished loads
  parsed; and that requests which are not disturbed have their object to themselves.  From it follow
  that the map agrees with the disk and that an answer is one snapshot, for any number of
  directories, scans and requests.

The assumptions are the named `ASSUME`s of the component modules: types of the constants, null values
outside their sets, a finite set of workers, positive capacities.  Inductions over numbers (the length
of a chain, the number of a frame) are arguments about a least counterexample: `Least` derives from
`NatLessThanWellFounded` and `WFMin` of the library's `WellFoundedInduction` that a set of natural numbers
has a least element.

Only proved, not run: mutual exclusion of the lock with `TryAcquire`, the queue with `TryDequeue` and
`Close`, the exact audit, and the migrations by themselves, since nothing in the program calls the
first three operations and the runs of the executor and of the accounts contain the rest.

Only model-checked: liveness (`SubmittedIsRecorded`, `LockIsReleased`, `NothingLeftBehind`,
`CloseEndsConnections`, `Reconnects`, `StreamEnds`, `StartsInTheEnd`, `ParseEnds`), which is out of the
prover's reach; and `ParseIsReference`, as what the parser computes is a fold over files, lists and
definitions, and the equality with the reference an induction over each of these data.

## 5. What is left out

* `Executor.Close`, and with it the queue's `Close` in the running server: `main` calls neither.
* Requests that are refused: they change nothing.  Lists of users, grants, audit rows and projects, which
  only read.  Cryptography and the expiry of tokens.
* Files that change during one parse: `ProjectRegistry` has edits between the scan and the parse of a
  directory, `Parser` a disk that stands still.  YAML, and the conversions of ports, mounts, build and
  network lists into the domain's types.
* A failing Docker call has no effect in `Operations`; a call that takes effect and loses its answer
  is not modelled.  Compose dependencies are acyclic, container names distinct between projects.
* `Publish` is one step: the sends happen under the read lock, to channels only it and the reader use.
* Clocks do not go backwards (`Stamp`).  Two properties have a hypothesis that the code does not check:
  `NothingMissed` and `DepthIsExact` that inode numbers differ, that is, the tree is on one file system;
  `LinesInOrder` that no frame is above 1 MiB (the daemon splits lines at 16 KiB).
* Contents of events, messages and configurations; statistics, which go to a topic in the same way as logs; the HTTP layer around the modelled calls.

## 6. Plan

Done, in this order: lock, queue, executor with its abstract specification, compose operations, broker,
scanner, event and log streams, migrations, project registry, accounts on the migrated database, parser;
proofs of every safety property of all of them but the parser, the refinement of `OpLifecycle` included.
What would come next:

1. The parser's helpers as lemmas (`mergeService` is associative, the later definition wins), on the way
   to `ParseIsReference`.
2. The executor on the registry: the project that an operation resolves while a scan replaces the map.
3. Statistics streams, as a second producer of the broker's events.
