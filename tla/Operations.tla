---------------------------- MODULE Operations ----------------------------
(***************************************************************************)
(* The compose operations of internal/docker/operations.go: Up, Down,      *)
(* Stop, Start and Restart, one Docker call per step, against a Docker     *)
(* daemon that operations of other projects use at the same time.          *)
(*                                                                         *)
(* The executor runs one operation per project at a time (module           *)
(* Executor), so a project is the process here.  Projects share the        *)
(* daemon, and may name the same network or volume.                        *)
(*                                                                         *)
(* The daemon is external, modelled by what this code relies on: creating  *)
(* a network or a container whose name is taken fails, creating a volume   *)
(* that exists succeeds, a volume that any container mounts and a network  *)
(* that a running container joined cannot be removed, a container does not *)
(* start without its network.  A call fails when its context has ended, or *)
(* for a reason of the daemon's own (a fault); a failed call has no effect.*)
(***************************************************************************)
EXTENDS Naturals, Sequences, FiniteSets

CONSTANTS Projects, Services, NetNames, VolNames,
          Svcs,       \* the services of each project
          Deps,       \* depends_on of each service, acyclic
          NoImage,    \* the services with neither image nor build
          Nets, Vols, \* the networks and volumes a project declares, not external
          ServiceNets, \* the networks each service lists, in order
          DefaultNet, \* the name of each project's default network
          Mounts,     \* the volumes a service's container mounts
          Absent,     \* a name the daemon does not know
          Unmanaged,  \* the owner of what carries no project label
          Scopes,     \* bound: the service lists of each project's requests, {} for all
          Interrupts, \* bound: the projects whose operations' contexts may end
          MaxOps,     \* bound: operations of each project
          MaxFaults,  \* bound: calls that fail
          MaxCrashes  \* bound: containers that exit by themselves

ASSUME SvcsAssumption == Svcs \in [Projects -> SUBSET Services]
ASSUME OwnersAssumption ==
    Absent \notin Projects /\ Unmanaged \notin Projects /\ Absent # Unmanaged
ASSUME BoundsAssumption ==
    /\ DOMAIN Scopes = Projects
    /\ MaxOps \in [Projects -> Nat] /\ MaxFaults \in Nat /\ MaxCrashes \in Nat

VARIABLES nets, vols,  \* the daemon: the owner of each name, or Absent
          ctrs,        \* the daemon: each service's container
          op, scope,   \* the operation of each project, last or current
          pc,          \* where it is
          cur,         \* the network, volume or service it is busy with
          todo,        \* what its loop has left
          started,     \* startedContainers of Up
          madeNets,    \* createdNetworks of Up
          madeVols,    \* createdVolumes of Up
          result,      \* status of the result, "error" for none
          ctxEnded,    \* its context has ended
          prior,       \* history: what the daemon had when it began
          made,        \* history: what it really created
          hindered,    \* history: a removal of its rollback was refused by
                       \*          a fault or by another project's container
          left         \* the bounds that are left

daemon == <<nets, vols, ctrs>>
locals == <<cur, todo, started, madeNets, madeVols>>
ghosts == <<prior, made, hindered>>
vars == <<daemon, op, scope, pc, locals, result, ctxEnded, ghosts, left>>

OpTypes == {"up", "down", "stop", "start", "restart"}
CtrStates == {"absent", "created", "running", "exited"}

TypeOK ==
    /\ nets \in [NetNames -> Projects \union {Absent, Unmanaged}]
    /\ vols \in [VolNames -> Projects \union {Absent, Unmanaged}]
    /\ ctrs \in [Projects -> [Services -> CtrStates]]
    /\ op \in [Projects -> OpTypes \union {"none"}]
    /\ pc \in [Projects -> {"idle", "ports", "nets", "netCreate", "vols", "volCreate", "services",
                            "image", "create", "start", "rollback", "list", "ctrs", "second",
                            "netList", "netRemove"}]
    /\ result \in [Projects -> {"none", "running", "succeeded", "cancelled",
                                "rolled_back", "error"}]
    /\ DOMAIN scope = Projects /\ DOMAIN cur = Projects /\ DOMAIN todo = Projects
    /\ started \in [Projects -> Seq(Services)]
    /\ madeNets \in [Projects -> SUBSET NetNames] /\ madeVols \in [Projects -> SUBSET VolNames]
    /\ \A p \in Projects : \A i \in DOMAIN started[p] : started[p][i] \in Svcs[p]
    /\ \A p \in Projects : madeNets[p] \subseteq Nets[p] /\ madeVols[p] \subseteq Vols[p]
    /\ ctxEnded \in SUBSET Projects /\ hindered \in SUBSET Projects
    /\ prior \in [Projects -> [ctrs : SUBSET Services, vols : SUBSET VolNames]]
    /\ made \in [Projects -> [ctrs : SUBSET Services, nets : SUBSET NetNames,
                              vols : SUBSET VolNames]]

Init ==
    /\ nets \in [NetNames -> {Absent, Unmanaged}]
    /\ vols \in [VolNames -> {Absent, Unmanaged}]
    /\ ctrs = [p \in Projects |-> [s \in Services |-> "absent"]]
    /\ op = [p \in Projects |-> "none"]
    /\ scope = [p \in Projects |-> {}]
    /\ pc = [p \in Projects |-> "idle"]
    /\ cur = [p \in Projects |-> Absent]
    /\ todo = [p \in Projects |-> {}]
    /\ started = [p \in Projects |-> <<>>]
    /\ madeNets = [p \in Projects |-> {}]
    /\ madeVols = [p \in Projects |-> {}]
    /\ result = [p \in Projects |-> "none"]
    /\ ctxEnded = {}
    /\ prior = [p \in Projects |-> [ctrs |-> {}, vols |-> {}]]
    /\ made = [p \in Projects |-> [ctrs |-> {}, nets |-> {}, vols |-> {}]]
    /\ hindered = {}
    /\ left = [ops |-> MaxOps, faults |-> MaxFaults, crashes |-> MaxCrashes]

-----------------------------------------------------------------------------
(* The daemon *)

Fault == left.faults > 0 /\ left' = [left EXCEPT !.faults = @ - 1]

(* resolveNetworks.  A service that lists none is put into the project's    *)
(* default network.  A container is created in the first of the networks.   *)
ResolveNetworks(p, s) ==
    IF ServiceNets[p][s] = <<>> THEN <<DefaultNet[p]>> ELSE ServiceNets[p][s]

(* A call with the operation's context, and a call of the rollback, which   *)
(* uses context.Background().                                               *)
CallFails(p) == IF p \in ctxEnded THEN UNCHANGED left ELSE Fault
CallWorks(p) == p \notin ctxEnded /\ UNCHANGED left

Mounting(v, P) == \E q \in P : \E s \in Svcs[q] : ctrs[q][s] # "absent" /\ v \in Mounts[q][s]
Joined(n, P) == \E q \in P : \E s \in Svcs[q] : ctrs[q][s] = "running" /\ Head(ResolveNetworks(q, s)) = n

SetCtr(p, s, state) == ctrs' = [ctrs EXCEPT ![p][s] = state]

(* Docker makes a named volume that a new container mounts and that is gone. *)
CreateCtr(p, s) ==
    /\ SetCtr(p, s, "created")
    /\ vols' = [v \in VolNames |->
                  IF v \in Mounts[p][s] /\ vols[v] = Absent THEN Unmanaged ELSE vols[v]]

CanStart(p, s) == nets[Head(ResolveNetworks(p, s))] # Absent

(* ContainerStop leaves a container that does not run alone. *)
Stopped(state) == IF state = "running" THEN "exited" ELSE state

(* A container's main process ends. *)
Crash(p, s) ==
    /\ left.crashes > 0
    /\ ctrs[p][s] = "running"
    /\ SetCtr(p, s, "exited")
    /\ left' = [left EXCEPT !.crashes = @ - 1]
    /\ UNCHANGED <<nets, vols, op, scope, pc, locals, result, ctxEnded, ghosts>>

(* The operation is cancelled or times out. *)
CtxEnds(p) ==
    /\ p \in Interrupts
    /\ pc[p] # "idle"
    /\ p \notin ctxEnded
    /\ ctxEnded' = ctxEnded \union {p}
    /\ UNCHANGED <<daemon, op, scope, pc, locals, result, ghosts, left>>

-----------------------------------------------------------------------------
Jump(p, label) == pc' = [pc EXCEPT ![p] = label]

Return(p, status) ==
    /\ Jump(p, "idle")
    /\ result' = [result EXCEPT ![p] = status]

(* filterServices, and containsService in the other operations: no list     *)
(* means every service.                                                     *)
Targets(p) == IF scope[p] = {} THEN Svcs[p] ELSE scope[p] \intersect Svcs[p]

(* Mutant: the dependencies are ignored. *)
ReadyInAnyOrder(p) == todo[p]

(* topologicalSort: any order that puts a service after those of its        *)
(* dependencies that are targets too.                                       *)
Ready(p) == {s \in todo[p] : Deps[p][s] \intersect todo[p] = {}}

(* executeOp dispatches on the type of the operation. *)
Begin(p) ==
    /\ pc[p] = "idle"
    /\ left.ops[p] > 0
    /\ left' = [left EXCEPT !.ops[p] = @ - 1]
    /\ \E t \in OpTypes, sc \in Scopes[p] :
          /\ op' = [op EXCEPT ![p] = t]
          /\ scope' = [scope EXCEPT ![p] = sc]
          /\ Jump(p, IF t = "up" THEN "ports" ELSE "list")
          /\ todo' = [todo EXCEPT ![p] = IF t = "up" THEN Nets[p] ELSE {}]
    /\ result' = [result EXCEPT ![p] = "running"]
    /\ ctxEnded' = ctxEnded \ {p}
    /\ started' = [started EXCEPT ![p] = <<>>]
    /\ madeNets' = [madeNets EXCEPT ![p] = {}]
    /\ madeVols' = [madeVols EXCEPT ![p] = {}]
    /\ prior' = [prior EXCEPT ![p] = [ctrs |-> {s \in Svcs[p] : ctrs[p][s] # "absent"},
                                      vols |-> {v \in VolNames : vols[v] # Absent}]]
    /\ made' = [made EXCEPT ![p] = [ctrs |-> {}, nets |-> {}, vols |-> {}]]
    /\ hindered' = hindered \ {p}
    /\ UNCHANGED <<daemon, cur>>

-----------------------------------------------------------------------------
(* Up *)

(* checkPortConflicts: a port that is taken, by whomever, ends Up before it *)
(* has done anything.  An error of its list call skips the check.           *)
UpPorts(p) ==
    /\ pc[p] = "ports"
    /\ \/ Fault /\ Return(p, "error")
       \/ Jump(p, "nets") /\ UNCHANGED <<result, left>>
    /\ UNCHANGED <<daemon, op, scope, locals, ctxEnded, ghosts>>

GoRollBack(p) ==
    /\ Jump(p, "rollback")
    /\ UNCHANGED <<nets, vols, ctrs, op, scope, locals, result, ctxEnded, ghosts>>

(* checkNetworkConflict: a network without label has the name; one of any   *)
(* project's is accepted.                                                   *)
NetworkConflict(n) == nets[n] = Unmanaged

(* The next network.  When the list call of the check fails the name is     *)
(* taken to be free.                                                        *)
UpCheckNetwork(p, n) ==
    /\ pc[p] = "nets"
    /\ n \in todo[p]
    /\ \/ /\ CallWorks(p) /\ NetworkConflict(n)
          /\ GoRollBack(p)
       \/ /\ CallFails(p) \/ (CallWorks(p) /\ ~NetworkConflict(n))
          /\ Jump(p, "netCreate")
          /\ cur' = [cur EXCEPT ![p] = n]
          /\ todo' = [todo EXCEPT ![p] = @ \ {n}]
          /\ UNCHANGED <<daemon, op, scope, started, madeNets, madeVols, result, ctxEnded, ghosts>>

(* NetworkCreate: a network that exists by now is accepted, but is not one  *)
(* that Up created.                                                         *)
UpCreateNetwork(p) ==
    LET n == cur[p] IN
    /\ pc[p] = "netCreate"
    /\ \/ CallFails(p) /\ GoRollBack(p)
       \/ /\ CallWorks(p)
          /\ Jump(p, "nets")
          /\ IF nets[n] = Absent
             THEN /\ nets' = [nets EXCEPT ![n] = p]
                  /\ madeNets' = [madeNets EXCEPT ![p] = @ \union {n}]
                  /\ made' = [made EXCEPT ![p].nets = @ \union {n}]
             ELSE UNCHANGED <<nets, madeNets, made>>
          /\ UNCHANGED <<vols, ctrs, op, scope, cur, todo, started, madeVols, result, ctxEnded,
                         prior, hindered>>

UpNetworksDone(p) ==
    /\ pc[p] = "nets"
    /\ todo[p] = {}
    /\ Jump(p, "vols")
    /\ todo' = [todo EXCEPT ![p] = Vols[p]]
    /\ UNCHANGED <<daemon, op, scope, cur, started, madeNets, madeVols, result, ctxEnded, ghosts, left>>

(* checkVolumeConflict: another project's volume is a conflict, an          *)
(* unmanaged one is reused.                                                 *)
VolumeConflict(p, v) == vols[v] \in Projects \ {p}

UpCheckVolume(p, v) ==
    /\ pc[p] = "vols"
    /\ v \in todo[p]
    /\ \/ CallWorks(p) /\ VolumeConflict(p, v) /\ GoRollBack(p)
       \/ /\ CallFails(p) \/ (CallWorks(p) /\ ~VolumeConflict(p, v))
          /\ Jump(p, "volCreate")
          /\ cur' = [cur EXCEPT ![p] = v]
          /\ todo' = [todo EXCEPT ![p] = @ \ {v}]
          /\ UNCHANGED <<daemon, op, scope, started, madeNets, madeVols, result, ctxEnded, ghosts>>

(* VolumeCreate succeeds for a volume that exists, and Up counts it among   *)
(* those it created.                                                        *)
UpCreateVolume(p) ==
    LET v == cur[p] IN
    /\ pc[p] = "volCreate"
    /\ \/ CallFails(p) /\ GoRollBack(p)
       \/ /\ CallWorks(p)
          /\ Jump(p, "vols")
          /\ madeVols' = [madeVols EXCEPT ![p] = @ \union {v}]
          /\ IF vols[v] = Absent
             THEN /\ vols' = [vols EXCEPT ![v] = p]
                  /\ made' = [made EXCEPT ![p].vols = @ \union {v}]
             ELSE UNCHANGED <<vols, made>>
          /\ UNCHANGED <<nets, ctrs, op, scope, cur, todo, started, madeNets, result, ctxEnded,
                         prior, hindered>>

UpVolumesDone(p) ==
    /\ pc[p] = "vols"
    /\ todo[p] = {}
    /\ Jump(p, "services")
    /\ todo' = [todo EXCEPT ![p] = Targets(p)]
    /\ UNCHANGED <<daemon, op, scope, cur, started, madeNets, madeVols, result, ctxEnded, ghosts, left>>

(* The context is looked at before each service.  When it has ended the     *)
(* started containers are rolled back; the networks and volumes stay.       *)
UpCancelled(p) ==
    /\ pc[p] = "services"
    /\ todo[p] # {}
    /\ p \in ctxEnded
    /\ Jump(p, "rollback")
    /\ result' = [result EXCEPT ![p] = "cancelled"]
    /\ madeNets' = [madeNets EXCEPT ![p] = {}]
    /\ madeVols' = [madeVols EXCEPT ![p] = {}]
    /\ UNCHANGED <<daemon, op, scope, cur, todo, started, ctxEnded, ghosts, left>>

(* The next service; one without an image is skipped. *)
UpService(p, s) ==
    /\ pc[p] = "services"
    /\ s \in Ready(p)
    /\ p \notin ctxEnded
    /\ todo' = [todo EXCEPT ![p] = @ \ {s}]
    /\ cur' = [cur EXCEPT ![p] = s]
    /\ Jump(p, IF s \in NoImage[p] THEN "services" ELSE "image")
    /\ UNCHANGED <<daemon, op, scope, started, madeNets, madeVols, result, ctxEnded, ghosts, left>>

(* ImageBuild, or ImageExists and ImagePull. *)
UpImage(p) ==
    /\ pc[p] = "image"
    /\ \/ CallFails(p) /\ GoRollBack(p)
       \/ /\ CallWorks(p)
          /\ Jump(p, "create")
          /\ UNCHANGED <<daemon, op, scope, locals, result, ctxEnded, ghosts>>

(* ContainerCreate fails when the service has a container already. *)
UpCreate(p) ==
    LET s == cur[p] IN
    /\ pc[p] = "create"
    /\ \/ CallFails(p) /\ GoRollBack(p)
       \/ CallWorks(p) /\ ctrs[p][s] # "absent" /\ GoRollBack(p)
       \/ /\ CallWorks(p) /\ ctrs[p][s] = "absent"
          /\ CreateCtr(p, s)
          /\ Jump(p, "start")
          /\ made' = [made EXCEPT ![p].ctrs = @ \union {s}]
          /\ UNCHANGED <<nets, op, scope, locals, result, ctxEnded, prior, hindered>>

(* Mutant: the container that does not start is not removed. *)
UpStartKeepsBroken(p) ==
    LET s == cur[p] IN
    /\ pc[p] = "start"
    /\ \/ /\ CallWorks(p) /\ CanStart(p, s)
          /\ SetCtr(p, s, "running")
          /\ Jump(p, "services")
          /\ started' = [started EXCEPT ![p] = Append(@, s)]
       \/ /\ CallFails(p) \/ (CallWorks(p) /\ ~CanStart(p, s))
          /\ Jump(p, "rollback")
          /\ UNCHANGED <<ctrs, started>>
    /\ UNCHANGED <<nets, vols, op, scope, cur, todo, madeNets, madeVols, result, ctxEnded, ghosts>>

(* ContainerStart.  A container that does not start is removed first, then  *)
(* the others: so it is the last of the containers to roll back.            *)
UpStart(p) ==
    LET s == cur[p] IN
    /\ pc[p] = "start"
    /\ \/ /\ CallWorks(p) /\ CanStart(p, s)
          /\ SetCtr(p, s, "running")
          /\ Jump(p, "services")
       \/ /\ CallFails(p) \/ (CallWorks(p) /\ ~CanStart(p, s))
          /\ Jump(p, "rollback")
          /\ UNCHANGED ctrs
    /\ started' = [started EXCEPT ![p] = Append(@, s)]
    /\ UNCHANGED <<nets, vols, op, scope, cur, todo, madeNets, madeVols, result, ctxEnded, ghosts>>

UpDone(p) ==
    /\ pc[p] = "services"
    /\ todo[p] = {}
    /\ Return(p, "succeeded")
    /\ UNCHANGED <<daemon, op, scope, locals, ctxEnded, ghosts, left>>

-----------------------------------------------------------------------------
(* Rollback: containers last first, then volumes, then networks, errors     *)
(* ignored.                                                                 *)

Hindered(p) == hindered' = hindered \union {p}

(* Mutant: every container of the target services is removed. *)
RollbackByService(p) ==
    LET s == started[p][Len(started[p])] IN
    /\ pc[p] = "rollback"
    /\ started[p] # <<>>
    /\ started' = [started EXCEPT ![p] = SubSeq(@, 1, Len(@) - 1)]
    /\ ctrs' = [ctrs EXCEPT ![p] = [t \in Services |-> IF t \in Targets(p) THEN "absent" ELSE @[t]]]
    /\ UNCHANGED <<nets, vols, op, scope, pc, cur, todo, madeNets, madeVols, result, ctxEnded,
                   ghosts, left>>

(* rollbackContainers stops and removes the container that was started      *)
(* last.  The two calls are one step: the removal is forced, so whether the *)
(* stop before it works makes no difference.                                *)
RollbackContainer(p) ==
    LET s == started[p][Len(started[p])] IN
    /\ pc[p] = "rollback"
    /\ started[p] # <<>>
    /\ started' = [started EXCEPT ![p] = SubSeq(@, 1, Len(@) - 1)]
    /\ \/ SetCtr(p, s, "absent") /\ UNCHANGED <<left, hindered>>
       \/ Fault /\ Hindered(p) /\ UNCHANGED ctrs
    /\ UNCHANGED <<nets, vols, op, scope, pc, cur, todo, madeNets, madeVols, result, ctxEnded,
                   prior, made>>

(* Volumes and networks wait for the containers. *)
ContainersGone(p) == started[p] = <<>>

RollbackVolume(p, v) ==
    /\ pc[p] = "rollback"
    /\ ContainersGone(p)
    /\ v \in madeVols[p]
    /\ madeVols' = [madeVols EXCEPT ![p] = @ \ {v}]
    /\ \/ /\ ~Mounting(v, Projects)
          /\ vols' = [vols EXCEPT ![v] = Absent]
          /\ UNCHANGED <<left, hindered>>
       \/ /\ Mounting(v, Projects)
          /\ IF Mounting(v, Projects \ {p}) THEN Hindered(p) ELSE UNCHANGED hindered
          /\ UNCHANGED <<vols, left>>
       \/ Fault /\ Hindered(p) /\ UNCHANGED vols
    /\ UNCHANGED <<nets, ctrs, op, scope, pc, cur, todo, started, madeNets, result, ctxEnded,
                   prior, made>>

RollbackNetwork(p, n) ==
    /\ pc[p] = "rollback"
    /\ ContainersGone(p) /\ madeVols[p] = {}
    /\ n \in madeNets[p]
    /\ madeNets' = [madeNets EXCEPT ![p] = @ \ {n}]
    /\ \/ /\ ~Joined(n, Projects)
          /\ nets' = [nets EXCEPT ![n] = Absent]
          /\ UNCHANGED <<left, hindered>>
       \/ /\ Joined(n, Projects)
          /\ IF Joined(n, Projects \ {p}) THEN Hindered(p) ELSE UNCHANGED hindered
          /\ UNCHANGED <<nets, left>>
       \/ Fault /\ Hindered(p) /\ UNCHANGED nets
    /\ UNCHANGED <<vols, ctrs, op, scope, pc, cur, todo, started, madeVols, result, ctxEnded,
                   prior, made>>

RollbackDone(p) ==
    /\ pc[p] = "rollback"
    /\ started[p] = <<>> /\ madeVols[p] = {} /\ madeNets[p] = {}
    /\ Return(p, IF result[p] = "cancelled" THEN "cancelled" ELSE "rolled_back")
    /\ UNCHANGED <<daemon, op, scope, locals, ctxEnded, ghosts, left>>

-----------------------------------------------------------------------------
(* Down, Stop, Start, Restart *)

(* getProjectContainers: the project's containers in any state.  What the   *)
(* loop does is decided by this list, not by the states at the time.        *)
ListContainers(p) ==
    LET existing == {s \in Targets(p) : ctrs[p][s] # "absent"}
        up == {s \in existing : ctrs[p][s] = "running"}
    IN
    /\ pc[p] = "list"
    /\ \/ CallFails(p) /\ Return(p, "error") /\ UNCHANGED todo
       \/ /\ CallWorks(p)
          /\ Jump(p, "ctrs")
          /\ todo' = [todo EXCEPT ![p] = CASE op[p] = "stop" -> up
                                           [] op[p] = "start" -> existing \ up
                                           [] OTHER -> existing]
          /\ UNCHANGED result
    /\ UNCHANGED <<daemon, op, scope, cur, started, madeNets, madeVols, ctxEnded, ghosts>>

(* Down looks at the context before each container; the others do not. *)
DownCancelled(p) ==
    /\ pc[p] = "ctrs"
    /\ op[p] = "down"
    /\ todo[p] # {}
    /\ p \in ctxEnded
    /\ Return(p, "cancelled")
    /\ UNCHANGED <<daemon, op, scope, locals, ctxEnded, ghosts, left>>

(* The first call for the next container: ContainerStart in Start,          *)
(* ContainerStop in the others.  Its error is at most noted in the step.    *)
FirstCall(p, s) ==
    /\ pc[p] = "ctrs"
    /\ s \in todo[p]
    /\ op[p] = "down" => p \notin ctxEnded
    /\ todo' = [todo EXCEPT ![p] = @ \ {s}]
    /\ cur' = [cur EXCEPT ![p] = s]
    /\ Jump(p, IF op[p] \in {"down", "restart"} THEN "second" ELSE "ctrs")
    /\ \/ CallFails(p) /\ UNCHANGED ctrs
       \/ /\ CallWorks(p)
          /\ IF op[p] = "start"
             THEN IF CanStart(p, s) THEN SetCtr(p, s, "running") ELSE UNCHANGED ctrs
             ELSE SetCtr(p, s, Stopped(ctrs[p][s]))
    /\ UNCHANGED <<nets, vols, op, scope, started, madeNets, madeVols, result, ctxEnded, ghosts>>

(* The second call: ContainerRemove in Down, ContainerStart in Restart. *)
SecondCall(p) ==
    LET s == cur[p] IN
    /\ pc[p] = "second"
    /\ Jump(p, "ctrs")
    /\ \/ CallFails(p) /\ UNCHANGED ctrs
       \/ /\ CallWorks(p)
          /\ IF op[p] = "down" THEN SetCtr(p, s, "absent")
             ELSE IF CanStart(p, s) THEN SetCtr(p, s, "running") ELSE UNCHANGED ctrs
    /\ UNCHANGED <<nets, vols, op, scope, locals, result, ctxEnded, ghosts>>

ContainersDone(p) ==
    /\ pc[p] = "ctrs"
    /\ todo[p] = {}
    /\ IF op[p] = "down" /\ scope[p] = {}
       THEN Jump(p, "netList") /\ UNCHANGED result
       ELSE Return(p, "succeeded")
    /\ UNCHANGED <<daemon, op, scope, locals, ctxEnded, ghosts, left>>

(* Mutant: the networks are chosen by name. *)
DownListsByName(p) ==
    /\ pc[p] = "netList"
    /\ Jump(p, "netRemove")
    /\ \/ CallWorks(p) /\ todo' = [todo EXCEPT ![p] = {n \in Nets[p] : nets[n] # Absent}]
       \/ CallFails(p) /\ UNCHANGED todo
    /\ UNCHANGED <<daemon, op, scope, cur, started, madeNets, madeVols, result, ctxEnded, ghosts>>

(* Down of the whole project removes the networks labelled with it; when    *)
(* the list fails there are none.                                           *)
DownListNetworks(p) ==
    /\ pc[p] = "netList"
    /\ Jump(p, "netRemove")
    /\ \/ CallWorks(p) /\ todo' = [todo EXCEPT ![p] = {n \in NetNames : nets[n] = p}]
       \/ CallFails(p) /\ UNCHANGED todo
    /\ UNCHANGED <<daemon, op, scope, cur, started, madeNets, madeVols, result, ctxEnded, ghosts>>

DownRemoveNetwork(p, n) ==
    /\ pc[p] = "netRemove"
    /\ n \in todo[p]
    /\ todo' = [todo EXCEPT ![p] = @ \ {n}]
    /\ \/ CallWorks(p) /\ ~Joined(n, Projects) /\ nets' = [nets EXCEPT ![n] = Absent]
       \/ CallWorks(p) /\ Joined(n, Projects) /\ UNCHANGED nets
       \/ CallFails(p) /\ UNCHANGED nets
    /\ UNCHANGED <<vols, ctrs, op, scope, pc, cur, started, madeNets, madeVols, result, ctxEnded,
                   ghosts>>

DownDone(p) ==
    /\ pc[p] = "netRemove"
    /\ todo[p] = {}
    /\ Return(p, "succeeded")
    /\ UNCHANGED <<daemon, op, scope, locals, ctxEnded, ghosts, left>>

-----------------------------------------------------------------------------
UpStep(p) ==
    \/ UpPorts(p)
    \/ \E n \in NetNames : UpCheckNetwork(p, n)
    \/ UpCreateNetwork(p)
    \/ UpNetworksDone(p)
    \/ \E v \in VolNames : UpCheckVolume(p, v)
    \/ UpCreateVolume(p)
    \/ UpVolumesDone(p)
    \/ UpCancelled(p)
    \/ \E s \in Services : UpService(p, s)
    \/ UpImage(p)
    \/ UpCreate(p)
    \/ UpStart(p)
    \/ UpDone(p)
    \/ RollbackContainer(p)
    \/ \E v \in VolNames : RollbackVolume(p, v)
    \/ \E n \in NetNames : RollbackNetwork(p, n)
    \/ RollbackDone(p)

OtherStep(p) ==
    \/ ListContainers(p)
    \/ DownCancelled(p)
    \/ \E s \in Services : FirstCall(p, s)
    \/ SecondCall(p)
    \/ ContainersDone(p)
    \/ DownListNetworks(p)
    \/ \E n \in NetNames : DownRemoveNetwork(p, n)
    \/ DownDone(p)

Step(p) == UpStep(p) \/ OtherStep(p)

(* Every project has had its operations. *)
AllDone ==
    /\ \A p \in Projects : pc[p] = "idle" /\ left.ops[p] = 0
    /\ UNCHANGED vars

Next ==
    \/ \E p \in Projects : Begin(p) \/ Step(p) \/ CtxEnds(p)
    \/ \E p \in Projects : \E s \in Svcs[p] : Crash(p, s)
    \/ AllDone

Spec == Init /\ [][Next]_vars

-----------------------------------------------------------------------------
(* The containers a project had when Up began outlive Up, however it ends:  *)
(* its rollback takes back only what this Up started.                       *)
UpKeepsOldContainers ==
    \A p \in Projects :
        op[p] = "up" => \A s \in prior[p].ctrs : ctrs[p][s] # "absent"

(* Up is all or nothing.  When it reports success each target service with  *)
(* an image has a container that this Up created and started.  When it was  *)
(* rolled back or cancelled, and no fault and no other project's container  *)
(* stood in the way, no container that it created is left; and when it was  *)
(* rolled back, no network or volume with the project's label either        *)
(* (operations.go:33-343).  A cancelled Up keeps those                      *)
(* (operations.go:167-172): the code takes back its containers only.        *)
UpIsAllOrNothing ==
    \A p \in Projects : op[p] = "up" =>
        /\ result[p] = "succeeded" =>
              \A s \in Targets(p) \ NoImage[p] :
                  s \in made[p].ctrs /\ ctrs[p][s] \in {"running", "exited"}
        /\ pc[p] = "idle" /\ p \notin hindered =>
              /\ result[p] \in {"rolled_back", "cancelled"} =>
                    \A s \in made[p].ctrs : ctrs[p][s] = "absent"
              /\ result[p] = "rolled_back" =>
                    /\ \A n \in made[p].nets : nets[n] # p
                    /\ \A v \in made[p].vols : vols[v] # p

(* Up starts a service after the services it depends on, as far as they are *)
(* targets with an image, and takes it back before them.                    *)
DependenciesFirst ==
    \A p \in Projects : \A i \in DOMAIN started[p] :
        \A d \in Deps[p][started[p][i]] \intersect (Targets(p) \ NoImage[p]) :
            \E j \in 1..(i - 1) : started[p][j] = d

ServicePcs == {"image", "create", "start"}
UpPcs == {"ports", "nets", "netCreate", "vols", "volCreate", "services", "rollback"}
            \union ServicePcs
OtherPcs == {"list", "ctrs", "second", "netList", "netRemove"}

Existing(p) == {s \in Svcs[p] : ctrs[p][s] # "absent"}

(* What the loops of an operation have in hand.                             *)
LoopsInHand(p) ==
    /\ pc[p] \in UpPcs => op[p] = "up"
    /\ pc[p] \in OtherPcs => /\ op[p] \in OpTypes \ {"up"} /\ madeNets[p] = {}
                             /\ made[p] = [ctrs |-> {}, nets |-> {}, vols |-> {}]
    /\ pc[p] # "idle" => \/ result[p] = "running"
                         \/ pc[p] = "rollback" /\ result[p] = "cancelled"
    /\ pc[p] \in {"ports", "nets", "netCreate"} => todo[p] \subseteq Nets[p]
    /\ pc[p] = "netCreate" => cur[p] \in Nets[p] \intersect NetNames
    /\ pc[p] \in {"vols", "volCreate"} => todo[p] \subseteq Vols[p]
    /\ pc[p] = "volCreate" => cur[p] \in Vols[p] \intersect VolNames
    /\ pc[p] \in {"services"} \union ServicePcs => todo[p] \subseteq Targets(p)
    /\ pc[p] \in ServicePcs => /\ cur[p] \in Targets(p) \ NoImage[p]
                               /\ Deps[p][cur[p]] \intersect (todo[p] \union {cur[p]}) = {}
    /\ pc[p] \in {"ctrs", "second"} => todo[p] \subseteq Existing(p)
    /\ pc[p] = "second" => cur[p] \in Existing(p) \ todo[p]
    /\ pc[p] = "netList" => todo[p] = {}
    /\ pc[p] = "netRemove" => todo[p] \subseteq {n \in NetNames : nets[n] = p}

StartedByUp(p) == {started[p][i] : i \in DOMAIN started[p]}

(* Up's lists and what is in the daemon: startedContainers only holds       *)
(* containers that this Up created and that were not there before, and      *)
(* createdNetworks only networks that are the project's.                    *)
ListsAreTrue(p) ==
    /\ StartedByUp(p) \subseteq made[p].ctrs
    /\ pc[p] = "start" => cur[p] \in made[p].ctrs \intersect Existing(p)
    /\ made[p].ctrs \intersect prior[p].ctrs = {}
    /\ \A n \in madeNets[p] : nets[n] = p

(* Each target service is still to come, the current one, or started.       *)
EachServiceHasItsTurn(p) ==
    pc[p] \in {"services"} \union ServicePcs =>
        \A s \in Targets(p) \ NoImage[p] :
            \/ s \in todo[p]
            \/ pc[p] \in ServicePcs /\ s = cur[p]
            \/ s \in StartedByUp(p) /\ ctrs[p][s] \in {"running", "exited"}

(* What Up created is in its lists until the rollback has taken it back;    *)
(* a cancelled Up forgets its networks and volumes.                         *)
NothingForgotten(p) ==
    pc[p] \in UpPcs /\ p \notin hindered =>
        /\ \A s \in made[p].ctrs : \/ s \in StartedByUp(p)
                                   \/ pc[p] = "start" /\ s = cur[p]
                                   \/ pc[p] = "rollback" /\ ctrs[p][s] = "absent"
        /\ result[p] = "running" =>
              /\ \A n \in made[p].nets : nets[n] = p => n \in madeNets[p]
              /\ \A v \in made[p].vols : vols[v] = p => v \in madeVols[p]

(* A volume or network that Up created is used by none of the project's     *)
(* older containers, so they cannot keep the rollback from removing it.     *)
OnlyNewUsers(p) ==
    \A s \in Svcs[p] \ made[p].ctrs :
        /\ ctrs[p][s] # "absent" => Mounts[p][s] \intersect made[p].vols = {}
        /\ ctrs[p][s] = "running" => Head(ResolveNetworks(p, s)) \notin made[p].nets

(* The volumes and networks that containers use exist.                      *)
UsedExist ==
    /\ \A v \in VolNames : Mounting(v, Projects) => vols[v] # Absent
    /\ \A n \in NetNames : Joined(n, Projects) => nets[n] # Absent

(* The inductive invariant: the types of the state, the order of the        *)
(* containers that Up started (startedContainers), which its rollback walks *)
(* backwards, and how the lists of Up stand to what is in the daemon.       *)
OperationsInv ==
    /\ TypeOK
    /\ DependenciesFirst
    /\ \A p \in Projects : /\ LoopsInHand(p) /\ ListsAreTrue(p) /\ EachServiceHasItsTurn(p)
                           /\ NothingForgotten(p) /\ OnlyNewUsers(p)
    /\ UsedExist
    /\ UpKeepsOldContainers
    /\ UpIsAllOrNothing

(* An operation never removes or relabels another project's network, nor    *)
(* touches another project's containers, even when both declare it.         *)
OthersUntouched ==
    [][\A p \in Projects :
          Step(p) =>
              /\ \A n \in NetNames : nets[n] \in Projects \ {p} => nets'[n] = nets[n]
              /\ \A q \in Projects \ {p} : ctrs'[q] = ctrs[q]]_vars

(* checkVolumeConflict says of a volume that exists without a label         *)
(* "Existing unmanaged volume - allow reuse", but Up counts it as created,  *)
(* and a rollback removes it with its data.  This does not hold.            *)
ReusedVolumeSurvives ==
    [][\A p \in Projects, v \in VolNames :
          (RollbackVolume(p, v) /\ v \in prior[p].vols) => vols'[v] # Absent]_vars
=============================================================================
