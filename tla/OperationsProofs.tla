------------------------- MODULE OperationsProofs --------------------------
(***************************************************************************)
(* Proofs about the compose operations: their inductive invariant, that Up *)
(* is all or nothing and keeps the older containers, and that operations   *)
(* of different projects leave each other's networks and containers alone. *)
(***************************************************************************)
EXTENDS Operations, TLAPS

(* The state is made of functions on the projects.                         *)
Domains ==
    /\ DOMAIN op = Projects /\ DOMAIN scope = Projects /\ DOMAIN pc = Projects
    /\ DOMAIN cur = Projects /\ DOMAIN todo = Projects /\ DOMAIN started = Projects
    /\ DOMAIN madeNets = Projects /\ DOMAIN madeVols = Projects /\ DOMAIN result = Projects
    /\ DOMAIN prior = Projects /\ DOMAIN made = Projects /\ DOMAIN ctrs = Projects
    /\ DOMAIN nets = NetNames /\ DOMAIN vols = VolNames

LEMMA TypeGivesDomains == TypeOK => Domains
  BY DEF TypeOK, Domains

(* What one project's operation knows, and its containers, stay as they are. *)
Untouched(q) ==
    /\ op'[q] = op[q] /\ scope'[q] = scope[q] /\ pc'[q] = pc[q]
    /\ cur'[q] = cur[q] /\ todo'[q] = todo[q] /\ started'[q] = started[q]
    /\ madeNets'[q] = madeNets[q] /\ madeVols'[q] = madeVols[q] /\ result'[q] = result[q]
    /\ prior'[q] = prior[q] /\ made'[q] = made[q] /\ (q \in hindered' <=> q \in hindered)
    /\ ctrs'[q] = ctrs[q]

(* The networks labelled with a project stay so, and no volume becomes its. *)
OwnedStays(q) ==
    /\ \A n \in NetNames : nets'[n] = q <=> nets[n] = q
    /\ \A v \in VolNames : vols'[v] = q => vols[v] = q

(* A step of one project's operation does not touch another project.       *)
LEMMA UpLeavesOthers ==
    ASSUME NEW p \in Projects, NEW q \in Projects, q # p, OperationsInv, UpStep(p)
    PROVE  Untouched(q) /\ OwnedStays(q)
<1>1. Domains /\ \A n \in madeNets[p] : nets[n] = p
  BY TypeGivesDomains DEF OperationsInv, ListsAreTrue
<1> USE <1>1, OwnersAssumption
    DEF Domains, Untouched, OwnedStays, Jump, Return, daemon, locals, ghosts
<1>2. CASE UpPorts(p)
  BY <1>2 DEF UpPorts
<1>3. ASSUME NEW n \in NetNames, UpCheckNetwork(p, n)
      PROVE  Untouched(q) /\ OwnedStays(q)
  BY <1>3 DEF UpCheckNetwork, GoRollBack
<1>4. CASE UpCreateNetwork(p)
  BY <1>4 DEF UpCreateNetwork, GoRollBack
<1>5. CASE UpNetworksDone(p)
  BY <1>5 DEF UpNetworksDone
<1>6. ASSUME NEW v \in VolNames, UpCheckVolume(p, v)
      PROVE  Untouched(q) /\ OwnedStays(q)
  BY <1>6 DEF UpCheckVolume, GoRollBack
<1>7. CASE UpCreateVolume(p)
  BY <1>7 DEF UpCreateVolume, GoRollBack
<1>8. CASE UpVolumesDone(p)
  BY <1>8 DEF UpVolumesDone
<1>9. CASE UpCancelled(p)
  BY <1>9 DEF UpCancelled
<1>10. ASSUME NEW s \in Services, UpService(p, s)
       PROVE  Untouched(q) /\ OwnedStays(q)
  BY <1>10 DEF UpService
<1>11. CASE UpImage(p)
  BY <1>11 DEF UpImage, GoRollBack
<1>12. CASE UpCreate(p)
  BY <1>12 DEF UpCreate, GoRollBack, CreateCtr, SetCtr
<1>13. CASE UpStart(p)
  BY <1>13 DEF UpStart, SetCtr
<1>14. CASE UpDone(p) \/ RollbackDone(p)
  BY <1>14 DEF UpDone, RollbackDone
<1>15. CASE RollbackContainer(p)
  BY <1>15 DEF RollbackContainer, SetCtr, Hindered
<1>16. ASSUME NEW v \in VolNames, RollbackVolume(p, v)
       PROVE  Untouched(q) /\ OwnedStays(q)
  BY <1>16 DEF RollbackVolume, Hindered
<1>17. ASSUME NEW n \in NetNames, RollbackNetwork(p, n)
       PROVE  Untouched(q) /\ OwnedStays(q)
  BY <1>17 DEF RollbackNetwork, Hindered
<1> QED BY <1>2, <1>3, <1>4, <1>5, <1>6, <1>7, <1>8, <1>9, <1>10, <1>11, <1>12, <1>13, <1>14,
           <1>15, <1>16, <1>17 DEF UpStep

LEMMA OtherLeavesOthers ==
    ASSUME NEW p \in Projects, NEW q \in Projects, q # p, OperationsInv, OtherStep(p)
    PROVE  Untouched(q) /\ OwnedStays(q)
<1>1. Domains /\ (pc[p] = "netRemove" => \A n \in todo[p] : nets[n] = p)
  BY TypeGivesDomains DEF OperationsInv, LoopsInHand
<1> USE <1>1, OwnersAssumption
    DEF Domains, Untouched, OwnedStays, Jump, Return, daemon, locals, ghosts
<1>2. CASE ListContainers(p)
  BY <1>2 DEF ListContainers
<1>3. CASE DownCancelled(p) \/ ContainersDone(p) \/ DownListNetworks(p) \/ DownDone(p)
  BY <1>3 DEF DownCancelled, ContainersDone, DownListNetworks, DownDone
<1>4. ASSUME NEW s \in Services, FirstCall(p, s)
      PROVE  Untouched(q) /\ OwnedStays(q)
  BY <1>4 DEF FirstCall, SetCtr
<1>5. CASE SecondCall(p)
  BY <1>5 DEF SecondCall, SetCtr
<1>6. ASSUME NEW n \in NetNames, DownRemoveNetwork(p, n)
      PROVE  Untouched(q) /\ OwnedStays(q)
  BY <1>6 DEF DownRemoveNetwork
<1> QED BY <1>2, <1>3, <1>4, <1>5, <1>6 DEF OtherStep

(* The part of the invariant that is about one project.                    *)
DependenciesFirstIn(p) ==
    \A i \in DOMAIN started[p] :
        \A d \in Deps[p][started[p][i]] \intersect (Targets(p) \ NoImage[p]) :
            \E j \in 1..(i - 1) : started[p][j] = d

OldContainersKept(p) == op[p] = "up" => \A s \in prior[p].ctrs : ctrs[p][s] # "absent"

AllOrNothing(p) ==
    op[p] = "up" =>
        /\ result[p] = "succeeded" =>
              \A s \in Targets(p) \ NoImage[p] :
                  s \in made[p].ctrs /\ ctrs[p][s] \in {"running", "exited"}
        /\ pc[p] = "idle" /\ p \notin hindered =>
              /\ result[p] \in {"rolled_back", "cancelled"} =>
                    \A s \in made[p].ctrs : ctrs[p][s] = "absent"
              /\ result[p] = "rolled_back" =>
                    /\ \A n \in made[p].nets : nets[n] # p
                    /\ \A v \in made[p].vols : vols[v] # p

ProjectInv(p) ==
    /\ LoopsInHand(p) /\ ListsAreTrue(p) /\ EachServiceHasItsTurn(p)
    /\ NothingForgotten(p) /\ OnlyNewUsers(p)
    /\ DependenciesFirstIn(p) /\ OldContainersKept(p) /\ AllOrNothing(p)

LEMMA InvByProject ==
    OperationsInv <=> TypeOK /\ UsedExist /\ \A p \in Projects : ProjectInv(p)
  BY DEF OperationsInv, ProjectInv, DependenciesFirst, DependenciesFirstIn, UpKeepsOldContainers,
         OldContainersKept, UpIsAllOrNothing, AllOrNothing

(* What an untouched project's operation knows remains true.               *)
LEMMA UntouchedKeeps ==
    ASSUME NEW q \in Projects, TypeOK, ProjectInv(q), Untouched(q), OwnedStays(q)
    PROVE  ProjectInv(q)'
<1>1. /\ madeNets[q] \subseteq NetNames /\ made[q].nets \subseteq NetNames
      /\ made[q].vols \subseteq VolNames
  BY DEF TypeOK
<1> USE DEF Untouched, ProjectInv
<1>2. Targets(q)' = Targets(q) /\ StartedByUp(q)' = StartedByUp(q)
      /\ Existing(q)' = Existing(q)
  BY DEF Targets, StartedByUp, Existing
<1>3. LoopsInHand(q)'
  BY <1>1, <1>2 DEF LoopsInHand, OwnedStays
<1>4. ListsAreTrue(q)' /\ EachServiceHasItsTurn(q)'
  BY <1>1, <1>2 DEF ListsAreTrue, EachServiceHasItsTurn, OwnedStays
<1>5. NothingForgotten(q)'
  BY <1>1, <1>2 DEF NothingForgotten, OwnedStays
<1>6. OnlyNewUsers(q)'
  BY DEF OnlyNewUsers, ResolveNetworks
<1>7. DependenciesFirstIn(q)' /\ OldContainersKept(q)'
  BY <1>2 DEF DependenciesFirstIn, OldContainersKept
<1>8. AllOrNothing(q)'
  BY <1>1, <1>2 DEF AllOrNothing, OwnedStays
<1> QED BY <1>3, <1>4, <1>5, <1>6, <1>7, <1>8


(* The steps that only move on in the code of the operation.               *)
LEMMA QuietKeeps ==
    ASSUME NEW p \in Projects, ProjectInv(p), pc'[p] # "start",
           UNCHANGED <<nets, vols, ctrs, op, scope, started, madeNets, madeVols,
                       prior, made, hindered>>
    PROVE  /\ Targets(p)' = Targets(p) /\ StartedByUp(p)' = StartedByUp(p)
           /\ ListsAreTrue(p)' /\ OnlyNewUsers(p)' /\ DependenciesFirstIn(p)'
           /\ OldContainersKept(p)'
<1>1. Targets(p)' = Targets(p) /\ StartedByUp(p)' = StartedByUp(p)
  BY DEF Targets, StartedByUp
<1>2. ListsAreTrue(p)' /\ OldContainersKept(p)'
  BY <1>1 DEF ProjectInv, ListsAreTrue, OldContainersKept
<1>3. OnlyNewUsers(p)'
  BY DEF ProjectInv, OnlyNewUsers, ResolveNetworks
<1>4. DependenciesFirstIn(p)'
  BY <1>1 DEF ProjectInv, DependenciesFirstIn
<1> QED BY <1>1, <1>2, <1>3, <1>4

LEMMA GoRollBackKeeps ==
    ASSUME NEW p \in Projects, Domains, ProjectInv(p), GoRollBack(p),
           pc[p] \in UpPcs \ {"start", "rollback"}
    PROVE  ProjectInv(p)'
<1>1. /\ pc'[p] = "rollback"
      /\ UNCHANGED <<nets, vols, ctrs, op, scope, cur, todo, started, madeNets, madeVols, result,
                     prior, made, hindered>>
  BY DEF GoRollBack, Jump, Domains, locals, ghosts
<1>2. /\ Targets(p)' = Targets(p) /\ StartedByUp(p)' = StartedByUp(p)
      /\ ListsAreTrue(p)' /\ OnlyNewUsers(p)' /\ DependenciesFirstIn(p)'
      /\ OldContainersKept(p)'
  BY <1>1, QuietKeeps
<1>3. LoopsInHand(p)' /\ EachServiceHasItsTurn(p)'
  BY <1>1 DEF ProjectInv, LoopsInHand, EachServiceHasItsTurn, UpPcs, OtherPcs, ServicePcs
<1>4. NothingForgotten(p)'
  BY <1>1, <1>2 DEF ProjectInv, NothingForgotten
<1>5. AllOrNothing(p)'
  BY <1>1 DEF ProjectInv, LoopsInHand, AllOrNothing, UpPcs, ServicePcs
<1> QED BY <1>2, <1>3, <1>4, <1>5 DEF ProjectInv

LEMMA UpMovesKeeps ==
    ASSUME NEW p \in Projects, ProjectInv(p),
           UNCHANGED <<nets, vols, ctrs, op, scope, started, madeNets, madeVols,
                       prior, made, hindered>>,
           pc[p] \in UpPcs \ {"start", "rollback"}, pc'[p] \notin {"start", "rollback"},
           LoopsInHand(p)', EachServiceHasItsTurn(p)',
           \/ pc'[p] \in UpPcs /\ result'[p] = result[p]
           \/ pc'[p] = "idle" /\ result'[p] = "error"
           \/ pc'[p] = "idle" /\ result'[p] = "succeeded" /\ pc[p] = "services" /\ todo[p] = {}
    PROVE  ProjectInv(p)'
<1>1. /\ Targets(p)' = Targets(p) /\ StartedByUp(p)' = StartedByUp(p)
      /\ ListsAreTrue(p)' /\ OnlyNewUsers(p)' /\ DependenciesFirstIn(p)'
      /\ OldContainersKept(p)'
  BY QuietKeeps
<1>2. result[p] = "running" /\ op[p] = "up"
  BY DEF ProjectInv, LoopsInHand, UpPcs, ServicePcs
<1>3. NothingForgotten(p)'
  BY <1>1, <1>2 DEF ProjectInv, NothingForgotten, UpPcs, ServicePcs
<1>4. AllOrNothing(p)'
  BY <1>1, <1>2 DEF ProjectInv, AllOrNothing, EachServiceHasItsTurn, ListsAreTrue, ServicePcs
<1> QED BY <1>1, <1>3, <1>4 DEF ProjectInv

(* The steps of Up that change nothing in the daemon nor in its lists.     *)
LEMMA UpQuietKeeps ==
    ASSUME NEW p \in Projects, Domains, ProjectInv(p),
           \/ UpPorts(p) \/ UpNetworksDone(p) \/ UpVolumesDone(p) \/ UpImage(p) \/ UpDone(p)
           \/ \E n \in NetNames : UpCheckNetwork(p, n)
           \/ \E v \in VolNames : UpCheckVolume(p, v)
           \/ \E s \in Services : UpService(p, s)
    PROVE  ProjectInv(p)'
<1>1. LoopsInHand(p) /\ EachServiceHasItsTurn(p)
  BY DEF ProjectInv
<1>2. CASE GoRollBack(p) /\ pc[p] \in {"nets", "vols", "image"}
  BY <1>2, GoRollBackKeeps DEF UpPcs, ServicePcs
<1> USE <1>1 DEF Jump, Return, daemon, locals, ghosts, Domains, UpPcs, OtherPcs, ServicePcs
<1>3. CASE UpPorts(p)
  <2>1. LoopsInHand(p)' /\ EachServiceHasItsTurn(p)'
    BY <1>3 DEF UpPorts, LoopsInHand, EachServiceHasItsTurn, Targets
  <2> QED BY <1>3, <2>1, UpMovesKeeps DEF UpPorts
<1>4. CASE UpNetworksDone(p)
  <2>1. LoopsInHand(p)' /\ EachServiceHasItsTurn(p)'
    BY <1>4 DEF UpNetworksDone, LoopsInHand, EachServiceHasItsTurn, Targets
  <2> QED BY <1>4, <2>1, UpMovesKeeps DEF UpNetworksDone
<1>5. CASE UpVolumesDone(p)
  <2>1. LoopsInHand(p)' /\ EachServiceHasItsTurn(p)'
    BY <1>5 DEF UpVolumesDone, LoopsInHand, EachServiceHasItsTurn, Targets
  <2> QED BY <1>5, <2>1, UpMovesKeeps DEF UpVolumesDone
<1>6. CASE UpImage(p) /\ ~GoRollBack(p)
  <2>1. LoopsInHand(p)' /\ EachServiceHasItsTurn(p)'
    BY <1>6 DEF UpImage, LoopsInHand, EachServiceHasItsTurn, Targets, StartedByUp
  <2> QED BY <1>6, <2>1, UpMovesKeeps DEF UpImage
<1>7. CASE UpDone(p)
  <2>1. LoopsInHand(p)' /\ EachServiceHasItsTurn(p)'
    BY <1>7 DEF UpDone, LoopsInHand, EachServiceHasItsTurn, Targets
  <2> QED BY <1>7, <2>1, UpMovesKeeps DEF UpDone
<1>8. ASSUME NEW n \in NetNames, UpCheckNetwork(p, n), ~GoRollBack(p)
      PROVE  ProjectInv(p)'
  <2>1. LoopsInHand(p)' /\ EachServiceHasItsTurn(p)'
    BY <1>8 DEF UpCheckNetwork, LoopsInHand, EachServiceHasItsTurn, Targets
  <2> QED BY <1>8, <2>1, UpMovesKeeps DEF UpCheckNetwork
<1>9. ASSUME NEW v \in VolNames, UpCheckVolume(p, v), ~GoRollBack(p)
      PROVE  ProjectInv(p)'
  <2>1. LoopsInHand(p)' /\ EachServiceHasItsTurn(p)'
    BY <1>9 DEF UpCheckVolume, LoopsInHand, EachServiceHasItsTurn, Targets
  <2> QED BY <1>9, <2>1, UpMovesKeeps DEF UpCheckVolume
<1>10. ASSUME NEW s \in Services, UpService(p, s)
       PROVE  ProjectInv(p)'
  <2>1. LoopsInHand(p)' /\ EachServiceHasItsTurn(p)'
    BY <1>10 DEF UpService, Ready, LoopsInHand, EachServiceHasItsTurn, Targets, StartedByUp
  <2> QED BY <1>10, <2>1, UpMovesKeeps DEF UpService
<1> QED BY <1>2, <1>3, <1>4, <1>5, <1>6, <1>7, <1>8, <1>9, <1>10
        DEF UpImage, UpCheckNetwork, UpCheckVolume

(* NetworkCreate of Up.  A network that does not exist has no users.       *)
LEMMA UpCreateNetworkKeeps ==
    ASSUME NEW p \in Projects, TypeOK, UsedExist, ProjectInv(p), UpCreateNetwork(p)
    PROVE  ProjectInv(p)'
<1>1. /\ Domains /\ madeNets[p] \subseteq NetNames
      /\ made[p] \in [ctrs : SUBSET Services, nets : SUBSET NetNames, vols : SUBSET VolNames]
  BY TypeGivesDomains DEF TypeOK
<1>2. CASE GoRollBack(p)
  BY <1>1, <1>2, GoRollBackKeeps DEF UpCreateNetwork, UpPcs, ServicePcs
<1>3. ASSUME ~GoRollBack(p)
      PROVE  ProjectInv(p)'
  <2> DEFINE n == cur[p]
  <2>1. /\ pc[p] = "netCreate" /\ pc'[p] = "nets" /\ n \in NetNames \intersect Nets[p]
        /\ UNCHANGED <<vols, ctrs, op, scope, cur, todo, started, madeVols, result, prior,
                       hindered>>
        /\ op[p] = "up" /\ result[p] = "running"
    BY <1>1, <1>3 DEF UpCreateNetwork, Jump, Domains, ProjectInv, LoopsInHand, UpPcs
  <2>2. \/ /\ nets[n] = Absent /\ nets' = [nets EXCEPT ![n] = p]
           /\ madeNets'[p] = madeNets[p] \union {n}
           /\ made'[p] = [made[p] EXCEPT !.nets = @ \union {n}]
        \/ UNCHANGED <<nets, madeNets, made>>
    BY <1>1, <1>3 DEF UpCreateNetwork, Domains
  <2>3. /\ made'[p].ctrs = made[p].ctrs /\ made'[p].vols = made[p].vols
        /\ made'[p].nets \subseteq made[p].nets \union {n}
        /\ nets[n] # Absent => made'[p].nets = made[p].nets
    BY <1>1, <2>2
  <2>4. Targets(p)' = Targets(p) /\ StartedByUp(p)' = StartedByUp(p)
    BY <2>1 DEF Targets, StartedByUp
  <2> HIDE DEF n
  <2> USE DEF ProjectInv, UpPcs, OtherPcs, ServicePcs
  <2>5. LoopsInHand(p)' /\ EachServiceHasItsTurn(p)'
    BY <2>1 DEF LoopsInHand, EachServiceHasItsTurn
  <2>6. ListsAreTrue(p)'
    BY <1>1, <2>1, <2>2, <2>3, <2>4 DEF ListsAreTrue, Domains
  <2>7. NothingForgotten(p)'
    BY <1>1, <2>1, <2>2, <2>3, <2>4 DEF NothingForgotten, Domains
  <2>8. OnlyNewUsers(p)'
    <3>1. nets[n] = Absent =>
              \A s \in Svcs[p] : ctrs[p][s] = "running" => Head(ResolveNetworks(p, s)) # n
      BY <2>1 DEF UsedExist, Joined
    <3> QED BY <2>1, <2>3, <3>1 DEF OnlyNewUsers, ResolveNetworks
  <2>9. DependenciesFirstIn(p)' /\ OldContainersKept(p)' /\ AllOrNothing(p)'
    BY <2>1, <2>4 DEF DependenciesFirstIn, OldContainersKept, AllOrNothing
  <2> QED BY <2>5, <2>6, <2>7, <2>8, <2>9
<1> QED BY <1>2, <1>3

(* VolumeCreate of Up.  A volume that does not exist is mounted nowhere.   *)
LEMMA UpCreateVolumeKeeps ==
    ASSUME NEW p \in Projects, TypeOK, UsedExist, ProjectInv(p), UpCreateVolume(p)
    PROVE  ProjectInv(p)'
<1>1. Domains /\ made[p] \in [ctrs : SUBSET Services, nets : SUBSET NetNames,
                              vols : SUBSET VolNames]
  BY TypeGivesDomains DEF TypeOK
<1>2. CASE GoRollBack(p)
  BY <1>1, <1>2, GoRollBackKeeps DEF UpCreateVolume, UpPcs, ServicePcs
<1>3. ASSUME ~GoRollBack(p)
      PROVE  ProjectInv(p)'
  <2> DEFINE v == cur[p]
  <2>1. /\ pc[p] = "volCreate" /\ pc'[p] = "vols" /\ v \in VolNames \intersect Vols[p]
        /\ UNCHANGED <<nets, ctrs, op, scope, cur, todo, started, madeNets, result, prior,
                       hindered>>
        /\ op[p] = "up" /\ result[p] = "running" /\ madeVols'[p] = madeVols[p] \union {v}
    BY <1>1, <1>3 DEF UpCreateVolume, Jump, Domains, ProjectInv, LoopsInHand, UpPcs
  <2>2. \/ /\ vols[v] = Absent /\ vols' = [vols EXCEPT ![v] = p]
           /\ made'[p] = [made[p] EXCEPT !.vols = @ \union {v}]
        \/ UNCHANGED <<vols, made>>
    BY <1>1, <1>3 DEF UpCreateVolume, Domains
  <2>3. /\ made'[p].ctrs = made[p].ctrs /\ made'[p].nets = made[p].nets
        /\ made'[p].vols \subseteq made[p].vols \union {v}
        /\ vols[v] # Absent => made'[p].vols = made[p].vols
    BY <1>1, <2>2
  <2>4. Targets(p)' = Targets(p) /\ StartedByUp(p)' = StartedByUp(p)
    BY <2>1 DEF Targets, StartedByUp
  <2> HIDE DEF v
  <2> USE DEF ProjectInv, UpPcs, OtherPcs, ServicePcs
  <2>5. LoopsInHand(p)' /\ EachServiceHasItsTurn(p)'
    BY <2>1 DEF LoopsInHand, EachServiceHasItsTurn
  <2>6. ListsAreTrue(p)'
    BY <1>1, <2>1, <2>2, <2>3, <2>4 DEF ListsAreTrue, Domains
  <2>7. NothingForgotten(p)'
    BY <1>1, <2>1, <2>2, <2>3, <2>4 DEF NothingForgotten, Domains
  <2>8. OnlyNewUsers(p)'
    <3>1. vols[v] = Absent =>
              \A s \in Svcs[p] : ctrs[p][s] # "absent" => v \notin Mounts[p][s]
      BY <2>1 DEF UsedExist, Mounting
    <3> QED BY <2>1, <2>3, <3>1 DEF OnlyNewUsers, ResolveNetworks
  <2>9. DependenciesFirstIn(p)' /\ OldContainersKept(p)' /\ AllOrNothing(p)'
    BY <2>1, <2>4 DEF DependenciesFirstIn, OldContainersKept, AllOrNothing
  <2> QED BY <2>5, <2>6, <2>7, <2>8, <2>9
<1> QED BY <1>2, <1>3

LEMMA UpCancelledKeeps ==
    ASSUME NEW p \in Projects, Domains, ProjectInv(p), UpCancelled(p)
    PROVE  ProjectInv(p)'
<1>1. /\ pc[p] = "services" /\ pc'[p] = "rollback" /\ result'[p] = "cancelled"
      /\ madeNets'[p] = {}
      /\ UNCHANGED <<nets, vols, ctrs, op, scope, cur, todo, started, prior, made, hindered>>
  BY DEF UpCancelled, Jump, Domains, daemon, ghosts
<1>2. Targets(p)' = Targets(p) /\ StartedByUp(p)' = StartedByUp(p)
  BY <1>1 DEF Targets, StartedByUp
<1> USE DEF ProjectInv, UpPcs, OtherPcs, ServicePcs
<1>3. LoopsInHand(p)' /\ EachServiceHasItsTurn(p)' /\ NothingForgotten(p)'
  BY <1>1, <1>2 DEF LoopsInHand, EachServiceHasItsTurn, NothingForgotten
<1>4. ListsAreTrue(p)' /\ OnlyNewUsers(p)'
  BY <1>1, <1>2 DEF ListsAreTrue, OnlyNewUsers, ResolveNetworks
<1>5. DependenciesFirstIn(p)' /\ OldContainersKept(p)' /\ AllOrNothing(p)'
  BY <1>1, <1>2 DEF DependenciesFirstIn, OldContainersKept, AllOrNothing
<1> QED BY <1>3, <1>4, <1>5

(* ContainerCreate of Up.  A container is only created where there is none. *)
LEMMA UpCreateKeeps ==
    ASSUME NEW p \in Projects, TypeOK, ProjectInv(p), UpCreate(p)
    PROVE  ProjectInv(p)'
<1>1. /\ Domains /\ DOMAIN ctrs[p] = Services
      /\ made[p] \in [ctrs : SUBSET Services, nets : SUBSET NetNames, vols : SUBSET VolNames]
  BY TypeGivesDomains DEF TypeOK
<1>2. CASE GoRollBack(p)
  BY <1>1, <1>2, GoRollBackKeeps DEF UpCreate, UpPcs, ServicePcs
<1>3. ASSUME ~GoRollBack(p)
      PROVE  ProjectInv(p)'
  <2> DEFINE s == cur[p]
  <2>1. /\ pc[p] = "create" /\ pc'[p] = "start" /\ ctrs[p][s] = "absent"
        /\ UNCHANGED <<nets, op, scope, cur, todo, started, madeNets, madeVols, result, prior,
                       hindered>>
        /\ op[p] = "up" /\ result[p] = "running"
        /\ s \in Targets(p) \ NoImage[p] /\ s \in Svcs[p] /\ s \in Services
    BY <1>1, <1>3, SvcsAssumption
       DEF UpCreate, Jump, Domains, ProjectInv, LoopsInHand, UpPcs, ServicePcs, locals, Targets
  <2>2. /\ ctrs'[p] = [ctrs[p] EXCEPT ![s] = "created"]
        /\ made'[p] = [made[p] EXCEPT !.ctrs = @ \union {s}]
        /\ vols' = [v \in VolNames |->
                      IF v \in Mounts[p][s] /\ vols[v] = Absent THEN Unmanaged ELSE vols[v]]
    BY <1>1, <1>3 DEF UpCreate, CreateCtr, SetCtr, Domains
  <2>3. /\ made'[p].ctrs = made[p].ctrs \union {s} /\ made'[p].nets = made[p].nets
        /\ made'[p].vols = made[p].vols
    BY <1>1, <2>2
  <2>4. /\ ctrs'[p][s] = "created"
        /\ \A t \in Services \ {s} : ctrs'[p][t] = ctrs[p][t]
        /\ \A v \in made[p].vols : vols'[v] = p => vols[v] = p
    BY <1>1, <2>1, <2>2, OwnersAssumption
  <2>5. Targets(p)' = Targets(p) /\ StartedByUp(p)' = StartedByUp(p)
    BY <2>1 DEF Targets, StartedByUp
  <2>6. Targets(p) \subseteq Services /\ Svcs[p] \subseteq Services
    BY SvcsAssumption DEF Targets
  <2> HIDE DEF s
  <2> USE DEF ProjectInv, UpPcs, OtherPcs, ServicePcs
  <2>7. LoopsInHand(p)'
    BY <2>1, <2>5 DEF LoopsInHand
  <2>8. EachServiceHasItsTurn(p)'
    BY <2>1, <2>4, <2>5, <2>6 DEF EachServiceHasItsTurn, s
  <2>9. ListsAreTrue(p)'
    BY <2>1, <2>3, <2>4, <2>5 DEF ListsAreTrue, OldContainersKept, Existing, s
  <2>10. NothingForgotten(p)'
    BY <2>1, <2>3, <2>4, <2>5 DEF NothingForgotten, s
  <2>11. OnlyNewUsers(p)'
    BY <2>1, <2>3, <2>4, <2>6 DEF OnlyNewUsers, ResolveNetworks
  <2>12. OldContainersKept(p)'
    BY <1>1, <2>1, <2>2, <2>4 DEF OldContainersKept
  <2>13. DependenciesFirstIn(p)' /\ AllOrNothing(p)'
    BY <2>1, <2>5 DEF DependenciesFirstIn, AllOrNothing
  <2> QED BY <2>7, <2>8, <2>9, <2>10, <2>11, <2>12, <2>13
<1> QED BY <1>2, <1>3


(* The elements of a sequence that grows or shrinks at its end.            *)
LEMMA ElementsOfAppend ==
    ASSUME NEW S, NEW s \in Seq(S), NEW x \in S
    PROVE  /\ Len(s) \in Nat /\ DOMAIN s = 1..Len(s) /\ DOMAIN Append(s, x) = 1..(Len(s) + 1)
           /\ \A i \in 1..Len(s) : Append(s, x)[i] = s[i]
           /\ Append(s, x)[Len(s) + 1] = x
           /\ Append(s, x) \in Seq(S)
  OBVIOUS

LEMMA ElementsOfFront ==
    ASSUME NEW S, NEW s \in Seq(S), s # <<>>
    PROVE  /\ Len(s) \in Nat /\ Len(s) > 0 /\ DOMAIN s = 1..Len(s)
           /\ DOMAIN SubSeq(s, 1, Len(s) - 1) = 1..(Len(s) - 1)
           /\ \A i \in 1..(Len(s) - 1) : SubSeq(s, 1, Len(s) - 1)[i] = s[i]
           /\ SubSeq(s, 1, Len(s) - 1) \in Seq(S)
  OBVIOUS

(* ContainerStart of Up: the service joins startedContainers, whether the  *)
(* container starts or is the first to be rolled back.                     *)
LEMMA UpStartKeeps ==
    ASSUME NEW p \in Projects, TypeOK, ProjectInv(p), UpStart(p)
    PROVE  ProjectInv(p)'
<1> DEFINE s == cur[p]
           L == Len(started[p])
<1>1. /\ Domains /\ DOMAIN ctrs[p] = Services /\ started[p] \in Seq(Services)
  BY TypeGivesDomains DEF TypeOK
<1>2. /\ pc[p] = "start" /\ pc'[p] \in {"services", "rollback"}
      /\ started'[p] = Append(started[p], s)
      /\ UNCHANGED <<nets, vols, op, scope, cur, todo, madeNets, madeVols, result, prior, made,
                     hindered>>
      /\ op[p] = "up" /\ result[p] = "running"
      /\ s \in Targets(p) \ NoImage[p] /\ s \in Svcs[p] /\ s \in Services
      /\ s \in made[p].ctrs /\ Deps[p][s] \intersect (todo[p] \union {s}) = {}
  BY <1>1, SvcsAssumption
     DEF UpStart, Jump, Domains, ProjectInv, LoopsInHand, ListsAreTrue, UpPcs, ServicePcs, ghosts,
         Targets
<1>3. \/ pc'[p] = "services" /\ ctrs'[p] = [ctrs[p] EXCEPT ![s] = "running"]
      \/ pc'[p] = "rollback" /\ ctrs'[p] = ctrs[p]
  BY <1>1, <1>2 DEF UpStart, SetCtr, Jump, Domains
<1>4. /\ pc'[p] = "services" => ctrs'[p][s] = "running"
      /\ \A t \in Services \ {s} : ctrs'[p][t] = ctrs[p][t]
      /\ \A t \in Services : ctrs'[p][t] = ctrs[p][t] \/ ctrs'[p][t] = "running"
  BY <1>1, <1>2, <1>3
<1>5. /\ L \in Nat /\ DOMAIN started[p] = 1..L /\ DOMAIN started'[p] = 1..(L + 1)
      /\ \A i \in 1..L : started'[p][i] = started[p][i]
      /\ started'[p][L + 1] = s
  BY <1>1, <1>2, ElementsOfAppend
<1> HIDE DEF s, L
<1>6. StartedByUp(p)' = StartedByUp(p) \union {s}
  <2>1. \A i \in 1..(L + 1) : i \in 1..L \/ i = L + 1
    BY <1>5
  <2>2. 1..L \subseteq 1..(L + 1) /\ L + 1 \in 1..(L + 1)
    BY <1>5
  <2> QED BY <1>5, <2>1, <2>2 DEF StartedByUp
<1>7. /\ Targets(p)' = Targets(p) /\ Targets(p) \subseteq Services
      /\ Svcs[p] \subseteq Services
  BY <1>2, SvcsAssumption DEF Targets
<1> USE DEF ProjectInv, UpPcs, OtherPcs, ServicePcs
<1>8. LoopsInHand(p)'
  BY <1>2, <1>7 DEF LoopsInHand
<1>9. ListsAreTrue(p)'
  BY <1>2, <1>6 DEF ListsAreTrue
<1>10. EachServiceHasItsTurn(p)'
  BY <1>2, <1>4, <1>6, <1>7 DEF EachServiceHasItsTurn, s
<1>11. NothingForgotten(p)'
  BY <1>2, <1>6 DEF NothingForgotten, s
<1>12. OnlyNewUsers(p)'
  BY <1>2, <1>4, <1>7 DEF OnlyNewUsers, ResolveNetworks
<1>13. OldContainersKept(p)'
  <2>1. prior[p].ctrs \subseteq Services
    BY DEF TypeOK
  <2> QED BY <1>2, <1>4, <2>1 DEF OldContainersKept
<1>14. DependenciesFirstIn(p)'
  <2> SUFFICES ASSUME NEW i \in 1..(L + 1),
                      NEW d \in Deps[p][started'[p][i]] \intersect (Targets(p) \ NoImage[p])
               PROVE  \E j \in 1..(i - 1) : started'[p][j] = d
    BY <1>5, <1>7 DEF DependenciesFirstIn
  <2>1. CASE i \in 1..L
    <3>1. PICK j \in 1..(i - 1) : started[p][j] = d
      BY <1>5, <2>1 DEF DependenciesFirstIn
    <3>2. j \in 1..L
      BY <1>5, <2>1
    <3> QED BY <1>5, <3>1, <3>2
  <2>2. CASE i = L + 1
    <3>1. d \in Deps[p][s] /\ d \notin todo[p] /\ d # s
      BY <1>2, <1>5, <2>2
    <3>2. d \in StartedByUp(p)
      BY <1>2, <3>1 DEF EachServiceHasItsTurn, s
    <3>3. PICK j \in 1..L : started[p][j] = d
      BY <1>5, <3>2 DEF StartedByUp
    <3>4. j \in 1..(i - 1)
      BY <1>5, <2>2
    <3> QED BY <1>5, <3>3, <3>4
  <2> QED BY <1>5, <2>1, <2>2
<1>15. AllOrNothing(p)'
  BY <1>2 DEF AllOrNothing
<1> QED BY <1>8, <1>9, <1>10, <1>11, <1>12, <1>13, <1>14, <1>15


(* The rollback removes the container that was started last.               *)
LEMMA RollbackContainerKeeps ==
    ASSUME NEW p \in Projects, TypeOK, ProjectInv(p), RollbackContainer(p)
    PROVE  ProjectInv(p)'
<1> DEFINE L == Len(started[p])
           s == started[p][L]
<1>1. /\ Domains /\ DOMAIN ctrs[p] = Services /\ started[p] \in Seq(Services)
      /\ prior[p].ctrs \subseteq Services /\ made[p].ctrs \subseteq Services
      /\ Svcs[p] \subseteq Services
  BY TypeGivesDomains, SvcsAssumption DEF TypeOK
<1>2. /\ pc[p] = "rollback" /\ started[p] # <<>>
      /\ started'[p] = SubSeq(started[p], 1, L - 1)
      /\ UNCHANGED <<nets, vols, op, scope, pc, cur, todo, madeNets, madeVols, result, prior, made>>
      /\ op[p] = "up" /\ result[p] \in {"running", "cancelled"}
  BY <1>1 DEF RollbackContainer, Domains, ProjectInv, LoopsInHand, UpPcs
<1>3. \/ ctrs'[p] = [ctrs[p] EXCEPT ![s] = "absent"] /\ hindered' = hindered
      \/ ctrs'[p] = ctrs[p] /\ p \in hindered'
  BY <1>1 DEF RollbackContainer, SetCtr, Hindered, Domains
<1>4. /\ L \in Nat /\ L > 0 /\ DOMAIN started[p] = 1..L /\ DOMAIN started'[p] = 1..(L - 1)
      /\ \A i \in 1..(L - 1) : started'[p][i] = started[p][i]
  BY <1>1, <1>2, ElementsOfFront
<1>5. s \in StartedByUp(p)
  BY <1>4 DEF StartedByUp
<1>6. s \in made[p].ctrs /\ s \notin prior[p].ctrs /\ s \in Services
  BY <1>1, <1>5 DEF ProjectInv, ListsAreTrue
<1>7. /\ p \notin hindered' => ctrs'[p][s] = "absent" /\ p \notin hindered
      /\ \A t \in Services \ {s} : ctrs'[p][t] = ctrs[p][t]
      /\ \A t \in Services : ctrs'[p][t] = ctrs[p][t] \/ ctrs'[p][t] = "absent"
  BY <1>1, <1>3, <1>6
<1> HIDE DEF s
<1>8. StartedByUp(p)' \subseteq StartedByUp(p) /\ StartedByUp(p) \subseteq StartedByUp(p)' \union {s}
  <2> HIDE DEF L
  <2>1. (\A i \in 1..L : i \in 1..(L - 1) \/ i = L) /\ 1..(L - 1) \subseteq 1..L
    BY <1>4
  <2> QED BY <1>4, <2>1 DEF StartedByUp, s
<1>9. Targets(p)' = Targets(p)
  BY <1>2 DEF Targets
<1> HIDE DEF L
<1> USE DEF ProjectInv, UpPcs, OtherPcs, ServicePcs
<1>10. LoopsInHand(p)' /\ EachServiceHasItsTurn(p)' /\ AllOrNothing(p)'
  BY <1>2 DEF LoopsInHand, EachServiceHasItsTurn, AllOrNothing
<1>11. ListsAreTrue(p)'
  BY <1>2, <1>8 DEF ListsAreTrue
<1>12. NothingForgotten(p)'
  BY <1>1, <1>2, <1>7, <1>8 DEF NothingForgotten
<1>13. OnlyNewUsers(p)'
  BY <1>1, <1>2, <1>7 DEF OnlyNewUsers, ResolveNetworks
<1>14. OldContainersKept(p)'
  BY <1>1, <1>2, <1>6, <1>7 DEF OldContainersKept
<1>15. DependenciesFirstIn(p)'
  <2> SUFFICES ASSUME NEW i \in 1..(L - 1),
                      NEW d \in Deps[p][started'[p][i]] \intersect (Targets(p) \ NoImage[p])
               PROVE  \E j \in 1..(i - 1) : started'[p][j] = d
    BY <1>4, <1>9 DEF DependenciesFirstIn
  <2>1. i \in 1..L
    BY <1>4
  <2>2. PICK j \in 1..(i - 1) : started[p][j] = d
    BY <1>4, <2>1 DEF DependenciesFirstIn
  <2>3. j \in 1..(L - 1)
    BY <1>4, <2>1
  <2> QED BY <1>4, <2>2, <2>3
<1> QED BY <1>10, <1>11, <1>12, <1>13, <1>14, <1>15

(* The rollback removes a volume: when only a container of the project     *)
(* could be in the way, there is none, as the new ones are gone.           *)
LEMMA RollbackVolumeKeeps ==
    ASSUME NEW p \in Projects, TypeOK, ProjectInv(p), NEW v \in VolNames, RollbackVolume(p, v)
    PROVE  ProjectInv(p)'
<1>1. /\ Domains /\ started[p] \in Seq(Services) /\ made[p].vols \subseteq VolNames
  BY TypeGivesDomains DEF TypeOK
<1>2. /\ pc[p] = "rollback" /\ started[p] = <<>> /\ v \in madeVols[p]
      /\ madeVols'[p] = madeVols[p] \ {v}
      /\ UNCHANGED <<nets, ctrs, op, scope, pc, cur, todo, started, madeNets, result, prior, made>>
      /\ op[p] = "up" /\ result[p] \in {"running", "cancelled"}
  BY <1>1 DEF RollbackVolume, ContainersGone, Domains, ProjectInv, LoopsInHand, UpPcs
<1>3. StartedByUp(p) = {}
  BY <1>2 DEF StartedByUp
<1>4. \/ vols' = [vols EXCEPT ![v] = Absent] /\ hindered' = hindered
      \/ Mounting(v, Projects) /\ ~Mounting(v, Projects \ {p}) /\ UNCHANGED <<vols, hindered>>
      \/ UNCHANGED vols /\ p \in hindered'
  BY DEF RollbackVolume, Hindered
<1>5. ASSUME p \notin hindered', result[p] = "running", v \in made[p].vols
      PROVE  vols'[v] # p
  <2>1. p \notin hindered
    BY <1>4, <1>5
  <2>2. \A s \in made[p].ctrs : ctrs[p][s] = "absent"
    BY <1>2, <1>3, <1>5, <2>1 DEF ProjectInv, NothingForgotten, UpPcs
  <2>3. \A s \in Svcs[p] : ctrs[p][s] # "absent" => v \notin Mounts[p][s]
    BY <1>5, <2>2 DEF ProjectInv, OnlyNewUsers
  <2>4. ~(Mounting(v, Projects) /\ ~Mounting(v, Projects \ {p}))
    BY <2>3 DEF Mounting
  <2> QED BY <1>1, <1>4, <1>5, <2>4, OwnersAssumption DEF Domains
<1>6. \A u \in VolNames \ {v} : vols'[u] = vols[u]
  BY <1>1, <1>4 DEF Domains
<1>7. p \notin hindered' => p \notin hindered
  BY <1>4
<1>8. Targets(p)' = Targets(p) /\ StartedByUp(p)' = StartedByUp(p)
  BY <1>2 DEF Targets, StartedByUp
<1> USE DEF ProjectInv, UpPcs, OtherPcs, ServicePcs
<1>9. LoopsInHand(p)' /\ EachServiceHasItsTurn(p)' /\ AllOrNothing(p)'
  BY <1>2 DEF LoopsInHand, EachServiceHasItsTurn, AllOrNothing
<1>10. ListsAreTrue(p)' /\ OldContainersKept(p)' /\ OnlyNewUsers(p)'
  BY <1>2, <1>8 DEF ListsAreTrue, OldContainersKept, OnlyNewUsers, ResolveNetworks
<1>11. NothingForgotten(p)'
  BY <1>1, <1>2, <1>5, <1>6, <1>7, <1>8 DEF NothingForgotten
<1>12. DependenciesFirstIn(p)'
  BY <1>2, <1>8 DEF DependenciesFirstIn
<1> QED BY <1>9, <1>10, <1>11, <1>12

LEMMA RollbackNetworkKeeps ==
    ASSUME NEW p \in Projects, TypeOK, ProjectInv(p), NEW n \in NetNames, RollbackNetwork(p, n)
    PROVE  ProjectInv(p)'
<1>1. /\ Domains /\ started[p] \in Seq(Services) /\ made[p].nets \subseteq NetNames
      /\ madeNets[p] \subseteq NetNames
  BY TypeGivesDomains DEF TypeOK
<1>2. /\ pc[p] = "rollback" /\ started[p] = <<>> /\ n \in madeNets[p]
      /\ madeNets'[p] = madeNets[p] \ {n}
      /\ UNCHANGED <<vols, ctrs, op, scope, pc, cur, todo, started, madeVols, result, prior, made>>
      /\ op[p] = "up" /\ result[p] \in {"running", "cancelled"}
  BY <1>1 DEF RollbackNetwork, ContainersGone, Domains, ProjectInv, LoopsInHand, UpPcs
<1>3. StartedByUp(p) = {}
  BY <1>2 DEF StartedByUp
<1>4. \/ nets' = [nets EXCEPT ![n] = Absent] /\ hindered' = hindered
      \/ Joined(n, Projects) /\ ~Joined(n, Projects \ {p}) /\ UNCHANGED <<nets, hindered>>
      \/ UNCHANGED nets /\ p \in hindered'
  BY DEF RollbackNetwork, Hindered
<1>5. ASSUME p \notin hindered', result[p] = "running", n \in made[p].nets
      PROVE  nets'[n] # p
  <2>1. p \notin hindered
    BY <1>4, <1>5
  <2>2. \A s \in made[p].ctrs : ctrs[p][s] = "absent"
    BY <1>2, <1>3, <1>5, <2>1 DEF ProjectInv, NothingForgotten, UpPcs
  <2>3. \A s \in Svcs[p] : ctrs[p][s] = "running" => Head(ResolveNetworks(p, s)) # n
    BY <1>5, <2>2 DEF ProjectInv, OnlyNewUsers
  <2>4. ~(Joined(n, Projects) /\ ~Joined(n, Projects \ {p}))
    BY <2>3 DEF Joined
  <2> QED BY <1>1, <1>4, <1>5, <2>4, OwnersAssumption DEF Domains
<1>6. \A m \in NetNames \ {n} : nets'[m] = nets[m]
  BY <1>1, <1>4 DEF Domains
<1>7. p \notin hindered' => p \notin hindered
  BY <1>4
<1>8. Targets(p)' = Targets(p) /\ StartedByUp(p)' = StartedByUp(p)
  BY <1>2 DEF Targets, StartedByUp
<1> USE DEF ProjectInv, UpPcs, OtherPcs, ServicePcs
<1>9. LoopsInHand(p)' /\ EachServiceHasItsTurn(p)' /\ AllOrNothing(p)'
  BY <1>2 DEF LoopsInHand, EachServiceHasItsTurn, AllOrNothing
<1>10. ListsAreTrue(p)' /\ OldContainersKept(p)' /\ OnlyNewUsers(p)'
  BY <1>1, <1>2, <1>6, <1>8 DEF ListsAreTrue, OldContainersKept, OnlyNewUsers, ResolveNetworks
<1>11. NothingForgotten(p)'
  BY <1>1, <1>2, <1>5, <1>6, <1>7, <1>8 DEF NothingForgotten
<1>12. DependenciesFirstIn(p)'
  BY <1>2, <1>8 DEF DependenciesFirstIn
<1> QED BY <1>9, <1>10, <1>11, <1>12

LEMMA RollbackDoneKeeps ==
    ASSUME NEW p \in Projects, Domains, ProjectInv(p), RollbackDone(p)
    PROVE  ProjectInv(p)'
<1>1. /\ pc[p] = "rollback" /\ pc'[p] = "idle"
      /\ started[p] = <<>> /\ madeVols[p] = {} /\ madeNets[p] = {}
      /\ result'[p] = (IF result[p] = "cancelled" THEN "cancelled" ELSE "rolled_back")
      /\ UNCHANGED <<nets, vols, ctrs, op, scope, started, madeNets, madeVols, prior, made, hindered>>
  BY DEF RollbackDone, Return, Jump, Domains, daemon, locals, ghosts
<1>2. result[p] = "running" \/ result[p] = "cancelled"
  BY <1>1 DEF ProjectInv, LoopsInHand
<1>3. /\ ListsAreTrue(p)' /\ OnlyNewUsers(p)' /\ DependenciesFirstIn(p)'
      /\ OldContainersKept(p)'
  BY <1>1, QuietKeeps
<1>4. LoopsInHand(p)' /\ EachServiceHasItsTurn(p)' /\ NothingForgotten(p)'
  BY <1>1 DEF LoopsInHand, EachServiceHasItsTurn, NothingForgotten, UpPcs, OtherPcs, ServicePcs
<1>5. AllOrNothing(p)'
  <2>1. StartedByUp(p) = {}
    BY <1>1 DEF StartedByUp
  <2> QED BY <1>1, <1>2, <2>1 DEF ProjectInv, NothingForgotten, AllOrNothing, UpPcs
<1> QED BY <1>3, <1>4, <1>5 DEF ProjectInv


(* The operations other than Up have made nothing that a rollback must     *)
(* know of, so they are free to start, stop and remove the project's       *)
(* containers and to remove its networks.                                  *)
LEMMA OtherKeeps ==
    ASSUME NEW p \in Projects, TypeOK, ProjectInv(p), OtherStep(p)
    PROVE  ProjectInv(p)'
<1> DEFINE Free == /\ UNCHANGED <<op, scope, started, madeNets, madeVols, prior, made, hindered, vols>>
                   /\ pc[p] \in OtherPcs /\ pc'[p] \in OtherPcs \union {"idle"}
                   /\ LoopsInHand(p)'
<1>1. ASSUME Free
      PROVE  ProjectInv(p)'
  <2>1. /\ op[p] # "up" /\ madeNets[p] = {}
        /\ made[p] = [ctrs |-> {}, nets |-> {}, vols |-> {}]
    BY <1>1 DEF ProjectInv, LoopsInHand
  <2>2. Targets(p)' = Targets(p) /\ StartedByUp(p)' = StartedByUp(p)
    BY <1>1 DEF Targets, StartedByUp
  <2> USE DEF ProjectInv, UpPcs, OtherPcs, ServicePcs
  <2>3. EachServiceHasItsTurn(p)' /\ NothingForgotten(p)'
    BY <1>1 DEF EachServiceHasItsTurn, NothingForgotten
  <2>4. ListsAreTrue(p)'
    BY <1>1, <2>1, <2>2 DEF ListsAreTrue
  <2>5. OnlyNewUsers(p)' /\ OldContainersKept(p)' /\ AllOrNothing(p)'
    BY <1>1, <2>1 DEF OnlyNewUsers, OldContainersKept, AllOrNothing
  <2>6. DependenciesFirstIn(p)'
    BY <1>1, <2>2 DEF DependenciesFirstIn
  <2> QED BY <1>1, <2>3, <2>4, <2>5, <2>6
<1>2. /\ LoopsInHand(p) /\ Domains
      /\ DOMAIN ctrs[p] = Services /\ Svcs[p] \subseteq Services
  BY TypeGivesDomains, SvcsAssumption DEF ProjectInv, TypeOK
<1> HIDE DEF Free
<1> USE <1>2 DEF Jump, Return, daemon, locals, ghosts, Domains, UpPcs, OtherPcs, ServicePcs
<1>3. CASE ListContainers(p)
  <2>1. LoopsInHand(p)'
    <3>1. Existing(p)' = Existing(p)
      BY <1>3 DEF ListContainers, Existing
    <3>2. /\ {s \in Targets(p) : ctrs[p][s] # "absent"} \subseteq Existing(p)
          /\ pc[p] = "list"
          /\ UNCHANGED <<op, madeNets, made, nets>>
      BY <1>3 DEF ListContainers, Targets, Existing
    <3>3. \/ pc'[p] = "idle"
          \/ /\ pc'[p] = "ctrs" /\ result'[p] = result[p]
             /\ todo'[p] \subseteq {s \in Targets(p) : ctrs[p][s] # "absent"}
      BY <1>3 DEF ListContainers
    <3> QED BY <3>1, <3>2, <3>3 DEF LoopsInHand
  <2> QED BY <1>1, <1>3, <2>1 DEF ListContainers, Free
<1>4. CASE DownCancelled(p)
  BY <1>1, <1>4 DEF DownCancelled, LoopsInHand, Free
<1>5. ASSUME NEW s \in Services, FirstCall(p, s)
      PROVE  ProjectInv(p)'
  <2>1. /\ pc[p] = "ctrs" /\ s \in todo[p] /\ s \in Existing(p) /\ todo'[p] = todo[p] \ {s}
        /\ cur'[p] = s /\ pc'[p] \in {"second", "ctrs"}
        /\ UNCHANGED <<op, madeNets, made, nets, result>>
    BY <1>5 DEF FirstCall, LoopsInHand
  <2>2. \/ ctrs' = ctrs
        \/ \E st \in {"running", Stopped(ctrs[p][s])} : ctrs' = [ctrs EXCEPT ![p][s] = st]
    BY <1>5 DEF FirstCall, SetCtr
  <2>3. ctrs[p][s] # "absent" /\ Stopped(ctrs[p][s]) # "absent"
    BY <2>1 DEF Existing, Stopped
  <2>4. Existing(p)' = Existing(p)
    BY <2>2, <2>3 DEF Existing
  <2>5. LoopsInHand(p)'
    BY <2>1, <2>4 DEF LoopsInHand
  <2> QED BY <1>1, <1>5, <2>5 DEF FirstCall, Free
<1>6. CASE SecondCall(p)
  <2>1. /\ pc[p] = "second" /\ pc'[p] = "ctrs" /\ cur[p] \in Existing(p) \ todo[p]
        /\ UNCHANGED <<op, madeNets, made, nets, result, cur, todo>>
    BY <1>6 DEF SecondCall, LoopsInHand
  <2>2. \/ ctrs' = ctrs
        \/ \E st \in {"running", "absent"} : ctrs' = [ctrs EXCEPT ![p][cur[p]] = st]
    BY <1>6 DEF SecondCall, SetCtr
  <2>3. Existing(p) \ {cur[p]} \subseteq Existing(p)'
    BY <2>2 DEF Existing
  <2>4. LoopsInHand(p)'
    BY <2>1, <2>3 DEF LoopsInHand
  <2> QED BY <1>1, <1>6, <2>4 DEF SecondCall, Free
<1>7. CASE ContainersDone(p)
  BY <1>1, <1>7 DEF ContainersDone, LoopsInHand, Free
<1>8. CASE DownListNetworks(p)
  BY <1>1, <1>8 DEF DownListNetworks, LoopsInHand, Free
<1>9. ASSUME NEW n \in NetNames, DownRemoveNetwork(p, n)
      PROVE  ProjectInv(p)'
  BY <1>1, <1>9 DEF DownRemoveNetwork, LoopsInHand, Free
<1>10. CASE DownDone(p)
  BY <1>1, <1>10 DEF DownDone, LoopsInHand, Free
<1> QED BY <1>3, <1>4, <1>5, <1>6, <1>7, <1>8, <1>9, <1>10 DEF OtherStep

(* executeOp starts with empty lists.                                      *)
LEMMA BeginKeeps ==
    ASSUME NEW p \in Projects, Domains, ProjectInv(p), Begin(p)
    PROVE  ProjectInv(p)'
<1>1. PICK t \in OpTypes :
          /\ op'[p] = t /\ pc'[p] = (IF t = "up" THEN "ports" ELSE "list")
          /\ todo'[p] = (IF t = "up" THEN Nets[p] ELSE {})
  BY DEF Begin, Jump, Domains
<1>2. /\ result'[p] = "running" /\ started'[p] = <<>> /\ madeNets'[p] = {} /\ madeVols'[p] = {}
      /\ prior'[p].ctrs = {s \in Svcs[p] : ctrs[p][s] # "absent"}
      /\ made'[p] = [ctrs |-> {}, nets |-> {}, vols |-> {}]
      /\ ctrs' = ctrs
  BY DEF Begin, Domains, daemon
<1>3. StartedByUp(p)' = {} /\ DOMAIN started'[p] = {}
  BY <1>2 DEF StartedByUp
<1> USE DEF UpPcs, OtherPcs, ServicePcs, OpTypes
<1>4. LoopsInHand(p)'
  BY <1>1, <1>2 DEF LoopsInHand
<1>5. ListsAreTrue(p)' /\ EachServiceHasItsTurn(p)' /\ NothingForgotten(p)'
  BY <1>1, <1>2, <1>3 DEF ListsAreTrue, EachServiceHasItsTurn, NothingForgotten
<1>6. OnlyNewUsers(p)' /\ OldContainersKept(p)' /\ AllOrNothing(p)'
  BY <1>1, <1>2 DEF OnlyNewUsers, OldContainersKept, AllOrNothing
<1>7. DependenciesFirstIn(p)'
  BY <1>3 DEF DependenciesFirstIn
<1> QED BY <1>4, <1>5, <1>6, <1>7 DEF ProjectInv

LEMMA BeginLeavesOthers ==
    ASSUME NEW p \in Projects, NEW q \in Projects, q # p, Domains, Begin(p)
    PROVE  Untouched(q) /\ OwnedStays(q)
<1>1. PICK t \in OpTypes, sc \in Scopes[p] :
          /\ op' = [op EXCEPT ![p] = t] /\ scope' = [scope EXCEPT ![p] = sc]
          /\ Jump(p, IF t = "up" THEN "ports" ELSE "list")
          /\ todo' = [todo EXCEPT ![p] = IF t = "up" THEN Nets[p] ELSE {}]
  BY DEF Begin
<1> QED BY <1>1 DEF Begin, Domains, Untouched, OwnedStays, Jump, daemon

(* A container that exits is still there.                                  *)
LEMMA CrashKeeps ==
    ASSUME NEW p \in Projects, NEW s \in Svcs[p], NEW q \in Projects,
           TypeOK, ProjectInv(q), Crash(p, s)
    PROVE  ProjectInv(q)'
<1>1. /\ Domains /\ DOMAIN ctrs[q] = Services /\ Svcs[q] \subseteq Services
      /\ DOMAIN ctrs[p] = Services /\ s \in Services
      /\ made[q].ctrs \subseteq Services /\ prior[q].ctrs \subseteq Services
  BY TypeGivesDomains, SvcsAssumption DEF TypeOK
<1>2. /\ UNCHANGED <<nets, vols, op, scope, pc, cur, todo, started, madeNets, madeVols, result,
                     prior, made, hindered>>
      /\ ctrs[p][s] = "running"
      /\ ctrs' = [ctrs EXCEPT ![p][s] = "exited"]
  BY DEF Crash, SetCtr, locals, ghosts
<1>3. \A t \in Services : \/ ctrs'[q][t] = ctrs[q][t]
                          \/ ctrs[q][t] = "running" /\ ctrs'[q][t] = "exited"
  BY <1>1, <1>2 DEF Domains
<1>4. /\ Targets(q)' = Targets(q) /\ StartedByUp(q)' = StartedByUp(q)
      /\ Targets(q) \subseteq Services
  BY <1>1, <1>2 DEF Targets, StartedByUp
<1> USE DEF ProjectInv
<1>5. LoopsInHand(q)' /\ ListsAreTrue(q)'
  <2>1. Existing(q)' = Existing(q)
    BY <1>1, <1>3 DEF Existing
  <2> QED BY <1>2, <1>4, <2>1 DEF LoopsInHand, ListsAreTrue
<1>6. EachServiceHasItsTurn(q)'
  BY <1>2, <1>3, <1>4 DEF EachServiceHasItsTurn
<1>7. NothingForgotten(q)'
  BY <1>1, <1>2, <1>3, <1>4 DEF NothingForgotten
<1>8. OnlyNewUsers(q)'
  BY <1>1, <1>2, <1>3 DEF OnlyNewUsers, ResolveNetworks
<1>9. DependenciesFirstIn(q)'
  BY <1>2, <1>4 DEF DependenciesFirstIn
<1>10. OldContainersKept(q)'
  BY <1>1, <1>2, <1>3 DEF OldContainersKept
<1>11. AllOrNothing(q)'
  BY <1>1, <1>2, <1>3, <1>4 DEF AllOrNothing
<1> QED BY <1>5, <1>6, <1>7, <1>8, <1>9, <1>10, <1>11


(* Steps that leave the daemon alone leave what is used alone.             *)
LEMMA DaemonAlone ==
    ASSUME UsedExist, UNCHANGED <<nets, vols, ctrs>>
    PROVE  UsedExist'
  BY DEF UsedExist, Mounting, Joined, ResolveNetworks

(* What one container's change of state needs.                             *)
LEMMA OneContainerChanges ==
    ASSUME NEW p \in Projects, NEW s \in Services, NEW st, TypeOK, UsedExist,
           ctrs' = [ctrs EXCEPT ![p][s] = st], UNCHANGED nets,
           \A v \in VolNames : vols[v] # Absent => vols'[v] # Absent,
           st # "absent" => \A v \in Mounts[p][s] \intersect VolNames : vols'[v] # Absent,
           st = "running" => nets[Head(ResolveNetworks(p, s))] # Absent
    PROVE  UsedExist'
<1>1. /\ Domains /\ \A q \in Projects : DOMAIN ctrs[q] = Services /\ Svcs[q] \subseteq Services
  BY TypeGivesDomains, SvcsAssumption DEF TypeOK
<1>2. \A q \in Projects : \A t \in Services :
          ctrs'[q][t] = (IF q = p /\ t = s THEN st ELSE ctrs[q][t])
  BY <1>1 DEF Domains
<1>3. ASSUME NEW v \in VolNames, NEW q \in Projects, NEW t \in Svcs[q],
             ctrs'[q][t] # "absent", v \in Mounts[q][t]
      PROVE  vols'[v] # Absent
  BY <1>1, <1>2, <1>3 DEF UsedExist, Mounting
<1>4. ASSUME NEW n \in NetNames, NEW q \in Projects, NEW t \in Svcs[q],
             ctrs'[q][t] = "running", Head(ResolveNetworks(q, t)) = n
      PROVE  nets[n] # Absent
  BY <1>1, <1>2, <1>4 DEF UsedExist, Joined
<1>5. (\A v \in VolNames : Mounting(v, Projects) => vols[v] # Absent)'
  BY <1>3 DEF Mounting
<1>6. (\A n \in NetNames : Joined(n, Projects) => nets[n] # Absent)'
  BY <1>4 DEF Joined, ResolveNetworks
<1> QED BY <1>5, <1>6 DEF UsedExist

(* No step takes a volume or a network away from a container that uses it. *)
LEMMA UsedExistStep ==
    ASSUME OperationsInv, [Next]_vars
    PROVE  UsedExist'
<1>1. TypeOK /\ UsedExist /\ Domains /\ \A p \in Projects : ProjectInv(p)
  BY InvByProject, TypeGivesDomains
<1>2. CASE UNCHANGED <<nets, vols, ctrs>>
  BY <1>1, <1>2, DaemonAlone
<1>3. ASSUME NEW p \in Projects, UpCreateNetwork(p), ~UNCHANGED <<nets, vols, ctrs>>
      PROVE  UsedExist'
  <2>1. nets' = [nets EXCEPT ![cur[p]] = p] /\ UNCHANGED <<vols, ctrs>>
    BY <1>3 DEF UpCreateNetwork, GoRollBack
  <2>2. \A n \in NetNames : nets[n] # Absent => nets'[n] # Absent
    BY <1>1, <2>1, OwnersAssumption DEF Domains
  <2> QED BY <1>1, <2>1, <2>2 DEF UsedExist, Mounting, Joined, ResolveNetworks
<1>4. ASSUME NEW p \in Projects, UpCreateVolume(p), ~UNCHANGED <<nets, vols, ctrs>>
      PROVE  UsedExist'
  <2>1. vols' = [vols EXCEPT ![cur[p]] = p] /\ UNCHANGED <<nets, ctrs>>
    BY <1>4 DEF UpCreateVolume, GoRollBack
  <2>2. \A v \in VolNames : vols[v] # Absent => vols'[v] # Absent
    BY <1>1, <2>1, OwnersAssumption DEF Domains
  <2> QED BY <1>1, <2>1, <2>2 DEF UsedExist, Mounting, Joined, ResolveNetworks
<1>5. ASSUME NEW p \in Projects, NEW s \in Existing(p)
      PROVE  \A v \in Mounts[p][s] \intersect VolNames : vols[v] # Absent
  BY <1>1 DEF UsedExist, Mounting, Existing
<1>6. ASSUME NEW p \in Projects, pc[p] \in ServicePcs
      PROVE  cur[p] \in Services
  BY <1>1, <1>6, SvcsAssumption DEF ProjectInv, LoopsInHand, Targets
<1>7. ASSUME NEW p \in Projects, UpCreate(p), ~UNCHANGED <<nets, vols, ctrs>>
      PROVE  UsedExist'
  <2>1. /\ CreateCtr(p, cur[p]) /\ UNCHANGED nets /\ cur[p] \in Services
    BY <1>6, <1>7 DEF UpCreate, GoRollBack, ServicePcs
  <2>2. /\ \A v \in VolNames : vols[v] # Absent => vols'[v] # Absent
        /\ \A v \in Mounts[p][cur[p]] \intersect VolNames : vols'[v] # Absent
    BY <2>1, OwnersAssumption DEF CreateCtr
  <2> QED BY <1>1, <2>1, <2>2, OneContainerChanges DEF CreateCtr, SetCtr
<1>8. ASSUME NEW p \in Projects, UpStart(p), ~UNCHANGED <<nets, vols, ctrs>>
      PROVE  UsedExist'
  <2>1. /\ CanStart(p, cur[p]) /\ SetCtr(p, cur[p], "running") /\ UNCHANGED <<nets, vols>>
        /\ cur[p] \in Services /\ cur[p] \in Existing(p)
    BY <1>1, <1>6, <1>8 DEF UpStart, ServicePcs, ProjectInv, ListsAreTrue
  <2> QED BY <1>1, <1>5, <2>1, OneContainerChanges DEF SetCtr, CanStart
<1>9. ASSUME NEW p \in Projects, RollbackContainer(p), ~UNCHANGED <<nets, vols, ctrs>>
      PROVE  UsedExist'
  <2>1. started[p] \in Seq(Services) /\ started[p] # <<>>
    BY <1>1, <1>9 DEF TypeOK, RollbackContainer
  <2>2. started[p][Len(started[p])] \in Services
    BY <2>1
  <2>3. /\ UNCHANGED <<nets, vols>>
        /\ ctrs' = [ctrs EXCEPT ![p][started[p][Len(started[p])]] = "absent"]
    BY <1>9 DEF RollbackContainer, SetCtr
  <2> QED BY <1>1, <2>2, <2>3, OneContainerChanges
<1>10. ASSUME NEW p \in Projects, NEW v \in VolNames, RollbackVolume(p, v),
              ~UNCHANGED <<nets, vols, ctrs>>
       PROVE  UsedExist'
  <2>1. /\ vols' = [vols EXCEPT ![v] = Absent] /\ ~Mounting(v, Projects)
        /\ UNCHANGED <<nets, ctrs>>
    BY <1>10 DEF RollbackVolume
  <2>2. \A u \in VolNames \ {v} : vols'[u] = vols[u]
    BY <1>1, <2>1 DEF Domains
  <2> QED BY <1>1, <2>1, <2>2 DEF UsedExist, Mounting, Joined, ResolveNetworks
<1>11. ASSUME NEW p \in Projects, NEW n \in NetNames,
              RollbackNetwork(p, n) \/ DownRemoveNetwork(p, n),
              ~UNCHANGED <<nets, vols, ctrs>>
       PROVE  UsedExist'
  <2>1. /\ nets' = [nets EXCEPT ![n] = Absent] /\ ~Joined(n, Projects)
        /\ UNCHANGED <<vols, ctrs>>
    BY <1>11 DEF RollbackNetwork, DownRemoveNetwork
  <2>2. \A m \in NetNames \ {n} : nets'[m] = nets[m]
    BY <1>1, <2>1 DEF Domains
  <2> QED BY <1>1, <2>1, <2>2 DEF UsedExist, Mounting, Joined, ResolveNetworks
<1>12. ASSUME NEW p \in Projects, NEW s \in Services, FirstCall(p, s),
              ~UNCHANGED <<nets, vols, ctrs>>
       PROVE  UsedExist'
  <2>1. s \in Existing(p) /\ UNCHANGED <<nets, vols>>
    BY <1>1, <1>12 DEF FirstCall, ProjectInv, LoopsInHand
  <2>2. CASE CanStart(p, s) /\ SetCtr(p, s, "running")
    BY <1>1, <1>5, <2>1, <2>2, OneContainerChanges DEF SetCtr, CanStart
  <2>3. CASE SetCtr(p, s, Stopped(ctrs[p][s]))
    <3>1. Stopped(ctrs[p][s]) # "running"
      BY DEF Stopped
    <3> QED BY <1>1, <1>5, <2>1, <2>3, <3>1, OneContainerChanges DEF SetCtr
  <2> QED BY <1>12, <2>1, <2>2, <2>3 DEF FirstCall
<1>13. ASSUME NEW p \in Projects, SecondCall(p), ~UNCHANGED <<nets, vols, ctrs>>
       PROVE  UsedExist'
  <2>1. cur[p] \in Existing(p) /\ cur[p] \in Services /\ UNCHANGED <<nets, vols>>
    BY <1>1, <1>13, SvcsAssumption DEF SecondCall, ProjectInv, LoopsInHand, Existing
  <2>2. CASE CanStart(p, cur[p]) /\ SetCtr(p, cur[p], "running")
    BY <1>1, <1>5, <2>1, <2>2, OneContainerChanges DEF SetCtr, CanStart
  <2>3. CASE SetCtr(p, cur[p], "absent")
    BY <1>1, <2>1, <2>3, OneContainerChanges DEF SetCtr
  <2> QED BY <1>13, <2>1, <2>2, <2>3 DEF SecondCall
<1>14. ASSUME NEW p \in Projects, NEW s \in Svcs[p], Crash(p, s)
       PROVE  UsedExist'
  <2>1. /\ SetCtr(p, s, "exited") /\ UNCHANGED <<nets, vols>>
        /\ s \in Existing(p) /\ s \in Services
    BY <1>14, SvcsAssumption DEF Crash, Existing
  <2> QED BY <1>1, <1>5, <2>1, OneContainerChanges DEF SetCtr
<1>15. ASSUME NEW p \in Projects, Step(p)
       PROVE  UsedExist'
  <2>1. CASE \/ UpPorts(p) \/ UpNetworksDone(p) \/ UpVolumesDone(p) \/ UpCancelled(p)
             \/ UpImage(p) \/ UpDone(p) \/ RollbackDone(p)
             \/ \E n \in NetNames : UpCheckNetwork(p, n)
             \/ \E v \in VolNames : UpCheckVolume(p, v)
             \/ \E s \in Services : UpService(p, s)
    BY <1>2, <2>1 DEF UpPorts, UpNetworksDone, UpVolumesDone, UpCancelled, UpImage, UpDone,
                      RollbackDone, UpCheckNetwork, UpCheckVolume, UpService, GoRollBack, daemon
  <2>2. CASE \/ ListContainers(p) \/ DownCancelled(p) \/ ContainersDone(p)
             \/ DownListNetworks(p) \/ DownDone(p)
    BY <1>2, <2>2 DEF ListContainers, DownCancelled, ContainersDone, DownListNetworks, DownDone,
                      daemon
  <2> QED BY <1>2, <1>3, <1>4, <1>7, <1>8, <1>9, <1>10, <1>11, <1>12, <1>13, <1>15, <2>1, <2>2
          DEF Step, UpStep, OtherStep
<1>16. ASSUME NEW p \in Projects, Begin(p) \/ CtxEnds(p)
       PROVE  UsedExist'
  BY <1>2, <1>16 DEF Begin, CtxEnds, daemon
<1>17. CASE UNCHANGED vars
  BY <1>2, <1>17 DEF vars, daemon
<1> QED BY <1>14, <1>15, <1>16, <1>17 DEF Next, AllDone

(* The types, in four parts: where the operations are, the daemon, the     *)
(* lists of Up, and the history.                                           *)
ControlOK ==
    /\ op \in [Projects -> OpTypes \union {"none"}]
    /\ pc \in [Projects -> {"idle"} \union UpPcs \union OtherPcs]
    /\ result \in [Projects -> {"none", "running", "succeeded", "cancelled",
                                "rolled_back", "error"}]
    /\ DOMAIN scope = Projects /\ DOMAIN cur = Projects /\ DOMAIN todo = Projects
    /\ ctxEnded \in SUBSET Projects

DaemonOK ==
    /\ nets \in [NetNames -> Projects \union {Absent, Unmanaged}]
    /\ vols \in [VolNames -> Projects \union {Absent, Unmanaged}]
    /\ ctrs \in [Projects -> [Services -> CtrStates]]

ListsOK ==
    /\ started \in [Projects -> Seq(Services)]
    /\ madeNets \in [Projects -> SUBSET NetNames] /\ madeVols \in [Projects -> SUBSET VolNames]
    /\ \A p \in Projects : \A i \in DOMAIN started[p] : started[p][i] \in Svcs[p]
    /\ \A p \in Projects : madeNets[p] \subseteq Nets[p] /\ madeVols[p] \subseteq Vols[p]

GhostsOK ==
    /\ hindered \in SUBSET Projects
    /\ prior \in [Projects -> [ctrs : SUBSET Services, vols : SUBSET VolNames]]
    /\ made \in [Projects -> [ctrs : SUBSET Services, nets : SUBSET NetNames,
                              vols : SUBSET VolNames]]

LEMMA TypeInParts == TypeOK => ControlOK /\ DaemonOK /\ ListsOK /\ GhostsOK
<1> SUFFICES ASSUME TypeOK PROVE ControlOK /\ DaemonOK /\ ListsOK /\ GhostsOK
  OBVIOUS
<1>1. ControlOK
  BY DEF TypeOK, ControlOK, UpPcs, OtherPcs, ServicePcs
<1>2. DaemonOK /\ ListsOK /\ GhostsOK
  BY DEF TypeOK, DaemonOK, ListsOK, GhostsOK
<1> QED BY <1>1, <1>2

(* Where an operation goes next is a place that exists.                    *)
LEMMA ControlStep ==
    ASSUME NEW p \in Projects, ControlOK, Step(p)
    PROVE  ControlOK'
<1>1. ASSUME NEW l \in {"idle"} \union UpPcs \union OtherPcs, Jump(p, l)
      PROVE  pc' \in [Projects -> {"idle"} \union UpPcs \union OtherPcs]
  BY <1>1 DEF Jump, ControlOK
<1>2. ASSUME NEW r \in {"none", "running", "succeeded", "cancelled", "rolled_back", "error"},
             result' = [result EXCEPT ![p] = r]
      PROVE  result' \in [Projects -> {"none", "running", "succeeded", "cancelled",
                                       "rolled_back", "error"}]
  BY <1>2 DEF ControlOK
<1>3. UNCHANGED pc \/ \E l \in {"idle"} \union UpPcs \union OtherPcs : Jump(p, l)
  <2>1. CASE UpStep(p)
    BY <2>1 DEF UpStep, UpPorts, UpCheckNetwork, UpCreateNetwork, UpNetworksDone, UpCheckVolume,
                UpCreateVolume, UpVolumesDone, UpCancelled, UpService, UpImage, UpCreate, UpStart,
                UpDone, RollbackContainer, RollbackVolume, RollbackNetwork, RollbackDone,
                GoRollBack, Return, UpPcs, OtherPcs, ServicePcs
  <2>2. CASE OtherStep(p)
    BY <2>2 DEF OtherStep, ListContainers, DownCancelled, FirstCall, SecondCall, ContainersDone,
                DownListNetworks, DownRemoveNetwork, DownDone, Return, UpPcs, OtherPcs, ServicePcs
  <2> QED BY <2>1, <2>2 DEF Step
<1>4. UNCHANGED result
      \/ \E r \in {"succeeded", "cancelled", "rolled_back", "error"} :
            result' = [result EXCEPT ![p] = r]
  <2>1. CASE UpStep(p)
    BY <2>1 DEF UpStep, UpPorts, UpCheckNetwork, UpCreateNetwork, UpNetworksDone, UpCheckVolume,
                UpCreateVolume, UpVolumesDone, UpCancelled, UpService, UpImage, UpCreate, UpStart,
                UpDone, RollbackContainer, RollbackVolume, RollbackNetwork, RollbackDone,
                GoRollBack, Return
  <2>2. CASE OtherStep(p)
    BY <2>2 DEF OtherStep, ListContainers, DownCancelled, FirstCall, SecondCall, ContainersDone,
                DownListNetworks, DownRemoveNetwork, DownDone, Return
  <2> QED BY <2>1, <2>2 DEF Step
<1>5. /\ UNCHANGED <<op, scope, ctxEnded>>
      /\ UNCHANGED cur \/ \E x : cur' = [cur EXCEPT ![p] = x]
      /\ UNCHANGED todo \/ \E x : todo' = [todo EXCEPT ![p] = x]
  <2>1. CASE UpStep(p)
    BY <2>1 DEF UpStep, UpPorts, UpCheckNetwork, UpCreateNetwork, UpNetworksDone, UpCheckVolume,
                UpCreateVolume, UpVolumesDone, UpCancelled, UpService, UpImage, UpCreate, UpStart,
                UpDone, RollbackContainer, RollbackVolume, RollbackNetwork, RollbackDone,
                GoRollBack, locals
  <2>2. CASE OtherStep(p)
    BY <2>2 DEF OtherStep, ListContainers, DownCancelled, FirstCall, SecondCall, ContainersDone,
                DownListNetworks, DownRemoveNetwork, DownDone, locals
  <2> QED BY <2>1, <2>2 DEF Step
<1>6. DOMAIN cur' = Projects /\ DOMAIN todo' = Projects
  BY <1>5 DEF ControlOK
<1>7. /\ pc' \in [Projects -> {"idle"} \union UpPcs \union OtherPcs]
      /\ result' \in [Projects -> {"none", "running", "succeeded", "cancelled",
                                   "rolled_back", "error"}]
  BY <1>1, <1>2, <1>3, <1>4 DEF ControlOK
<1> QED BY <1>5, <1>6, <1>7 DEF ControlOK

(* What an operation does to the daemon.                                   *)
LEMMA DaemonStep ==
    ASSUME NEW p \in Projects, OperationsInv, Step(p)
    PROVE  DaemonOK'
<1>1. DaemonOK /\ ListsOK /\ ProjectInv(p)
  BY InvByProject, TypeInParts
<1>2. ASSUME NEW s \in Services, NEW st \in CtrStates, SetCtr(p, s, st)
      PROVE  ctrs' \in [Projects -> [Services -> CtrStates]]
  BY <1>1, <1>2 DEF SetCtr, DaemonOK
<1>3. ASSUME NEW n \in NetNames, NEW o \in Projects \union {Absent},
             nets' = [nets EXCEPT ![n] = o]
      PROVE  nets' \in [NetNames -> Projects \union {Absent, Unmanaged}]
  BY <1>1, <1>3 DEF DaemonOK
<1>4. ASSUME NEW v \in VolNames, NEW o \in Projects \union {Absent},
             vols' = [vols EXCEPT ![v] = o]
      PROVE  vols' \in [VolNames -> Projects \union {Absent, Unmanaged}]
  BY <1>1, <1>4 DEF DaemonOK
<1>5. ASSUME UNCHANGED daemon
      PROVE  DaemonOK'
  BY <1>1, <1>5 DEF DaemonOK, daemon
<1>6. CASE UpCreateNetwork(p)
  <2>1. cur[p] \in NetNames
    BY <1>1, <1>6 DEF UpCreateNetwork, ProjectInv, LoopsInHand
  <2>2. UNCHANGED <<vols, ctrs>> /\ (UNCHANGED nets \/ nets' = [nets EXCEPT ![cur[p]] = p])
    BY <1>6 DEF UpCreateNetwork, GoRollBack
  <2> QED BY <1>1, <1>3, <2>1, <2>2 DEF DaemonOK
<1>7. CASE UpCreateVolume(p)
  <2>1. cur[p] \in VolNames
    BY <1>1, <1>7 DEF UpCreateVolume, ProjectInv, LoopsInHand
  <2>2. UNCHANGED <<nets, ctrs>> /\ (UNCHANGED vols \/ vols' = [vols EXCEPT ![cur[p]] = p])
    BY <1>7 DEF UpCreateVolume, GoRollBack
  <2> QED BY <1>1, <1>4, <2>1, <2>2 DEF DaemonOK
<1>8. CASE UpCreate(p)
  <2>1. cur[p] \in Services
    BY <1>1, <1>8, SvcsAssumption DEF UpCreate, ProjectInv, LoopsInHand, Targets, ServicePcs
  <2>2. \/ UNCHANGED <<nets, vols, ctrs>>
        \/ UNCHANGED nets /\ CreateCtr(p, cur[p])
    BY <1>8 DEF UpCreate, GoRollBack
  <2>3. CASE UNCHANGED nets /\ CreateCtr(p, cur[p])
    <3>1. ctrs' \in [Projects -> [Services -> CtrStates]]
      BY <1>2, <2>1, <2>3 DEF CreateCtr, CtrStates
    <3>2. vols' \in [VolNames -> Projects \union {Absent, Unmanaged}]
      BY <1>1, <2>3 DEF CreateCtr, DaemonOK
    <3> QED BY <1>1, <2>3, <3>1, <3>2 DEF DaemonOK
  <2> QED BY <1>5, <2>2, <2>3 DEF daemon
<1>9. CASE UpStart(p)
  <2>1. cur[p] \in Services
    BY <1>1, <1>9, SvcsAssumption DEF UpStart, ProjectInv, LoopsInHand, Targets, ServicePcs
  <2>2. UNCHANGED <<nets, vols>> /\ (UNCHANGED ctrs \/ SetCtr(p, cur[p], "running"))
    BY <1>9 DEF UpStart
  <2> QED BY <1>1, <1>2, <2>1, <2>2 DEF DaemonOK, CtrStates
<1>10. CASE RollbackContainer(p)
  <2>1. started[p] \in Seq(Services) /\ started[p] # <<>>
    BY <1>1, <1>10 DEF RollbackContainer, ListsOK
  <2>2. started[p][Len(started[p])] \in Services
    BY <2>1, ElementsOfFront
  <2>3. /\ UNCHANGED <<nets, vols>>
        /\ UNCHANGED ctrs \/ SetCtr(p, started[p][Len(started[p])], "absent")
    BY <1>10 DEF RollbackContainer
  <2> QED BY <1>1, <1>2, <2>2, <2>3 DEF DaemonOK, CtrStates
<1>11. ASSUME NEW v \in VolNames, RollbackVolume(p, v)
       PROVE  DaemonOK'
  <2>1. UNCHANGED <<nets, ctrs>> /\ (UNCHANGED vols \/ vols' = [vols EXCEPT ![v] = Absent])
    BY <1>11 DEF RollbackVolume
  <2> QED BY <1>1, <1>4, <2>1 DEF DaemonOK
<1>12. ASSUME NEW n \in NetNames, RollbackNetwork(p, n) \/ DownRemoveNetwork(p, n)
       PROVE  DaemonOK'
  <2>1. UNCHANGED <<vols, ctrs>> /\ (UNCHANGED nets \/ nets' = [nets EXCEPT ![n] = Absent])
    BY <1>12 DEF RollbackNetwork, DownRemoveNetwork
  <2> QED BY <1>1, <1>3, <2>1 DEF DaemonOK
<1>13. ASSUME NEW s \in Services, FirstCall(p, s)
       PROVE  DaemonOK'
  <2>1. Stopped(ctrs[p][s]) \in CtrStates
    BY <1>1 DEF Stopped, CtrStates, DaemonOK
  <2>2. /\ UNCHANGED <<nets, vols>>
        /\ UNCHANGED ctrs \/ SetCtr(p, s, "running") \/ SetCtr(p, s, Stopped(ctrs[p][s]))
    BY <1>13 DEF FirstCall
  <2> QED BY <1>1, <1>2, <2>1, <2>2 DEF DaemonOK, CtrStates
<1>14. CASE SecondCall(p)
  <2>1. cur[p] \in Services
    BY <1>1, <1>14, SvcsAssumption DEF SecondCall, ProjectInv, LoopsInHand, Existing
  <2>2. /\ UNCHANGED <<nets, vols>>
        /\ UNCHANGED ctrs \/ SetCtr(p, cur[p], "running") \/ SetCtr(p, cur[p], "absent")
    BY <1>14 DEF SecondCall
  <2> QED BY <1>1, <1>2, <2>1, <2>2 DEF DaemonOK, CtrStates
<1>15. CASE \/ UpPorts(p) \/ UpNetworksDone(p) \/ UpVolumesDone(p) \/ UpCancelled(p)
            \/ UpImage(p) \/ UpDone(p) \/ RollbackDone(p)
            \/ \E n \in NetNames : UpCheckNetwork(p, n)
            \/ \E v \in VolNames : UpCheckVolume(p, v)
            \/ \E s \in Services : UpService(p, s)
  BY <1>5, <1>15 DEF UpPorts, UpNetworksDone, UpVolumesDone, UpCancelled, UpImage, UpDone,
                     RollbackDone, UpCheckNetwork, UpCheckVolume, UpService, GoRollBack, daemon
<1>16. CASE \/ ListContainers(p) \/ DownCancelled(p) \/ ContainersDone(p)
            \/ DownListNetworks(p) \/ DownDone(p)
  BY <1>5, <1>16 DEF ListContainers, DownCancelled, ContainersDone, DownListNetworks, DownDone
<1> QED BY <1>6, <1>7, <1>8, <1>9, <1>10, <1>11, <1>12, <1>13, <1>14, <1>15, <1>16
        DEF Step, UpStep, OtherStep

(* What an operation does to Up's lists.                                   *)
LEMMA ListsStep ==
    ASSUME NEW p \in Projects, OperationsInv, Step(p)
    PROVE  ListsOK'
<1>1. ListsOK /\ ProjectInv(p)
  BY InvByProject, TypeInParts
<1>2. ASSUME NEW N \in SUBSET NetNames, N \subseteq Nets[p],
             madeNets' = [madeNets EXCEPT ![p] = N], UNCHANGED <<started, madeVols>>
      PROVE  ListsOK'
  BY <1>1, <1>2 DEF ListsOK
<1>3. ASSUME NEW V \in SUBSET VolNames, V \subseteq Vols[p],
             madeVols' = [madeVols EXCEPT ![p] = V], UNCHANGED <<started, madeNets>>
      PROVE  ListsOK'
  BY <1>1, <1>3 DEF ListsOK
<1>4. ASSUME NEW q \in Seq(Services), \A i \in DOMAIN q : q[i] \in Svcs[p],
             started' = [started EXCEPT ![p] = q], UNCHANGED <<madeNets, madeVols>>
      PROVE  ListsOK'
  BY <1>1, <1>4 DEF ListsOK
<1>5. ASSUME UNCHANGED <<started, madeNets, madeVols>>
      PROVE  ListsOK'
  BY <1>1, <1>5 DEF ListsOK
<1>6. /\ madeNets[p] \subseteq NetNames /\ madeNets[p] \subseteq Nets[p]
      /\ madeVols[p] \subseteq VolNames /\ madeVols[p] \subseteq Vols[p]
      /\ started[p] \in Seq(Services) /\ \A i \in DOMAIN started[p] : started[p][i] \in Svcs[p]
  BY <1>1 DEF ListsOK
<1>7. CASE UpCreateNetwork(p)
  <2>1. cur[p] \in Nets[p] /\ cur[p] \in NetNames
    BY <1>1, <1>7 DEF UpCreateNetwork, ProjectInv, LoopsInHand
  <2>2. /\ UNCHANGED <<started, madeVols>>
        /\ \/ UNCHANGED madeNets
           \/ madeNets' = [madeNets EXCEPT ![p] = madeNets[p] \union {cur[p]}]
    BY <1>7 DEF UpCreateNetwork, GoRollBack, locals
  <2> QED BY <1>2, <1>5, <1>6, <2>1, <2>2
<1>8. CASE UpCreateVolume(p)
  <2>1. cur[p] \in Vols[p] /\ cur[p] \in VolNames
    BY <1>1, <1>8 DEF UpCreateVolume, ProjectInv, LoopsInHand
  <2>2. /\ UNCHANGED <<started, madeNets>>
        /\ \/ UNCHANGED madeVols
           \/ madeVols' = [madeVols EXCEPT ![p] = madeVols[p] \union {cur[p]}]
    BY <1>8 DEF UpCreateVolume, GoRollBack, locals
  <2> QED BY <1>3, <1>5, <1>6, <2>1, <2>2
<1>9. CASE UpCancelled(p)
  BY <1>1, <1>9 DEF UpCancelled, ListsOK
<1>10. CASE UpStart(p)
  <2>1. cur[p] \in Svcs[p] /\ cur[p] \in Services
    BY <1>1, <1>10, SvcsAssumption DEF UpStart, ProjectInv, LoopsInHand, Targets, ServicePcs
  <2>2. /\ UNCHANGED <<madeNets, madeVols>>
        /\ started' = [started EXCEPT ![p] = Append(started[p], cur[p])]
    BY <1>10 DEF UpStart
  <2>3. /\ Append(started[p], cur[p]) \in Seq(Services)
        /\ \A i \in DOMAIN Append(started[p], cur[p]) : Append(started[p], cur[p])[i] \in Svcs[p]
    BY <1>6, <2>1, ElementsOfAppend
  <2> QED BY <1>4, <2>2, <2>3
<1>11. CASE RollbackContainer(p)
  <2>1. /\ UNCHANGED <<madeNets, madeVols>> /\ started[p] # <<>>
        /\ started' = [started EXCEPT ![p] = SubSeq(started[p], 1, Len(started[p]) - 1)]
    BY <1>11 DEF RollbackContainer
  <2>2. /\ SubSeq(started[p], 1, Len(started[p]) - 1) \in Seq(Services)
        /\ \A i \in DOMAIN SubSeq(started[p], 1, Len(started[p]) - 1) :
              SubSeq(started[p], 1, Len(started[p]) - 1)[i] \in Svcs[p]
    BY <1>6, <2>1, ElementsOfFront
  <2> QED BY <1>4, <2>1, <2>2
<1>12. ASSUME NEW v \in VolNames, RollbackVolume(p, v)
       PROVE  ListsOK'
  BY <1>3, <1>6, <1>12 DEF RollbackVolume
<1>13. ASSUME NEW n \in NetNames, RollbackNetwork(p, n)
       PROVE  ListsOK'
  BY <1>2, <1>6, <1>13 DEF RollbackNetwork
<1>14. CASE \/ UpPorts(p) \/ UpNetworksDone(p) \/ UpVolumesDone(p)
            \/ UpImage(p) \/ UpCreate(p) \/ UpDone(p) \/ RollbackDone(p)
            \/ \E n \in NetNames : UpCheckNetwork(p, n)
            \/ \E v \in VolNames : UpCheckVolume(p, v)
            \/ \E s \in Services : UpService(p, s)
  BY <1>5, <1>14 DEF UpPorts, UpNetworksDone, UpVolumesDone, UpImage, UpCreate, UpDone,
                     RollbackDone, UpCheckNetwork, UpCheckVolume, UpService, GoRollBack, locals
<1>15. CASE OtherStep(p)
  BY <1>5, <1>15 DEF OtherStep, ListContainers, DownCancelled, FirstCall, SecondCall,
                     ContainersDone, DownListNetworks, DownRemoveNetwork, DownDone, locals
<1> QED BY <1>7, <1>8, <1>9, <1>10, <1>11, <1>12, <1>13, <1>14, <1>15 DEF Step, UpStep

(* What an operation adds to the history.                                  *)
LEMMA GhostsStep ==
    ASSUME NEW p \in Projects, OperationsInv, Step(p)
    PROVE  GhostsOK'
<1>1. GhostsOK /\ ProjectInv(p)
  BY InvByProject, TypeInParts
<1>2. UNCHANGED prior /\ (UNCHANGED hindered \/ hindered' = hindered \union {p})
  <2>1. CASE UpStep(p)
    BY <2>1 DEF UpStep, UpPorts, UpCheckNetwork, UpCreateNetwork, UpNetworksDone, UpCheckVolume,
                UpCreateVolume, UpVolumesDone, UpCancelled, UpService, UpImage, UpCreate, UpStart,
                UpDone, RollbackContainer, RollbackVolume, RollbackNetwork, RollbackDone,
                GoRollBack, Hindered, ghosts
  <2>2. CASE OtherStep(p)
    BY <2>2 DEF OtherStep, ListContainers, DownCancelled, FirstCall, SecondCall, ContainersDone,
                DownListNetworks, DownRemoveNetwork, DownDone, ghosts
  <2> QED BY <2>1, <2>2 DEF Step
<1>3. \/ UNCHANGED made
      \/ cur[p] \in Services /\ made' = [made EXCEPT ![p].ctrs = @ \union {cur[p]}]
      \/ cur[p] \in NetNames /\ made' = [made EXCEPT ![p].nets = @ \union {cur[p]}]
      \/ cur[p] \in VolNames /\ made' = [made EXCEPT ![p].vols = @ \union {cur[p]}]
  <2>1. CASE UpCreateNetwork(p)
    BY <1>1, <2>1 DEF UpCreateNetwork, GoRollBack, ghosts, ProjectInv, LoopsInHand
  <2>2. CASE UpCreateVolume(p)
    BY <1>1, <2>2 DEF UpCreateVolume, GoRollBack, ghosts, ProjectInv, LoopsInHand
  <2>3. CASE UpCreate(p)
    BY <1>1, <2>3, SvcsAssumption
       DEF UpCreate, GoRollBack, ghosts, ProjectInv, LoopsInHand, Targets, ServicePcs
  <2>4. CASE /\ UpStep(p) /\ ~UpCreateNetwork(p) /\ ~UpCreateVolume(p) /\ ~UpCreate(p)
    <3>1. UNCHANGED made
      BY <2>4 DEF UpStep, UpPorts, UpCheckNetwork, UpNetworksDone, UpCheckVolume, UpVolumesDone,
                  UpCancelled, UpService, UpImage, UpStart, UpDone, RollbackContainer,
                  RollbackVolume, RollbackNetwork, RollbackDone, GoRollBack, ghosts
    <3> QED BY <3>1
  <2>5. CASE OtherStep(p)
    BY <2>5 DEF OtherStep, ListContainers, DownCancelled, FirstCall, SecondCall, ContainersDone,
                DownListNetworks, DownRemoveNetwork, DownDone, ghosts
  <2> QED BY <2>1, <2>2, <2>3, <2>4, <2>5 DEF Step
<1>4. made' \in [Projects -> [ctrs : SUBSET Services, nets : SUBSET NetNames,
                              vols : SUBSET VolNames]]
  <2>1. /\ made \in [Projects -> [ctrs : SUBSET Services, nets : SUBSET NetNames,
                                  vols : SUBSET VolNames]]
        /\ made[p].ctrs \subseteq Services /\ made[p].nets \subseteq NetNames
        /\ made[p].vols \subseteq VolNames
    BY <1>1 DEF GhostsOK
  <2>2. CASE UNCHANGED made
    BY <2>1, <2>2
  <2>3. CASE cur[p] \in Services /\ made' = [made EXCEPT ![p].ctrs = @ \union {cur[p]}]
    BY <2>1, <2>3
  <2>4. CASE cur[p] \in NetNames /\ made' = [made EXCEPT ![p].nets = @ \union {cur[p]}]
    BY <2>1, <2>4
  <2>5. CASE cur[p] \in VolNames /\ made' = [made EXCEPT ![p].vols = @ \union {cur[p]}]
    BY <2>1, <2>5
  <2> QED BY <1>3, <2>2, <2>3, <2>4, <2>5
<1> QED BY <1>1, <1>2, <1>4 DEF GhostsOK

(* A new operation starts with empty lists.                                *)
LEMMA BeginTypes ==
    ASSUME NEW p \in Projects, TypeOK, Begin(p)
    PROVE  ControlOK' /\ DaemonOK' /\ ListsOK' /\ GhostsOK'
<1>1. ControlOK /\ DaemonOK /\ ListsOK /\ GhostsOK
  BY TypeInParts
<1>2. PICK t \in OpTypes, sc \in Scopes[p] :
          /\ op' = [op EXCEPT ![p] = t] /\ scope' = [scope EXCEPT ![p] = sc]
          /\ Jump(p, IF t = "up" THEN "ports" ELSE "list")
          /\ todo' = [todo EXCEPT ![p] = IF t = "up" THEN Nets[p] ELSE {}]
  BY <1>1 DEF Begin
<1>3. ControlOK'
  <2>1. pc' \in [Projects -> {"idle"} \union UpPcs \union OtherPcs]
    BY <1>1, <1>2 DEF Jump, ControlOK, UpPcs, OtherPcs
  <2>2. /\ op' \in [Projects -> OpTypes \union {"none"}]
        /\ DOMAIN scope' = Projects /\ DOMAIN todo' = Projects
    BY <1>1, <1>2 DEF ControlOK
  <2>3. /\ result' \in [Projects -> {"none", "running", "succeeded", "cancelled",
                                     "rolled_back", "error"}]
        /\ DOMAIN cur' = Projects /\ ctxEnded' \in SUBSET Projects
    BY <1>1 DEF Begin, ControlOK
  <2> QED BY <2>1, <2>2, <2>3 DEF ControlOK
<1>4. DaemonOK'
  BY <1>1 DEF Begin, daemon, DaemonOK
<1>5. ListsOK'
  <2>1. /\ started' = [started EXCEPT ![p] = <<>>]
        /\ madeNets' = [madeNets EXCEPT ![p] = {}] /\ madeVols' = [madeVols EXCEPT ![p] = {}]
    BY DEF Begin
  <2> QED BY <1>1, <2>1 DEF ListsOK
<1>6. GhostsOK'
  <2>1. {s \in Svcs[p] : ctrs[p][s] # "absent"} \in SUBSET Services
    BY SvcsAssumption
  <2>2. prior' \in [Projects -> [ctrs : SUBSET Services, vols : SUBSET VolNames]]
    BY <1>1, <2>1 DEF Begin, GhostsOK
  <2>3. made' \in [Projects -> [ctrs : SUBSET Services, nets : SUBSET NetNames,
                                vols : SUBSET VolNames]]
    BY <1>1 DEF Begin, GhostsOK
  <2>4. hindered' \in SUBSET Projects
    BY <1>1 DEF Begin, GhostsOK
  <2> QED BY <2>2, <2>3, <2>4 DEF GhostsOK
<1> QED BY <1>3, <1>4, <1>5, <1>6

(* Every step keeps the types.                                             *)
LEMMA OperationsTypeStep ==
    ASSUME OperationsInv, [Next]_vars
    PROVE  TypeOK'
<1>1. TypeOK /\ ControlOK /\ DaemonOK /\ ListsOK /\ GhostsOK
  BY InvByProject, TypeInParts
<1>2. SUFFICES ControlOK' /\ DaemonOK' /\ ListsOK' /\ GhostsOK'
  <2>1. ASSUME ControlOK'
        PROVE  pc' \in [Projects -> {"idle", "ports", "nets", "netCreate", "vols", "volCreate",
                                     "services", "image", "create", "start", "rollback", "list",
                                     "ctrs", "second", "netList", "netRemove"}]
    BY <2>1 DEF ControlOK, UpPcs, OtherPcs, ServicePcs
  <2> QED BY <2>1 DEF TypeOK, ControlOK, DaemonOK, ListsOK, GhostsOK
<1>3. ASSUME NEW p \in Projects, Step(p)
      PROVE  ControlOK' /\ DaemonOK' /\ ListsOK' /\ GhostsOK'
  BY <1>1, <1>3, ControlStep, DaemonStep, ListsStep, GhostsStep
<1>4. ASSUME NEW p \in Projects, CtxEnds(p)
      PROVE  ControlOK' /\ DaemonOK' /\ ListsOK' /\ GhostsOK'
  <2>1. ControlOK'
    BY <1>1, <1>4 DEF CtxEnds, ControlOK, locals
  <2>2. UNCHANGED <<daemon, locals, ghosts>>
    BY <1>4 DEF CtxEnds
  <2> QED BY <1>1, <2>1, <2>2 DEF DaemonOK, ListsOK, GhostsOK, daemon, locals, ghosts
<1>5. ASSUME NEW p \in Projects, NEW s \in Svcs[p], Crash(p, s)
      PROVE  ControlOK' /\ DaemonOK' /\ ListsOK' /\ GhostsOK'
  <2>1. ctrs' \in [Projects -> [Services -> CtrStates]]
    BY <1>1, <1>5, SvcsAssumption DEF Crash, SetCtr, CtrStates, DaemonOK
  <2>2. UNCHANGED <<nets, vols, op, scope, pc, locals, result, ctxEnded, ghosts>>
    BY <1>5 DEF Crash
  <2> QED BY <1>1, <2>1, <2>2 DEF ControlOK, DaemonOK, ListsOK, GhostsOK, locals, ghosts
<1>6. CASE UNCHANGED vars
  BY <1>1, <1>6 DEF ControlOK, DaemonOK, ListsOK, GhostsOK, vars, daemon, locals, ghosts
<1> QED BY <1>1, <1>3, <1>4, <1>5, <1>6, BeginTypes DEF Next, AllDone

(* Every step of a project keeps what its own operation knows.             *)
LEMMA ActorKeeps ==
    ASSUME NEW p \in Projects, OperationsInv, Step(p)
    PROVE  ProjectInv(p)'
<1>1. TypeOK /\ UsedExist /\ ProjectInv(p) /\ Domains
  BY InvByProject, TypeGivesDomains
<1> QED BY <1>1, UpQuietKeeps, UpCreateNetworkKeeps, UpCreateVolumeKeeps, UpCancelledKeeps,
           UpCreateKeeps, UpStartKeeps, RollbackContainerKeeps, RollbackVolumeKeeps,
           RollbackNetworkKeeps, RollbackDoneKeeps, OtherKeeps DEF Step, UpStep

LEMMA OperationsInvStep ==
    ASSUME OperationsInv, [Next]_vars
    PROVE  OperationsInv'
<1>1. TypeOK /\ UsedExist /\ Domains /\ \A q \in Projects : ProjectInv(q)
  BY InvByProject, TypeGivesDomains
<1>2. TypeOK' /\ UsedExist'
  BY OperationsTypeStep, UsedExistStep
<1>3. ASSUME NEW q \in Projects
      PROVE  ProjectInv(q)'
  <2>1. ASSUME NEW p \in Projects, Step(p)
        PROVE  ProjectInv(q)'
    BY <1>1, <2>1, ActorKeeps, UpLeavesOthers, OtherLeavesOthers, UntouchedKeeps DEF Step
  <2>2. ASSUME NEW p \in Projects, Begin(p)
        PROVE  ProjectInv(q)'
    BY <1>1, <2>2, BeginKeeps, BeginLeavesOthers, UntouchedKeeps
  <2>3. ASSUME NEW p \in Projects, CtxEnds(p)
        PROVE  ProjectInv(q)'
    BY <1>1, <2>3, UntouchedKeeps DEF CtxEnds, Untouched, OwnedStays, daemon, locals, ghosts
  <2>4. ASSUME NEW p \in Projects, NEW s \in Svcs[p], Crash(p, s)
        PROVE  ProjectInv(q)'
    BY <1>1, <2>4, CrashKeeps
  <2>5. CASE UNCHANGED vars
    BY <1>1, <2>5, UntouchedKeeps DEF vars, Untouched, OwnedStays, daemon, locals, ghosts
  <2> QED BY <2>1, <2>2, <2>3, <2>4, <2>5 DEF Next, AllDone
<1>4. (\A q \in Projects : ProjectInv(q))'
  BY <1>3
<1> QED BY <1>2, <1>4
        DEF OperationsInv, ProjectInv, DependenciesFirst, DependenciesFirstIn,
            UpKeepsOldContainers, OldContainersKept, UpIsAllOrNothing, AllOrNothing

-----------------------------------------------------------------------------
(* Nothing runs at first and there are no containers.                      *)
LEMMA OperationsInitial ==
    ASSUME Init
    PROVE  OperationsInv
<1>1. TypeOK
  <2>1. ControlOK
    BY DEF Init, ControlOK
  <2>2. DaemonOK
    BY DEF Init, DaemonOK, CtrStates
  <2>3. ListsOK
    BY DEF Init, ListsOK
  <2>4. GhostsOK
    BY DEF Init, GhostsOK
  <2>5. pc \in [Projects -> {"idle", "ports", "nets", "netCreate", "vols", "volCreate",
                             "services", "image", "create", "start", "rollback", "list",
                             "ctrs", "second", "netList", "netRemove"}]
    BY DEF Init
  <2> QED BY <2>1, <2>2, <2>3, <2>4, <2>5 DEF TypeOK, ControlOK, DaemonOK, ListsOK, GhostsOK
<1>2. DependenciesFirst
  BY DEF Init, DependenciesFirst
<1>3. ASSUME NEW p \in Projects
      PROVE  LoopsInHand(p) /\ ListsAreTrue(p) /\ EachServiceHasItsTurn(p)
             /\ NothingForgotten(p) /\ OnlyNewUsers(p)
  <2>1. /\ pc[p] = "idle" /\ started[p] = <<>> /\ madeNets[p] = {}
        /\ made[p] = [ctrs |-> {}, nets |-> {}, vols |-> {}] /\ prior[p].ctrs = {}
    BY DEF Init
  <2>2. LoopsInHand(p) /\ EachServiceHasItsTurn(p) /\ NothingForgotten(p)
    BY <2>1 DEF LoopsInHand, EachServiceHasItsTurn, NothingForgotten, UpPcs, OtherPcs, ServicePcs
  <2>3. ListsAreTrue(p)
    BY <2>1 DEF ListsAreTrue, StartedByUp
  <2>4. OnlyNewUsers(p)
    BY <2>1 DEF OnlyNewUsers
  <2> QED BY <2>2, <2>3, <2>4
<1>4. \A p \in Projects : \A s \in Svcs[p] : ctrs[p][s] = "absent"
  BY SvcsAssumption DEF Init
<1>5. UsedExist
  BY <1>4 DEF UsedExist, Mounting, Joined
<1>6. UpKeepsOldContainers /\ UpIsAllOrNothing
  BY DEF Init, UpKeepsOldContainers, UpIsAllOrNothing
<1> QED BY <1>1, <1>2, <1>3, <1>5, <1>6 DEF OperationsInv

(* The inductive invariant holds for any number of projects, services,     *)
(* networks, volumes, faults and crashes: what Up's lists say of the       *)
(* daemon while operations of other projects run (operations.go:27-350).   *)
THEOREM OperationsInvariant == Spec => []OperationsInv
<1>1. Init => OperationsInv
  BY OperationsInitial
<1>2. OperationsInv /\ [Next]_vars => OperationsInv'
  BY OperationsInvStep
<1> QED BY <1>1, <1>2, PTL DEF Spec

(* Up reports success only when every target service with an image has a   *)
(* container that it created and started; when nothing hindered it, a      *)
(* rollback leaves nothing of what Up created, and a cancelled Up none of  *)
(* its containers (operations.go:27-350).                                  *)
THEOREM OperationsUpAllOrNothing == Spec => []UpIsAllOrNothing
<1>1. OperationsInv => UpIsAllOrNothing
  BY DEF OperationsInv
<1> QED BY <1>1, OperationsInvariant, PTL

(* No container that was there when Up began is gone by the time Up ends,  *)
(* whether it succeeds, fails or is rolled back (operations.go:27-350).    *)
THEOREM OperationsKeepOld == Spec => []UpKeepsOldContainers
<1>1. OperationsInv => UpKeepsOldContainers
  BY DEF OperationsInv
<1> QED BY <1>1, OperationsInvariant, PTL

(* No step of an operation removes or relabels a network of another        *)
(* project, or touches one of its containers, even when both declare the   *)
(* same name (operations.go:27-531).                                       *)
THEOREM OperationsLeaveOthers == Spec => OthersUntouched
<1> DEFINE Leaves == \A p \in Projects : Step(p) =>
               /\ \A n \in NetNames : nets[n] \in Projects \ {p} => nets'[n] = nets[n]
               /\ \A q \in Projects \ {p} : ctrs'[q] = ctrs[q]
<1>1. OperationsInv => Leaves
  <2> SUFFICES ASSUME OperationsInv, NEW p \in Projects, Step(p)
               PROVE  /\ \A n \in NetNames : nets[n] \in Projects \ {p} => nets'[n] = nets[n]
                      /\ \A q \in Projects \ {p} : ctrs'[q] = ctrs[q]
    OBVIOUS
  <2>1. \A q \in Projects : q # p => Untouched(q) /\ OwnedStays(q)
    BY UpLeavesOthers, OtherLeavesOthers DEF Step
  <2> QED BY <2>1 DEF Untouched, OwnedStays
<1>2. OperationsInv => [Leaves]_vars
  BY <1>1
<1>3. []OperationsInv => [][Leaves]_vars
  BY <1>2, PTL
<1> QED BY <1>3, OperationsInvariant, PTL DEF OthersUntouched
=============================================================================
