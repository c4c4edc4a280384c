-------------------------- MODULE ProjectRegistry --------------------------
(***************************************************************************)
(* The map of projects in internal/api/handlers/project_handler.go.  A     *)
(* scan looks at the disk without the lock, then takes it, parses what it  *)
(* found and replaces the map.  Requests look a project up under the read  *)
(* lock and go on with the pointer: GetProjectDetail asks Docker and then  *)
(* writes into the shared project.  People edit the disk and containers    *)
(* come and go all the while.                                              *)
(***************************************************************************)
EXTENDS Naturals

CONSTANTS
    Projects,    \* directories that may hold a project
    Services,    \* the services of a project
    Versions,    \* contents of compose files that can be parsed
    Disks,       \* what the server may find on the disk when it starts
    Scans,       \* TriggerScan requests
    Details,     \* GetProjectDetail requests
    Target,      \* the project that each asks for
    Initial,     \* stands for InitialScan of main
    None,        \* no lock holder, no project in the map
    MaxEdits,    \* bound: changes of the disk
    MaxChanges   \* bound: changes of containers

Loaders == Scans \cup {Initial}
Contents == Versions \cup {"absent", "broken"}
ContainerStates == {"running", "exited"}

ASSUME RegistryAssumption ==
    /\ Initial \notin Scans /\ None \notin Loaders
    /\ {"absent", "broken", "none"} \cap Versions = {}
    /\ Disks \subseteq [Projects -> Contents]
    /\ Target \in [Details -> Projects]
    /\ MaxEdits \in Nat /\ MaxChanges \in Nat

VARIABLES
    disk,       \* what is in each directory
    daemon,     \* the containers of each project, by service
    projects,   \* the map: who parsed the object that it points to
    heap,       \* the objects, named by who parsed them and their project
    mu,         \* who holds the write lock
    pc,         \* where a load is
    left,       \* the projects that it has yet to look at or to parse
    found,      \* the compose files that its scan found
    detail,     \* where a detail request is
    ptr,        \* the object that it found
    snap,       \* the containers that Docker told it of
    todo,       \* the services that it has yet to write
    edits, changes

loadVars == <<projects, mu, pc, left, found>>
detailVars == <<detail, ptr, snap, todo>>

VARIABLES
    steady,     \* history: directories unchanged since a load began
    owed,       \* history: unchanged since the load that made the map began
    disturbed   \* history: requests that shared their object, or that Docker refused

ghostVars == <<steady, owed, disturbed>>
vars == <<disk, daemon, heap, loadVars, detailVars, edits, changes, ghostVars>>

Statuses == {"unknown", "running", "stopped", "partial"}
States == {"created"} \cup ContainerStates
Containers == [Services -> {"none"} \cup ContainerStates]
Objects == [ver : Versions \cup {"none"}, status : Statuses, state : [Services -> States]]
NoContainers == [v \in Services |-> "none"]

RegistryTypeOK ==
    /\ disk \in [Projects -> Contents] /\ daemon \in [Projects -> Containers]
    /\ projects \in [Projects -> Loaders \cup {None}]
    /\ heap \in [Loaders -> [Projects -> Objects]]
    /\ mu \in Loaders \cup {None}
    /\ pc \in [Loaders -> {"idle", "scan", "parse", "done"}]
    /\ left \in [Loaders -> SUBSET Projects] /\ found \in [Loaders -> SUBSET Projects]
    /\ detail \in [Details -> {"idle", "status", "write", "fill", "answer", "missing", "done"}]
    /\ ptr \in [Details -> Loaders]
    /\ snap \in [Details -> Containers] /\ todo \in [Details -> SUBSET Services]
    /\ edits \in 0..MaxEdits /\ changes \in 0..MaxChanges
    /\ steady \in [Loaders -> SUBSET Projects] /\ owed \subseteq Projects
    /\ disturbed \subseteq Details

(* A project as Parse returns it: its status and states are not known yet. *)
Parsed(v) == [ver |-> v, status |-> "unknown", state |-> [s \in Services |-> "created"]]

Init ==
    /\ disk \in Disks
    /\ \E c \in {"none", "running"} : daemon = [p \in Projects |-> [v \in Services |-> c]]
    /\ projects = [p \in Projects |-> None]
    /\ heap = [l \in Loaders |-> [p \in Projects |-> Parsed("none")]]
    /\ mu = None
    /\ pc = [l \in Loaders |-> "idle"]
    /\ left = [l \in Loaders |-> {}] /\ found = [l \in Loaders |-> {}]
    /\ detail = [d \in Details |-> "idle"]
    /\ ptr = [d \in Details |-> Initial]
    /\ snap = [d \in Details |-> NoContainers]
    /\ todo = [d \in Details |-> {}]
    /\ edits = 0 /\ changes = 0
    /\ steady = [l \in Loaders |-> {}] /\ owed = {} /\ disturbed = {}

-----------------------------------------------------------------------------
(* The surroundings.                                                       *)

(* Somebody writes, breaks or deletes the compose files of a directory.    *)
Edit(p) ==
    /\ edits < MaxEdits
    /\ edits' = edits + 1
    /\ \E c \in Contents \ {disk[p]} : disk' = [disk EXCEPT ![p] = c]
    /\ steady' = [l \in Loaders |-> steady[l] \ {p}]
    /\ owed' = owed \ {p}
    /\ UNCHANGED <<daemon, heap, loadVars, detailVars, changes, disturbed>>

(* A container is made, changes its state or is removed, of a project that *)
(* a request has yet to ask Docker about.                                  *)
ContainerChanges(p) ==
    /\ changes < MaxChanges
    /\ \E d \in Details : Target[d] = p /\ detail[d] \in {"idle", "status"}
    /\ changes' = changes + 1
    /\ \E v \in Services, c \in {"none"} \cup ContainerStates :
          c # daemon[p][v] /\ daemon' = [daemon EXCEPT ![p][v] = c]
    /\ UNCHANGED <<disk, heap, loadVars, detailVars, edits, ghostVars>>

-----------------------------------------------------------------------------
(* TriggerScan and InitialScan.                                            *)

(* Directories are walked in one order, and their files parsed in it.      *)
Foremost(dirs) == CHOOSE p \in dirs : TRUE

(* main serves requests once InitialScan has returned.                     *)
ScanBegins(l) ==
    /\ pc[l] = "idle"
    /\ l # Initial => pc[Initial] = "done"
    /\ pc' = [pc EXCEPT ![l] = "scan"]
    /\ left' = [left EXCEPT ![l] = Projects]
    /\ steady' = [steady EXCEPT ![l] = Projects]
    /\ UNCHANGED <<disk, daemon, heap, projects, mu, found, detailVars, edits, changes, owed, disturbed>>

(* The scanner comes to a directory; a file is found whatever is in it.    *)
ScanLooks(l, p) ==
    /\ pc[l] = "scan" /\ left[l] # {} /\ p = Foremost(left[l])
    /\ left' = [left EXCEPT ![l] = @ \ {p}]
    /\ found' = [found EXCEPT ![l] = IF disk[p] = "absent" THEN @ ELSE @ \cup {p}]
    /\ UNCHANGED <<disk, daemon, heap, projects, mu, pc, detailVars, edits, changes, ghostVars>>

(* The client has gone before the next directory: the map stays.           *)
ScanFails(l) ==
    /\ pc[l] = "scan" /\ left[l] # {}
    /\ pc' = [pc EXCEPT ![l] = "done"]
    /\ left' = [left EXCEPT ![l] = {}] /\ found' = [found EXCEPT ![l] = {}]
    /\ steady' = [steady EXCEPT ![l] = {}]
    /\ UNCHANGED <<disk, daemon, heap, projects, mu, detailVars, edits, changes, owed, disturbed>>

(* Mutant: a load does not wait for the other one.                         *)
LockTakenTwice(l) ==
    /\ pc[l] = "scan" /\ left[l] = {}
    /\ mu' = l
    /\ pc' = [pc EXCEPT ![l] = "parse"]
    /\ left' = [left EXCEPT ![l] = found[l]] /\ found' = [found EXCEPT ![l] = {}]
    /\ UNCHANGED <<disk, daemon, heap, projects, detailVars, edits, changes, ghostVars>>

LockTaken(l) ==
    /\ pc[l] = "scan" /\ left[l] = {} /\ mu = None
    /\ mu' = l
    /\ pc' = [pc EXCEPT ![l] = "parse"]
    /\ left' = [left EXCEPT ![l] = found[l]] /\ found' = [found EXCEPT ![l] = {}]
    /\ UNCHANGED <<disk, daemon, heap, projects, detailVars, edits, changes, ghostVars>>

(* One round of the loop, under the lock.  Files that have gone or do not  *)
(* parse are skipped.  InitialScan puts the project into the map here.     *)
ParseNext(l, p) ==
    /\ pc[l] = "parse" /\ left[l] # {} /\ p = Foremost(left[l])
    /\ left' = [left EXCEPT ![l] = @ \ {p}]
    /\ \/ /\ disk[p] \in Versions
          /\ heap' = [heap EXCEPT ![l][p] = Parsed(disk[p])]
          /\ projects' = IF l = Initial THEN [projects EXCEPT ![p] = l] ELSE projects
       \/ /\ disk[p] \notin Versions
          /\ UNCHANGED <<heap, projects>>
    /\ UNCHANGED <<disk, daemon, mu, pc, found, detailVars, edits, changes, ghostVars>>

(* Mutant: TriggerScan adds to the map like InitialScan.                   *)
InstallAdds(l) ==
    /\ pc[l] = "parse" /\ left[l] = {}
    /\ projects' = [p \in Projects |-> IF heap[l][p].ver # "none" THEN l ELSE projects[p]]
    /\ mu' = None
    /\ pc' = [pc EXCEPT ![l] = "done"]
    /\ owed' = steady[l] /\ steady' = [steady EXCEPT ![l] = {}]
    /\ UNCHANGED <<disk, daemon, heap, left, found, detailVars, edits, changes, disturbed>>

(* The new map replaces the old one and the lock is released.              *)
Install(l) ==
    /\ pc[l] = "parse" /\ left[l] = {}
    /\ projects' = IF l = Initial THEN projects
                   ELSE [p \in Projects |-> IF heap[l][p].ver # "none" THEN l ELSE None]
    /\ mu' = None
    /\ pc' = [pc EXCEPT ![l] = "done"]
    /\ owed' = steady[l] /\ steady' = [steady EXCEPT ![l] = {}]
    /\ UNCHANGED <<disk, daemon, heap, left, found, detailVars, edits, changes, disturbed>>

-----------------------------------------------------------------------------
(* GetProjectDetail.                                                       *)

(* GetProject and every handler look up under the read lock.               *)
Lookup(p) == projects[p]

Busy(d) == detail[d] \in {"status", "write", "fill", "answer"}

DetailLooksUp(d) ==
    LET l == Lookup(Target[d])
        others == {e \in Details : Busy(e) /\ Target[e] = Target[d] /\ ptr[e] = l}
    IN
    /\ detail[d] = "idle" /\ pc[Initial] = "done" /\ mu = None
    /\ \/ /\ l = None
          /\ detail' = [detail EXCEPT ![d] = "missing"]
          /\ UNCHANGED <<ptr, disturbed>>
       \/ /\ l # None
          /\ detail' = [detail EXCEPT ![d] = "status"]
          /\ ptr' = [ptr EXCEPT ![d] = l]
          /\ disturbed' = IF others = {} THEN disturbed ELSE disturbed \cup others \cup {d}
    /\ UNCHANGED <<disk, daemon, heap, loadVars, snap, todo, edits, changes, steady, owed>>

(* GetProjectStatus: one list of the containers.  Without any, or without  *)
(* running ones, a project is stopped.                                     *)
GetProjectStatus(c) ==
    LET run == {v \in Services : c[v] = "running"}
        all == {v \in Services : c[v] # "none"}
    IN IF run = {} THEN "stopped" ELSE IF run = all THEN "running" ELSE "partial"

DetailAsksDocker(d) ==
    /\ detail[d] = "status"
    /\ detail' = [detail EXCEPT ![d] = "write"]
    /\ snap' = [snap EXCEPT ![d] = daemon[Target[d]]]
    /\ UNCHANGED <<disk, daemon, heap, loadVars, ptr, todo, edits, changes, ghostVars>>

(* The error is logged and the project answered as it is.                  *)
DockerFails(d) ==
    /\ detail[d] = "status"
    /\ detail' = [detail EXCEPT ![d] = "answer"]
    /\ disturbed' = disturbed \cup {d}
    /\ UNCHANGED <<disk, daemon, heap, loadVars, ptr, snap, todo, edits, changes, steady, owed>>

(* Mutant: the project is looked up again after the call of Docker.        *)
DetailWritesStatusAfresh(d) ==
    LET l == IF Lookup(Target[d]) = None THEN ptr[d] ELSE Lookup(Target[d]) IN
    /\ detail[d] = "write"
    /\ detail' = [detail EXCEPT ![d] = "fill"]
    /\ heap' = [heap EXCEPT ![l][Target[d]].status = GetProjectStatus(snap[d])]
    /\ todo' = [todo EXCEPT ![d] = {v \in Services : snap[d][v] # "none"}]
    /\ UNCHANGED <<disk, daemon, loadVars, ptr, snap, edits, changes, ghostVars>>

(* Without the lock, into whatever object the request holds.  Services     *)
(* without a container are left as they are.                               *)
DetailWritesStatus(d) ==
    /\ detail[d] = "write"
    /\ detail' = [detail EXCEPT ![d] = "fill"]
    /\ heap' = [heap EXCEPT ![ptr[d]][Target[d]].status = GetProjectStatus(snap[d])]
    /\ todo' = [todo EXCEPT ![d] = {v \in Services : snap[d][v] # "none"}]
    /\ UNCHANGED <<disk, daemon, loadVars, ptr, snap, edits, changes, ghostVars>>

(* One round of the loop; Parse leaves the services in any order.          *)
DetailWritesService(d, v) ==
    /\ detail[d] = "fill" /\ v \in todo[d]
    /\ heap' = [heap EXCEPT ![ptr[d]][Target[d]].state[v] = snap[d][v]]
    /\ todo' = [todo EXCEPT ![d] = @ \ {v}]
    /\ UNCHANGED <<disk, daemon, loadVars, detail, ptr, snap, edits, changes, ghostVars>>

(* WriteJSON reads the object, again without the lock; the request's       *)
(* variables are gone after it.                                            *)
Answer(d) == heap[ptr[d]][Target[d]]

DetailAnswers(d) ==
    /\ detail[d] = "answer" \/ (detail[d] = "fill" /\ todo[d] = {})
    /\ detail' = [detail EXCEPT ![d] = "done"]
    /\ ptr' = [ptr EXCEPT ![d] = Initial]
    /\ snap' = [snap EXCEPT ![d] = NoContainers]
    /\ disturbed' = disturbed \ {d}
    /\ UNCHANGED <<disk, daemon, heap, loadVars, todo, edits, changes, steady, owed>>

-----------------------------------------------------------------------------
LoadStep(l) ==
    \/ ScanBegins(l) \/ ScanFails(l) \/ LockTaken(l) \/ Install(l)
    \/ \E p \in Projects : ScanLooks(l, p) \/ ParseNext(l, p)

DetailStep(d) ==
    \/ DetailLooksUp(d) \/ DetailAsksDocker(d) \/ DockerFails(d)
    \/ DetailWritesStatus(d) \/ DetailAnswers(d)
    \/ \E v \in Services : DetailWritesService(d, v)

AllAnswered ==
    /\ \A l \in Loaders : pc[l] = "done"
    /\ \A d \in Details : detail[d] \in {"missing", "done"}
    /\ UNCHANGED vars

Next ==
    \/ \E p \in Projects : Edit(p)
    \/ \E d \in Details : ContainerChanges(Target[d])
    \/ \E l \in Loaders : LoadStep(l)
    \/ \E d \in Details : DetailStep(d)
    \/ AllAnswered

Spec == Init /\ [][Next]_vars

-----------------------------------------------------------------------------
(* The map agrees with the disk about every directory that has not changed *)
(* since the scan that made it began: a project whose files parse is there *)
(* with their contents, one that is gone or broken is not.  This is        *)
(* project_handler.go:107-121 with scans, edits and lookups interleaved.   *)
RegistryMatchesDisk ==
    \A p \in owed :
        IF disk[p] \in Versions
        THEN projects[p] # None /\ heap[projects[p]][p].ver = disk[p]
        ELSE projects[p] = None

(* A detail request that nobody shared its object with answers what Docker *)
(* told it, even if a scan replaced the project in between                 *)
(* (project_handler.go:93-100).                                            *)
AnswerIsOneSnapshot ==
    [][\A d \in Details \ disturbed : DetailAnswers(d) =>
          /\ Answer(d).status = GetProjectStatus(snap[d])
          /\ \A v \in Services : snap[d][v] # "none" => Answer(d).state[v] = snap[d][v]]_vars

(* What makes these two inductive.  The lock is held exactly while a load  *)
(* parses, and what a load has found and parsed is what is on the disk,    *)
(* where that has not changed since it began (project_handler.go:107-121). *)
LoadsMatchDisk ==
    \A l \in Loaders :
        /\ mu = l <=> pc[l] = "parse"
        /\ pc[l] \in {"idle", "scan"} => \A p \in Projects : heap[l][p].ver = "none"
        /\ pc[l] = "idle" => found[l] = {}
        /\ pc[l] = "scan" => /\ found[l] \cap left[l] = {}
                            /\ \A p \in steady[l] \ left[l] : p \in found[l] <=> disk[p] # "absent"
        /\ pc[l] = "parse" => \A p \in steady[l] :
              heap[l][p].ver = IF p \notin left[l] /\ disk[p] \in Versions THEN disk[p] ELSE "none"

(* The map holds what a finished load has parsed, and before the server    *)
(* serves what InitialScan has parsed so far.                              *)
MapIsLoaded ==
    /\ \A p \in Projects : projects[p] # None =>
          /\ heap[projects[p]][p].ver # "none"
          /\ projects[p] = Initial \/ pc[projects[p]] = "done"
    /\ pc[Initial] # "done" =>
          /\ \A l \in Scans : pc[l] = "idle"
          /\ \A d \in Details : detail[d] = "idle"
          /\ owed = {}
          /\ \A p \in Projects : projects[p] = IF heap[Initial][p].ver # "none" THEN Initial ELSE None

(* Requests hold objects of finished loads, no other request that is not   *)
(* disturbed has the same one, and what such a request has written stays.  *)
DetailsKeepApart ==
    \A d \in Details :
        /\ Busy(d) => pc[ptr[d]] = "done"
        /\ \A e \in Details \ {d} :
              Busy(d) /\ Busy(e) /\ Target[d] = Target[e] /\ ptr[d] = ptr[e] => d \in disturbed
        /\ detail[d] = "answer" => d \in disturbed
        /\ detail[d] # "fill" => todo[d] = {}
        /\ \A v \in todo[d] : snap[d][v] # "none"
        /\ detail[d] = "fill" /\ d \notin disturbed =>
              /\ Answer(d).status = GetProjectStatus(snap[d])
              /\ \A v \in Services \ todo[d] : snap[d][v] # "none" => Answer(d).state[v] = snap[d][v]

RegistryInv == RegistryTypeOK /\ LoadsMatchDisk /\ MapIsLoaded /\ DetailsKeepApart
=============================================================================
