--------------------------- MODULE RegistryProofs ---------------------------
(* The project registry for any number of directories, scans and requests: *)
(* the map never disagrees with the disk about a directory that the scan   *)
(* behind it could see unchanged, and a request that has its project to    *)
(* itself answers one snapshot of Docker.                                  *)
EXTENDS ProjectRegistry, TLAPS

Sound == RegistryInv /\ RegistryMatchesDisk

USE RegistryAssumption DEF Loaders

(* What Parse, GetProjectStatus and the writes make of an object.          *)
LEMMA ParsedIsObject == \A v \in Versions \cup {"none"} : Parsed(v) \in Objects /\ Parsed(v).ver = v
BY DEF Parsed, Objects, Statuses, States

(* Whatever Docker lists makes one of the four statuses.                   *)
LEMMA StatusIsStatus == \A c : GetProjectStatus(c) \in Statuses
BY DEF GetProjectStatus, Statuses

(* Writing a status or a state into an object gives an object.             *)
LEMMA ObjectUpdates ==
    ASSUME NEW o \in Objects
    PROVE  /\ \A x \in Statuses : /\ [o EXCEPT !.status = x] \in Objects
                                  /\ [o EXCEPT !.status = x].ver = o.ver
                                  /\ [o EXCEPT !.status = x].status = x
           /\ \A f \in [Services -> States] : /\ [o EXCEPT !.state = f] \in Objects
                                               /\ [o EXCEPT !.state = f].ver = o.ver
                                               /\ [o EXCEPT !.state = f].status = o.status
                                               /\ [o EXCEPT !.state = f].state = f
BY DEF Objects

(* Before the first step nothing is loaded and nobody has asked.           *)
LEMMA RegistryInitSound == Init => Sound
<1> SUFFICES ASSUME Init PROVE Sound
  OBVIOUS
<1>1. RegistryTypeOK
  BY ParsedIsObject DEF Init, RegistryTypeOK, Containers, ContainerStates, NoContainers
<1>2. LoadsMatchDisk /\ MapIsLoaded
  BY ParsedIsObject DEF Init, LoadsMatchDisk, MapIsLoaded
<1>3. DetailsKeepApart /\ RegistryMatchesDisk
  BY DEF Init, DetailsKeepApart, Busy, RegistryMatchesDisk
<1> QED
  BY <1>1, <1>2, <1>3 DEF Sound, RegistryInv

(* People and containers: a directory that is edited is steady no more.    *)
LEMMA SurroundingsSound ==
    ASSUME Sound, NEW p \in Projects, Edit(p) \/ ContainerChanges(p)
    PROVE  Sound'
<1>1. CASE Edit(p)
  <2> USE <1>1 DEF Edit, Sound, RegistryInv, loadVars, detailVars
  <2>1. RegistryTypeOK'
    BY DEF RegistryTypeOK
  <2>2. LoadsMatchDisk'
    BY DEF LoadsMatchDisk, RegistryTypeOK
  <2>3. MapIsLoaded'
    BY DEF MapIsLoaded
  <2>4. DetailsKeepApart'
    BY DEF DetailsKeepApart, Busy, Answer
  <2>5. RegistryMatchesDisk'
    BY DEF RegistryMatchesDisk, RegistryTypeOK
  <2> QED
    BY <2>1, <2>2, <2>3, <2>4, <2>5
<1>2. CASE ContainerChanges(p)
  <2> USE <1>2 DEF ContainerChanges, Sound, RegistryInv, loadVars, detailVars, ghostVars
  <2>1. RegistryTypeOK'
    BY DEF RegistryTypeOK, Containers, ContainerStates
  <2>2. LoadsMatchDisk' /\ MapIsLoaded' /\ RegistryMatchesDisk'
    BY DEF LoadsMatchDisk, MapIsLoaded, RegistryMatchesDisk
  <2>3. DetailsKeepApart'
    BY DEF DetailsKeepApart, Busy, Answer
  <2> QED
    BY <2>1, <2>2, <2>3
<1> QED
  BY <1>1, <1>2

(* The steps of a load outside the lock: the directories that it has       *)
(* passed and that are steady are found if they are not absent.            *)
LEMMA ScanSound ==
    ASSUME Sound, NEW l \in Loaders,
           ScanBegins(l) \/ ScanFails(l) \/ \E p \in Projects : ScanLooks(l, p)
    PROVE  Sound'
<1> USE DEF Sound, RegistryInv, detailVars, ghostVars
<1>1. CASE ScanBegins(l)
  <2> USE <1>1 DEF ScanBegins
  <2>1. RegistryTypeOK'
    BY DEF RegistryTypeOK
  <2>2. LoadsMatchDisk'
    BY DEF LoadsMatchDisk, RegistryTypeOK
  <2>3. MapIsLoaded'
    BY DEF MapIsLoaded, RegistryTypeOK
  <2>4. DetailsKeepApart'
    BY DEF DetailsKeepApart, Busy, Answer, RegistryTypeOK
  <2>5. RegistryMatchesDisk'
    BY DEF RegistryMatchesDisk
  <2> QED
    BY <2>1, <2>2, <2>3, <2>4, <2>5
<1>2. CASE ScanFails(l)
  <2> USE <1>2 DEF ScanFails
  <2>1. RegistryTypeOK'
    BY DEF RegistryTypeOK
  <2>2. LoadsMatchDisk'
    BY DEF LoadsMatchDisk, RegistryTypeOK
  <2>3. MapIsLoaded'
    BY DEF MapIsLoaded, RegistryTypeOK
  <2>4. DetailsKeepApart'
    BY DEF DetailsKeepApart, Busy, Answer, RegistryTypeOK
  <2>5. RegistryMatchesDisk'
    BY DEF RegistryMatchesDisk
  <2> QED
    BY <2>1, <2>2, <2>3, <2>4, <2>5
<1>3. ASSUME NEW p \in Projects, ScanLooks(l, p) PROVE Sound'
  <2> USE <1>3 DEF ScanLooks
  <2>1. RegistryTypeOK'
    BY DEF RegistryTypeOK
  <2>2. \A q \in Projects \ left'[l] : q \in found'[l] <=> q \in found[l] \/ (q = p /\ disk[p] # "absent")
    BY DEF RegistryTypeOK
  <2>3. left'[l] = left[l] \ {p} /\ p \in left[l] /\ \A k \in Loaders \ {l} : left'[k] = left[k] /\ found'[k] = found[k]
    BY DEF RegistryTypeOK, Foremost
  <2>4. /\ found'[l] \cap left'[l] = {}
        /\ \A q \in steady[l] \ left'[l] : q \in found'[l] <=> disk[q] # "absent"
    BY <2>2, <2>3 DEF LoadsMatchDisk, RegistryTypeOK
  <2>5. LoadsMatchDisk'
    BY <2>3, <2>4 DEF LoadsMatchDisk
  <2>6. MapIsLoaded' /\ RegistryMatchesDisk'
    BY DEF MapIsLoaded, RegistryMatchesDisk
  <2>7. DetailsKeepApart'
    BY DEF DetailsKeepApart, Busy, Answer
  <2> QED
    BY <2>1, <2>5, <2>6, <2>7
<1> QED
  BY <1>1, <1>2, <1>3

(* The steps of a load under the lock.                                     *)
LEMMA LockedSound ==
    ASSUME Sound, NEW l \in Loaders,
           LockTaken(l) \/ Install(l) \/ \E p \in Projects : ParseNext(l, p)
    PROVE  Sound'
<1> USE DEF Sound, RegistryInv, detailVars, ghostVars
<1>1. CASE LockTaken(l)
  <2> USE <1>1 DEF LockTaken
  <2>1. RegistryTypeOK'
    BY DEF RegistryTypeOK
  <2>2. LoadsMatchDisk'
    BY DEF LoadsMatchDisk, RegistryTypeOK
  <2>3. MapIsLoaded' /\ RegistryMatchesDisk'
    BY DEF MapIsLoaded, RegistryMatchesDisk, RegistryTypeOK
  <2>4. DetailsKeepApart'
    BY DEF DetailsKeepApart, Busy, Answer, RegistryTypeOK
  <2> QED
    BY <2>1, <2>2, <2>3, <2>4
<1>2. ASSUME NEW p \in Projects, ParseNext(l, p) PROVE Sound'
  <2> USE <1>2 DEF ParseNext
  <2>0. p \in left[l]
    BY DEF Foremost
  <2>1. RegistryTypeOK'
    <3>1. heap' \in [Loaders -> [Projects -> Objects]]
      <4>1. CASE disk[p] \in Versions
        <5>1. Parsed(disk[p]) \in Objects
          BY <4>1, ParsedIsObject
        <5>2. heap' = [heap EXCEPT ![l] = [heap[l] EXCEPT ![p] = Parsed(disk[p])]]
          BY <4>1
        <5>3. heap \in [Loaders -> [Projects -> Objects]]
          BY DEF RegistryTypeOK
        <5>4. [heap[l] EXCEPT ![p] = Parsed(disk[p])] \in [Projects -> Objects]
          BY <5>1, <5>3
        <5> HIDE <1>2
        <5> QED
          BY <5>2, <5>3, <5>4
      <4> QED
        BY <4>1 DEF RegistryTypeOK
    <3>2. projects' \in [Projects -> Loaders \cup {None}] /\ left' \in [Loaders -> SUBSET Projects]
      BY DEF RegistryTypeOK
    <3> QED
      BY <3>1, <3>2 DEF RegistryTypeOK
  <2>2. \A k \in Loaders, q \in Projects :
           /\ k # l \/ q # p => heap'[k][q] = heap[k][q]
           /\ heap'[k][q].ver # heap[k][q].ver => k = l /\ q = p
    BY DEF RegistryTypeOK
  <2>3. disk[p] \in Versions => heap'[l][p].ver = disk[p] /\ disk[p] # "none"
    BY ParsedIsObject DEF RegistryTypeOK
  <2>4. disk[p] \notin Versions => heap' = heap /\ projects' = projects
    OBVIOUS
  <2>5. LoadsMatchDisk'
    <3> SUFFICES ASSUME NEW k \in Loaders
                 PROVE  /\ mu = k <=> pc[k] = "parse"
                        /\ pc[k] \in {"idle", "scan"} => \A q \in Projects : heap'[k][q].ver = "none"
                        /\ pc[k] = "idle" => found[k] = {}
                        /\ pc[k] = "scan" => /\ found[k] \cap left'[k] = {}
                                            /\ \A q \in steady[k] \ left'[k] : q \in found[k] <=> disk[q] # "absent"
                        /\ pc[k] = "parse" => \A q \in steady[k] :
                              heap'[k][q].ver = IF q \notin left'[k] /\ disk[q] \in Versions
                                                THEN disk[q] ELSE "none"
      BY DEF LoadsMatchDisk
    <3>1. CASE k # l
      BY <2>2, <3>1 DEF LoadsMatchDisk, RegistryTypeOK
    <3>2. CASE k = l
      BY <2>0, <2>2, <2>3, <2>4, <3>2 DEF LoadsMatchDisk, RegistryTypeOK
    <3> QED
      BY <3>1, <3>2
  <2>6. MapIsLoaded'
    <3>1. CASE l = Initial
      <4>1. pc[Initial] # "done" /\ pc' = pc
        BY <3>1
      <4>2. \A q \in Projects : projects'[q] = IF heap'[Initial][q].ver # "none" THEN Initial ELSE None
        <5>1. CASE disk[p] \in Versions
          <6> SUFFICES ASSUME NEW q \in Projects
                       PROVE  projects'[q] = IF heap'[Initial][q].ver # "none" THEN Initial ELSE None
            OBVIOUS
          <6>1. CASE q = p
            BY <2>3, <3>1, <5>1, <6>1 DEF RegistryTypeOK
          <6>2. CASE q # p
            BY <2>2, <3>1, <4>1, <5>1, <6>2 DEF MapIsLoaded, RegistryTypeOK
          <6> QED
            BY <6>1, <6>2
        <5>2. CASE disk[p] \notin Versions
          BY <2>4, <4>1, <5>2 DEF MapIsLoaded
        <5> QED
          BY <5>1, <5>2
      <4> QED
        BY <4>1, <4>2 DEF MapIsLoaded
    <3>2. CASE l # Initial
      BY <2>2, <2>3, <2>4, <3>2 DEF MapIsLoaded, RegistryTypeOK
    <3> QED
      BY <3>1, <3>2
  <2>7. DetailsKeepApart'
    <3>1. \A d \in Details : Busy(d) => heap'[ptr[d]][Target[d]] = heap[ptr[d]][Target[d]]
      BY <2>2 DEF DetailsKeepApart, RegistryTypeOK
    <3> QED
      BY <3>1 DEF DetailsKeepApart, Busy, Answer
  <2>8. RegistryMatchesDisk'
    <3>1. CASE l = Initial
      BY <3>1 DEF MapIsLoaded, RegistryMatchesDisk
    <3>2. CASE l # Initial
      <4>1. projects' = projects /\ \A q \in Projects : projects[q] # l
        BY <3>2 DEF MapIsLoaded
      <4>2. \A q \in owed : q \in Projects /\ (projects[q] # None => heap'[projects[q]][q] = heap[projects[q]][q])
        BY <2>2, <4>1 DEF RegistryTypeOK
      <4> QED
        BY <4>1, <4>2 DEF RegistryMatchesDisk
    <3> QED
      BY <3>1, <3>2
  <2> QED
    BY <2>1, <2>5, <2>6, <2>7, <2>8
<1>3. CASE Install(l)
  <2> USE <1>3 DEF Install
  <2>1. RegistryTypeOK'
    BY DEF RegistryTypeOK
  <2>2. LoadsMatchDisk'
    BY DEF LoadsMatchDisk, RegistryTypeOK
  <2>3. MapIsLoaded'
    BY DEF MapIsLoaded, RegistryTypeOK
  <2>4. DetailsKeepApart'
    BY DEF DetailsKeepApart, Busy, Answer, RegistryTypeOK
  <2>5. RegistryMatchesDisk'
    <3> SUFFICES ASSUME NEW q \in steady[l]
                 PROVE  IF disk[q] \in Versions
                        THEN projects'[q] # None /\ heap[projects'[q]][q].ver = disk[q]
                        ELSE projects'[q] = None
      BY DEF RegistryMatchesDisk
    <3>1. q \in Projects /\ heap[l][q].ver = IF disk[q] \in Versions THEN disk[q] ELSE "none"
      BY DEF LoadsMatchDisk, RegistryTypeOK
    <3>2. projects'[q] = IF heap[l][q].ver # "none" THEN l ELSE None
      BY <3>1 DEF MapIsLoaded
    <3> QED
      BY <3>1, <3>2
  <2> QED
    BY <2>1, <2>2, <2>3, <2>4, <2>5
<1> QED
  BY <1>1, <1>2, <1>3

(* The steps of a request that leave the objects alone.                    *)
LEMMA DetailReadsSound ==
    ASSUME Sound, NEW d \in Details,
           DetailLooksUp(d) \/ DetailAsksDocker(d) \/ DockerFails(d) \/ DetailAnswers(d)
    PROVE  Sound'
<1> USE DEF Sound, RegistryInv, loadVars, ghostVars
<1>1. CASE DetailLooksUp(d)
  <2> USE <1>1 DEF DetailLooksUp, Lookup
  <2>1. RegistryTypeOK'
    BY DEF RegistryTypeOK
  <2>2. LoadsMatchDisk' /\ RegistryMatchesDisk'
    BY DEF LoadsMatchDisk, RegistryMatchesDisk
  <2>3. MapIsLoaded'
    BY DEF MapIsLoaded
  <2>4. CASE projects[Target[d]] = None
    BY <2>1, <2>2, <2>3, <2>4 DEF DetailsKeepApart, Busy, Answer, RegistryTypeOK
  <2>5. CASE projects[Target[d]] # None
    <3> DEFINE l == projects[Target[d]]
               others == {e \in Details : Busy(e) /\ Target[e] = Target[d] /\ ptr[e] = l}
    <3>1. /\ detail' = [detail EXCEPT ![d] = "status"] /\ ptr' = [ptr EXCEPT ![d] = l]
          /\ disturbed' = IF others = {} THEN disturbed ELSE disturbed \cup others \cup {d}
      BY <2>5
    <3>2. l \in Loaders /\ pc[l] = "done" /\ ~Busy(d)
      BY <2>5 DEF MapIsLoaded, Busy, RegistryTypeOK
    <3>3. \A e \in Details : Busy(e)' <=> Busy(e) \/ e = d
      BY <3>1 DEF Busy, RegistryTypeOK
    <3>4. \A e \in Details : ptr'[e] = IF e = d THEN l ELSE ptr[e]
      BY <3>1 DEF RegistryTypeOK
    <3>5. \A e \in Details : Busy(e)' => pc[ptr'[e]] = "done"
      BY <3>2, <3>3, <3>4 DEF DetailsKeepApart
    <3>6. \A e, f \in Details :
             e # f /\ Busy(e)' /\ Busy(f)' /\ Target[e] = Target[f] /\ ptr'[e] = ptr'[f] => e \in disturbed'
      <4> SUFFICES ASSUME NEW e \in Details, NEW f \in Details, e # f, Busy(e)', Busy(f)',
                          Target[e] = Target[f], ptr'[e] = ptr'[f]
                   PROVE  e \in disturbed'
        OBVIOUS
      <4>1. CASE e = d
        <5>1. f \in others
          BY <3>3, <3>4, <4>1
        <5> QED
          BY <3>1, <4>1, <5>1
      <4>2. CASE f = d
        <5>1. e \in others
          BY <3>3, <3>4, <4>2
        <5> QED
          BY <3>1, <5>1
      <4>3. CASE e # d /\ f # d
        BY <3>1, <3>3, <3>4, <4>3 DEF DetailsKeepApart
      <4> QED
        BY <4>1, <4>2, <4>3
    <3>7. \A e \in Details :
             /\ detail'[e] = "answer" => e \in disturbed'
             /\ detail'[e] # "fill" => todo[e] = {}
             /\ \A v \in todo[e] : snap[e][v] # "none"
             /\ detail'[e] = "fill" /\ e \notin disturbed' =>
                   /\ Answer(e)'.status = GetProjectStatus(snap[e])
                   /\ \A v \in Services \ todo[e] : snap[e][v] # "none" => Answer(e)'.state[v] = snap[e][v]
      BY <3>1, <3>4 DEF DetailsKeepApart, Answer, RegistryTypeOK
    <3> HIDE DEF l, others
    <3> QED
      BY <3>5, <3>6, <3>7, <2>1, <2>2, <2>3 DEF DetailsKeepApart
  <2> QED
    BY <2>1, <2>2, <2>3, <2>4, <2>5
<1>2. CASE DetailAsksDocker(d) \/ DockerFails(d)
  <2> USE <1>2 DEF DetailAsksDocker, DockerFails
  <2>1. RegistryTypeOK'
    BY DEF RegistryTypeOK
  <2>2. LoadsMatchDisk' /\ RegistryMatchesDisk'
    BY DEF LoadsMatchDisk, RegistryMatchesDisk
  <2>3. MapIsLoaded'
    BY DEF MapIsLoaded
  <2>4. DetailsKeepApart'
    BY DEF DetailsKeepApart, Busy, Answer, RegistryTypeOK
  <2> QED
    BY <2>1, <2>2, <2>3, <2>4
<1>3. CASE DetailAnswers(d)
  <2> USE <1>3 DEF DetailAnswers
  <2>1. RegistryTypeOK'
    BY DEF RegistryTypeOK, NoContainers, Containers
  <2>2. LoadsMatchDisk' /\ RegistryMatchesDisk'
    BY DEF LoadsMatchDisk, RegistryMatchesDisk
  <2>3. MapIsLoaded'
    BY DEF MapIsLoaded
  <2>4. DetailsKeepApart'
    BY DEF DetailsKeepApart, Busy, Answer, RegistryTypeOK
  <2> QED
    BY <2>1, <2>2, <2>3, <2>4
<1> QED
  BY <1>1, <1>2, <1>3

(* The steps that write into the shared object.  The version that was      *)
(* parsed stays, and a request that works on the same object is disturbed. *)
LEMMA DetailWritesSound ==
    ASSUME Sound, NEW d \in Details,
           DetailWritesStatus(d) \/ \E v \in Services : DetailWritesService(d, v)
    PROVE  Sound'
<1> USE DEF Sound, RegistryInv, loadVars, ghostVars
<1> DEFINE m == ptr[d]
           t == Target[d]
<1>1. m \in Loaders /\ t \in Projects /\ heap \in [Loaders -> [Projects -> Objects]] /\ Busy(d)
  BY DEF RegistryTypeOK, DetailWritesStatus, DetailWritesService, Busy
<1>2. ASSUME NEW o \in Objects, o.ver = heap[m][t].ver,
             heap' = [heap EXCEPT ![m] = [heap[m] EXCEPT ![t] = o]],
             detail' = [detail EXCEPT ![d] = "fill"],
             NEW w \in SUBSET Services, \A v \in w : snap[d][v] # "none", todo' = [todo EXCEPT ![d] = w],
             UNCHANGED <<disk, daemon, loadVars, ptr, snap, edits, changes, ghostVars>>,
             d \notin disturbed => /\ o.status = GetProjectStatus(snap[d])
                                  /\ \A v \in Services \ w : snap[d][v] # "none" => o.state[v] = snap[d][v]
      PROVE  Sound'
  <2> HIDE DEF m, t
  <2>1. RegistryTypeOK'
    <3>1. [heap[m] EXCEPT ![t] = o] \in [Projects -> Objects]
      BY <1>1
    <3>2. heap' \in [Loaders -> [Projects -> Objects]]
      BY <1>1, <1>2, <3>1
    <3> QED
      BY <1>2, <3>2 DEF RegistryTypeOK
  <2>2. \A k \in Loaders, q \in Projects : heap'[k][q] = IF k = m /\ q = t THEN o ELSE heap[k][q]
    BY <1>1, <1>2
  <2>3. \A k \in Loaders, q \in Projects : heap'[k][q].ver = heap[k][q].ver
    BY <1>2, <2>2
  <2>4. LoadsMatchDisk'
    BY <1>2, <2>3 DEF LoadsMatchDisk, RegistryTypeOK
  <2>5. MapIsLoaded'
    <3>1. pc[Initial] = "done"
      BY <1>1 DEF MapIsLoaded, Busy
    <3> QED
      BY <1>2, <2>3, <3>1 DEF MapIsLoaded, RegistryTypeOK
  <2>6. RegistryMatchesDisk'
    BY <1>2, <2>3 DEF RegistryMatchesDisk, RegistryTypeOK
  <2>7. \A e \in Details : Busy(e)' <=> Busy(e)
    BY <1>1, <1>2 DEF Busy, RegistryTypeOK
  <2>8. DetailsKeepApart'
    <3> SUFFICES ASSUME NEW e \in Details
                 PROVE  /\ Busy(e) => pc[ptr[e]] = "done"
                        /\ \A f \in Details \ {e} :
                              Busy(e) /\ Busy(f) /\ Target[e] = Target[f] /\ ptr[e] = ptr[f] => e \in disturbed
                        /\ detail'[e] = "answer" => e \in disturbed
                        /\ detail'[e] # "fill" => todo'[e] = {}
                        /\ \A v \in todo'[e] : snap[e][v] # "none"
                        /\ detail'[e] = "fill" /\ e \notin disturbed =>
                              /\ Answer(e)'.status = GetProjectStatus(snap[e])
                              /\ \A v \in Services \ todo'[e] :
                                    snap[e][v] # "none" => Answer(e)'.state[v] = snap[e][v]
      BY <1>2, <2>7 DEF DetailsKeepApart
    <3>1. CASE e = d
      <4>1. Answer(e)' = o /\ todo'[e] = w
        BY <1>1, <1>2, <2>2, <3>1 DEF Answer, RegistryTypeOK, m, t
      <4> QED
        BY <1>2, <3>1, <4>1 DEF DetailsKeepApart, RegistryTypeOK
    <3>2. CASE e # d
      <4>1. detail'[e] = detail[e] /\ todo'[e] = todo[e]
        BY <1>2, <3>2 DEF RegistryTypeOK
      <4>2. detail[e] = "fill" /\ e \notin disturbed => ptr[e] # m \/ Target[e] # t
        BY <1>1, <3>2 DEF DetailsKeepApart, Busy, m, t
      <4>3. detail[e] = "fill" /\ e \notin disturbed => Answer(e)' = Answer(e)
        BY <1>2, <2>2, <4>2 DEF Answer, RegistryTypeOK
      <4> QED
        BY <4>1, <4>3 DEF DetailsKeepApart
    <3> QED
      BY <3>1, <3>2
  <2> QED
    BY <2>1, <2>4, <2>5, <2>6, <2>8
<1>3. CASE DetailWritesStatus(d)
  <2> DEFINE o == [heap[m][t] EXCEPT !.status = GetProjectStatus(snap[d])]
             w == {v \in Services : snap[d][v] # "none"}
  <2>1. o \in Objects /\ o.ver = heap[m][t].ver /\ o.status = GetProjectStatus(snap[d])
    <3>1. heap[m][t] \in Objects
      BY <1>1
    <3> QED
      BY <3>1, ObjectUpdates, StatusIsStatus
  <2>2. heap' = [heap EXCEPT ![m] = [heap[m] EXCEPT ![t] = o]]
    BY <1>3 DEF DetailWritesStatus
  <2>3. /\ detail' = [detail EXCEPT ![d] = "fill"]
        /\ w \in SUBSET Services /\ todo' = [todo EXCEPT ![d] = w]
        /\ UNCHANGED <<disk, daemon, loadVars, ptr, snap, edits, changes, ghostVars>>
    BY <1>3 DEF DetailWritesStatus
  <2>4. (\A v \in Services \ w : snap[d][v] = "none") /\ \A v \in w : snap[d][v] # "none"
    OBVIOUS
  <2> HIDE DEF o, w
  <2> QED
    BY <1>2, <2>1, <2>2, <2>3, <2>4
<1>4. ASSUME NEW v \in Services, DetailWritesService(d, v) PROVE Sound'
  <2> DEFINE o == [heap[m][t] EXCEPT !.state = [heap[m][t].state EXCEPT ![v] = snap[d][v]]]
             w == todo[d] \ {v}
  <2>0. snap[d][v] # "none" /\ snap[d][v] \in States
    BY <1>4 DEF DetailWritesService, DetailsKeepApart, RegistryTypeOK, Containers, States, ContainerStates
  <2>1. o \in Objects /\ o.ver = heap[m][t].ver /\ o.status = heap[m][t].status
    <3>1. heap[m][t] \in Objects /\ heap[m][t].state \in [Services -> States]
      BY <1>1 DEF Objects
    <3>2. [heap[m][t].state EXCEPT ![v] = snap[d][v]] \in [Services -> States]
      BY <2>0, <3>1
    <3> QED
      BY <3>1, <3>2, ObjectUpdates
  <2>2. heap' = [heap EXCEPT ![m] = [heap[m] EXCEPT ![t] = o]]
    BY <1>4 DEF DetailWritesService
  <2>3. /\ detail' = [detail EXCEPT ![d] = "fill"]
        /\ w \in SUBSET Services /\ todo' = [todo EXCEPT ![d] = w]
        /\ UNCHANGED <<disk, daemon, loadVars, ptr, snap, edits, changes, ghostVars>>
    BY <1>4 DEF DetailWritesService, RegistryTypeOK
  <2>4. \A u \in Services : o.state[u] = IF u = v THEN snap[d][v] ELSE heap[m][t].state[u]
    BY <1>1 DEF Objects
  <2>5. \A u \in w : snap[d][u] # "none"
    BY DEF DetailsKeepApart
  <2>6. d \notin disturbed => /\ heap[m][t].status = GetProjectStatus(snap[d])
                             /\ \A u \in Services \ todo[d] : snap[d][u] # "none" => heap[m][t].state[u] = snap[d][u]
    BY <1>4 DEF DetailWritesService, DetailsKeepApart, Answer
  <2> HIDE DEF o, w, m, t
  <2>7. d \notin disturbed => \A u \in Services \ w : snap[d][u] # "none" => o.state[u] = snap[d][u]
    BY <2>4, <2>6 DEF w
  <2> QED
    BY <1>2, <2>1, <2>2, <2>3, <2>6, <2>7, <2>5
<1> QED
  BY <1>3, <1>4

(* Every step keeps the invariant.                                         *)
LEMMA RegistryStepSound == Sound /\ [Next]_vars => Sound'
<1> SUFFICES ASSUME Sound, [Next]_vars PROVE Sound'
  OBVIOUS
<1>1. CASE UNCHANGED vars
  BY <1>1 DEF vars, loadVars, detailVars, ghostVars, Sound, RegistryInv, RegistryTypeOK, LoadsMatchDisk,
              MapIsLoaded, DetailsKeepApart, RegistryMatchesDisk, Busy, Answer
<1>2. ASSUME NEW p \in Projects, Edit(p) PROVE Sound'
  BY <1>2, SurroundingsSound
<1>3. ASSUME NEW d \in Details, ContainerChanges(Target[d]) PROVE Sound'
  BY <1>3, SurroundingsSound
<1>4. ASSUME NEW l \in Loaders, LoadStep(l) PROVE Sound'
  BY <1>4, ScanSound, LockedSound DEF LoadStep
<1>5. ASSUME NEW d \in Details, DetailStep(d) PROVE Sound'
  BY <1>5, DetailReadsSound, DetailWritesSound DEF DetailStep
<1> QED
  BY <1>1, <1>2, <1>3, <1>4, <1>5 DEF Next, AllAnswered

(* The inductive invariant of the registry, for any number of directories, *)
(* services, scans and requests, and any number of edits.                  *)
THEOREM RegistryInvariant == Spec => []RegistryInv
<1>1. Sound => RegistryInv
  BY DEF Sound
<1> QED
  BY RegistryInitSound, RegistryStepSound, <1>1, PTL DEF Spec

(* The map agrees with the disk about every directory that has not changed *)
(* since the scan that made the map began.                                 *)
THEOREM RegistryAgreesWithDisk == Spec => []RegistryMatchesDisk
<1>1. Sound => RegistryMatchesDisk
  BY DEF Sound
<1> QED
  BY RegistryInitSound, RegistryStepSound, <1>1, PTL DEF Spec

(* A detail request that had its object to itself answers what Docker told *)
(* it: the unlocked writes harm only requests that share the object.       *)
THEOREM RegistryAnswersOneSnapshot == Spec => AnswerIsOneSnapshot
<1> DEFINE Good(d) == /\ Answer(d).status = GetProjectStatus(snap[d])
                      /\ \A v \in Services : snap[d][v] # "none" => Answer(d).state[v] = snap[d][v]
<1>1. RegistryInv /\ [Next]_vars => [\A d \in Details \ disturbed : DetailAnswers(d) => Good(d)]_vars
  BY DEF RegistryInv, DetailsKeepApart, DetailAnswers
<1> QED
  BY <1>1, RegistryInvariant, PTL DEF Spec, AnswerIsOneSnapshot
=============================================================================
