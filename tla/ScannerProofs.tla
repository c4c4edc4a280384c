--------------------------- MODULE ScannerProofs ---------------------------
(***************************************************************************)
(* A scan finds a directory at most once and stays within its depth limit, *)
(* for every file system, whatever the links are, and for inode numbers    *)
(* that need not even be distinct.  If they are, it finds all that can be  *)
(* reached through the entries that it could follow, and without links and *)
(* failures all within the limit.                                          *)
(***************************************************************************)
EXTENDS Scanner, WellFoundedInduction, TLAPS

Frame == [depth : Int, todo : SUBSET Entry]
Project == [path : Dirs, files : {DeduplicateAndOrder(Files[d]) : d \in Dirs}]

(* The entries of a directory are entries. *)
LEMMA EntriesOfType == \A d \in Dirs : EntriesOf(d) \subseteq Entry
<1> SUFFICES ASSUME NEW d \in Dirs, NEW x \in EntriesOf(d) PROVE x \in Entry
  OBVIOUS
<1>1. CASE \E c \in Dirs : x = [in |-> d, link |-> FALSE, to |-> c]
  BY <1>1 DEF Entry
<1>2. CASE \E t \in Dirs \cup {Nowhere} : x = [in |-> d, link |-> TRUE, to |-> t]
  BY <1>2 DEF Entry
<1>3. QED
  BY <1>1, <1>2 DEF EntriesOf

(* Dropping an entry changes no frame but the first, and of that only the   *)
(* entries it has still to look at. *)
LEMMA DropKeeps ==
    ASSUME NEW s \in Seq(Frame), s # <<>>, NEW e
    PROVE  LET t == [s EXCEPT ![1].todo = @ \ {e}]
           IN  /\ t \in Seq(Frame) /\ Len(t) = Len(s) /\ DOMAIN t = DOMAIN s
               /\ \A i \in DOMAIN s : t[i].depth = s[i].depth
<1> DEFINE t == [s EXCEPT ![1].todo = @ \ {e}]
<1>1. 1 \in DOMAIN s /\ s[1] \in Frame
  OBVIOUS
<1>2. s[1].todo \ {e} \in SUBSET Entry
  BY <1>1 DEF Frame
<1>3. [s[1] EXCEPT !.todo = @ \ {e}] \in Frame /\ [s[1] EXCEPT !.todo = @ \ {e}].depth = s[1].depth
  BY <1>1, <1>2 DEF Frame
<1>4. t = [s EXCEPT ![1] = [s[1] EXCEPT !.todo = @ \ {e}]]
  BY <1>1
<1>5. QED
  BY <1>1, <1>3, <1>4

(* The part of the invariant that does not need distinct inode numbers.    *)
BasicInv ==
    /\ ScannerTypeOK /\ FoundOnce /\ FoundIsVisited /\ StackIsPath
    /\ status = "done" => stack = <<>>

(* Scan calls walk with empty results. *)
LEMMA ScanInitInv == Init => BasicInv
<1> SUFFICES ASSUME Init PROVE BasicInv
  OBVIOUS
<1>1. [in |-> Nowhere, link |-> FALSE, to |-> Root] \in Entry
  BY ScannerAssumption DEF Entry
<1>2. stack \in Seq(Frame)
  BY <1>1 DEF Init, Frame, RootEntry
<1>3. StackIsPath
  BY ScannerAssumption DEF Init, StackIsPath
<1>4. projects \in Seq(Project) /\ DOMAIN projects = {}
  BY DEF Init
<1>5. FoundOnce /\ FoundIsVisited
  BY <1>4 DEF FoundOnce, FoundIsVisited
<1>6. QED
  BY <1>2, <1>3, <1>4, <1>5 DEF Init, BasicInv, ScannerTypeOK, Frame, Project

(* What the steps of walk on one entry do to the stack. *)
LEMMA DropKeepsStack ==
    ASSUME BasicInv, NEW e, Walking, Drop(e)
    PROVE  stack' \in Seq(Frame) /\ StackIsPath'
<1>1. stack \in Seq(Frame) /\ stack # <<>> /\ StackIsPath
  BY DEF BasicInv, ScannerTypeOK, Frame, Walking
<1>2. stack' = [stack EXCEPT ![1].todo = @ \ {e}]
  BY DEF Drop
<1>3. /\ stack' \in Seq(Frame) /\ Len(stack') = Len(stack) /\ DOMAIN stack' = DOMAIN stack
      /\ \A i \in DOMAIN stack : stack'[i].depth = stack[i].depth
  BY <1>1, <1>2, DropKeeps
<1>4. QED
  BY <1>1, <1>3 DEF StackIsPath

(* A step that adds no project and forgets no visited inode keeps the facts *)
(* about the projects. *)
LEMMA SameProjects ==
    ASSUME BasicInv, UNCHANGED projects, visited \subseteq visited'
    PROVE  FoundOnce' /\ FoundIsVisited'
BY DEF BasicInv, FoundOnce, FoundIsVisited

(* Entering a directory adds a project whose inode was not visited. *)
LEMMA EnterKeeps ==
    ASSUME BasicInv, NEW e \in Entry, WalkEnters(e)
    PROVE  BasicInv'
<1> USE ScannerAssumption
<1> DEFINE rest == [stack EXCEPT ![1].todo = @ \ {e}]
           top == [depth |-> Depth, todo |-> EntriesOf(e.to)]
           new == [path |-> e.to, files |-> DeduplicateAndOrder(Files[e.to])]
<1>1. /\ stack \in Seq(Frame) /\ stack # <<>> /\ StackIsPath /\ projects \in Seq(Project)
      /\ e.to \in Dirs /\ Ino[e.to] \notin visited /\ ~(Depth > MaxDepth)
      /\ stack' = <<top>> \o rest /\ visited' = visited \cup {Ino[e.to]}
      /\ projects' = IF Files[e.to] = <<>> THEN projects ELSE Append(projects, new)
  BY DEF BasicInv, ScannerTypeOK, Frame, Project, Walking, WalkEnters, Entry, Seen, TooDeep
<1>2. /\ rest \in Seq(Frame) /\ Len(rest) = Len(stack) /\ DOMAIN rest = DOMAIN stack
      /\ \A i \in DOMAIN stack : rest[i].depth = stack[i].depth
  BY <1>1, DropKeeps
<1>3. Depth = Len(stack) - 1 /\ Depth \in Int
  <2>1. 1 \in DOMAIN stack /\ Len(stack) \in Nat
    BY <1>1
  <2>2. stack[1].depth = Len(stack) - 1 - 1
    BY <1>1, <2>1 DEF StackIsPath
  <2>3. QED
    BY <2>1, <2>2 DEF Depth, Top
<1>4. top \in Frame
  BY <1>1, <1>3, EntriesOfType DEF Frame
<1>5. stack' \in Seq(Frame) /\ StackIsPath'
  <2>1. /\ stack' \in Seq(Frame) /\ Len(stack') = Len(stack) + 1
        /\ stack'[1] = top /\ \A i \in DOMAIN stack' : i # 1 => i - 1 \in DOMAIN stack /\ stack'[i] = rest[i - 1]
    BY <1>1, <1>2, <1>4
  <2>2. top.depth = Len(stack') - 1 - 1 /\ top.depth <= MaxDepth
    BY <1>1, <1>3, <2>1
  <2>3. ASSUME NEW i \in DOMAIN stack', i # 1
        PROVE  stack'[i].depth = Len(stack') - i - 1 /\ stack'[i].depth <= MaxDepth
    <3>1. i - 1 \in DOMAIN stack /\ stack'[i].depth = stack[i - 1].depth
      BY <1>2, <2>1, <2>3
    <3>2. stack[i - 1].depth = Len(stack) - (i - 1) - 1 /\ stack[i - 1].depth <= MaxDepth
      BY <1>1, <3>1 DEF StackIsPath
    <3>3. Len(stack) \in Nat /\ i \in Nat
      BY <1>1, <2>1, <2>3
    <3>4. QED
      BY <2>1, <3>1, <3>2, <3>3
  <2>4. QED
    BY <2>1, <2>2, <2>3 DEF StackIsPath
<1>6. new \in Project /\ new.path = e.to
  BY <1>1 DEF Project
<1>7. /\ projects' \in Seq(Project)
      /\ \A i \in DOMAIN projects' : \/ i \in DOMAIN projects /\ projects'[i] = projects[i]
                                     \/ i = Len(projects) + 1 /\ projects'[i] = new
      /\ DOMAIN projects = 1..Len(projects) /\ Len(projects) \in Nat
  <2>1. CASE Files[e.to] = <<>>
    BY <1>1, <2>1
  <2>2. CASE Files[e.to] # <<>>
    BY <1>1, <1>6, <2>2
  <2>3. QED
    BY <2>1, <2>2
<1>8. \A i \in DOMAIN projects : projects[i].path # e.to
  BY <1>1 DEF BasicInv, FoundIsVisited
<1>9. FoundOnce'
  BY <1>6, <1>7, <1>8 DEF BasicInv, FoundOnce
<1>10. FoundIsVisited'
  BY <1>1, <1>6, <1>7 DEF BasicInv, FoundIsVisited
<1>11. ScannerTypeOK'
  BY <1>1, <1>5, <1>7 DEF BasicInv, ScannerTypeOK, WalkEnters, Frame, Project, ghosts
<1>12. QED
  BY <1>5, <1>9, <1>10, <1>11 DEF BasicInv, WalkEnters, Walking

(* Every other step of the scan keeps the invariant. *)
LEMMA ScanStepInv == BasicInv /\ [Next]_vars => BasicInv'
<1> SUFFICES ASSUME BasicInv, [Next]_vars PROVE BasicInv'
  OBVIOUS
<1> USE ScannerAssumption
<1>1. ASSUME NEW e \in Entry, WalkCancelled(e) PROVE BasicInv'
  <2>1. stack' \in Seq(Frame) /\ StackIsPath'
    BY <1>1 DEF WalkCancelled, StackIsPath
  <2>2. QED
    BY <1>1, <2>1, SameProjects DEF WalkCancelled, BasicInv, ScannerTypeOK, Frame, ghosts
<1>2. ASSUME NEW e \in Entry, WalkTooDeep(e) \/ WalkVanished(e) \/ WalkSkips(e) PROVE BasicInv'
  <2>1. stack' \in Seq(Frame) /\ StackIsPath'
    BY <1>2, DropKeepsStack DEF WalkTooDeep, WalkVanished, WalkSkips
  <2>2. /\ UNCHANGED <<fs, ctxDone, visited, projects, status, unread>>
        /\ lost' \subseteq Entry /\ deep' \subseteq Entry /\ status # "done"
    BY <1>2 DEF WalkTooDeep, WalkVanished, WalkSkips, Walking, BasicInv, ScannerTypeOK, ghosts
  <2>3. QED
    BY <2>1, <2>2, SameProjects DEF BasicInv, ScannerTypeOK, Frame
<1>3. ASSUME NEW e \in Entry, WalkUnreadable(e) PROVE BasicInv'
  <2>1. stack' \in Seq(Frame) /\ StackIsPath'
    BY <1>3, DropKeepsStack DEF WalkUnreadable
  <2>2. e.to \in Dirs /\ visited \subseteq visited'
    BY <1>3 DEF WalkUnreadable, Entry
  <2>3. QED
    BY <1>3, <2>1, <2>2, SameProjects DEF WalkUnreadable, Walking, BasicInv, ScannerTypeOK, Frame
<1>4. ASSUME NEW e \in Entry, WalkEnters(e) PROVE BasicInv'
  BY <1>4, EnterKeeps
<1>5. ASSUME WalkReturns PROVE BasicInv'
  <2>1. stack \in Seq(Frame) /\ stack # <<>> /\ stack' = Tail(stack)
    BY <1>5 DEF WalkReturns, Walking, BasicInv, ScannerTypeOK, Frame
  <2>2. /\ stack' \in Seq(Frame) /\ Len(stack') = Len(stack) - 1
        /\ \A i \in DOMAIN stack' : i + 1 \in DOMAIN stack /\ stack'[i] = stack[i + 1]
    BY <2>1
  <2>3. StackIsPath'
    BY <2>1, <2>2 DEF BasicInv, StackIsPath
  <2>4. status' = "done" => stack' = <<>>
    <3>1. Len(stack) = 1 => stack' = <<>>
      BY <2>1, <2>2
    <3>2. QED
      BY <1>5, <3>1 DEF WalkReturns, Walking
  <2>5. UNCHANGED <<fs, ctxDone, visited, projects, lost, deep, unread>> /\ status' \in {"walking", "done", "failed"}
    BY <1>5 DEF WalkReturns, ghosts, BasicInv, ScannerTypeOK
  <2>6. QED
    BY <2>2, <2>3, <2>4, <2>5, SameProjects DEF BasicInv, ScannerTypeOK, Frame
<1>6. ASSUME CtxEnds \/ UNCHANGED vars PROVE BasicInv'
  <2>1. UNCHANGED <<fs, visited, projects, stack, status, lost, deep, unread>> /\ ctxDone' \in BOOLEAN
    BY <1>6 DEF CtxEnds, vars, ghosts, BasicInv, ScannerTypeOK
  <2>2. QED
    BY <2>1 DEF BasicInv, ScannerTypeOK, FoundOnce, FoundIsVisited, StackIsPath
<1>7. QED
  BY <1>1, <1>2, <1>3, <1>4, <1>5, <1>6 DEF Next, Over

-----------------------------------------------------------------------------
(* A set of natural numbers that is not empty has a least element. *)
LEMMA Least ==
    ASSUME NEW T \in SUBSET Nat, T # {}
    PROVE  \E x \in T : \A y \in T : x <= y
<1> DEFINE R == {ss \in Nat \X Nat : ss[1] < ss[2]}
<1>1. IsWellFoundedOn(R, Nat)
  BY NatLessThanWellFounded DEF OpToRel
<1>2. PICK x \in T : \A y \in T : ~(<<y, x>> \in R)
  BY <1>1, WFMin, Zenon
<1>3. ASSUME NEW y \in T PROVE x <= y
  <2>1. x \in Nat /\ y \in Nat /\ <<y, x>> \in Nat \X Nat
    OBVIOUS
  <2>2. ~(<<y, x>>[1] < <<y, x>>[2])
    BY <1>2, <2>1
  <2>3. QED
    BY <2>1, <2>2
<1>4. QED
  BY <1>3

(* An entry of a directory knows it, and is not the call that Scan makes. *)
LEMMA EntryFacts ==
    ASSUME NEW d \in Dirs, NEW x \in EntriesOf(d)
    PROVE  x.in = d /\ x.to \in Dirs \cup {Nowhere} /\ x # RootEntry
<1>1. CASE \E c \in Dirs : x = [in |-> d, link |-> FALSE, to |-> c]
  BY <1>1, ScannerAssumption DEF RootEntry
<1>2. CASE \E t \in Dirs \cup {Nowhere} : x = [in |-> d, link |-> TRUE, to |-> t]
  BY <1>2, ScannerAssumption DEF RootEntry
<1>3. QED
  BY <1>1, <1>2 DEF EntriesOf

(* Without links an entry leads to a child of its directory. *)
LEMMA NoLinks ==
    ASSUME fs.links = {}, NEW d \in Dirs, NEW x \in EntriesOf(d)
    PROVE  x.to \in Dirs \ {Root} /\ fs.parent[x.to] = d
BY DEF EntriesOf

(* The file system does not change, and with it what is computed from it. *)
LEMMA SameFiles ==
    ASSUME UNCHANGED fs
    PROVE  /\ \A d : EntriesOf(d)' = EntriesOf(d)
           /\ \A d, k : Below(d, k)' <=> Below(d, k)
<1>1. \A d : EntriesOf(d)' = EntriesOf(d)
  BY DEF EntriesOf
<1>2. ASSUME NEW d, NEW k PROVE Below(d, k)' <=> Below(d, k)
  BY <1>1, Zenon DEF Below
<1>3. QED
  BY <1>1, <1>2

(* The stack after an entry of the top frame was dealt with. *)
LEMMA DropPending ==
    ASSUME BasicInv, PendingIsNew, Walking, NEW e \in Top.todo, NEW s,
           s = [stack EXCEPT ![1].todo = @ \ {e}]
    PROVE  /\ Len(s) = Len(stack) /\ DOMAIN s = DOMAIN stack /\ e \in Pending
           /\ \A i \in DOMAIN stack : s[i].depth = stack[i].depth /\ s[i].todo = stack[i].todo \ {e}
<1>1. stack \in Seq(Frame) /\ stack # <<>>
  BY DEF BasicInv, ScannerTypeOK, Frame, Walking
<1>2. 1 \in DOMAIN stack /\ e \in stack[1].todo
  BY <1>1 DEF Top
<1>3. /\ Len(s) = Len(stack) /\ DOMAIN s = DOMAIN stack
      /\ \A i \in DOMAIN stack : s[i].depth = stack[i].depth
  BY <1>1, DropKeeps
<1>4. \A i \in DOMAIN stack : i # 1 => e \notin stack[i].todo /\ s[i] = stack[i]
  BY <1>1, <1>2 DEF PendingIsNew
<1>5. s[1].todo = stack[1].todo \ {e}
  <2>1. stack[1] \in Frame /\ s[1] = [stack[1] EXCEPT !.todo = @ \ {e}]
    BY <1>1, <1>2
  <2>2. QED
    BY <2>1 DEF Frame
<1>6. QED
  BY <1>2, <1>3, <1>4, <1>5 DEF Pending

LEMMA PendingAfterDrop ==
    ASSUME BasicInv, PendingIsNew, Walking, NEW e \in Top.todo, Drop(e)
    PROVE  Pending' = Pending \ {e} /\ e \in Pending
<1>1. /\ DOMAIN stack' = DOMAIN stack /\ e \in Pending
      /\ \A i \in DOMAIN stack : stack'[i].todo = stack[i].todo \ {e}
  BY DropPending DEF Drop
<1>2. QED
  BY <1>1 DEF Pending

(* The stack after a directory was entered. *)
LEMMA EnterStack ==
    ASSUME BasicInv, PendingIsNew, NEW e, WalkEnters(e)
    PROVE  /\ Len(stack') = Len(stack) + 1 /\ Len(stack) \in Nat
           /\ DOMAIN stack' = 1..(Len(stack) + 1) /\ DOMAIN stack = 1..Len(stack)
           /\ stack'[1].depth = Depth /\ stack'[1].todo = EntriesOf(e.to)
           /\ \A i \in DOMAIN stack : /\ stack'[i + 1].depth = stack[i].depth
                                      /\ stack'[i + 1].todo = stack[i].todo \ {e}
           /\ Pending' = (Pending \ {e}) \cup EntriesOf(e.to)
           /\ e \in Pending
<1> DEFINE s == [stack EXCEPT ![1].todo = @ \ {e}]
           top == [depth |-> Depth, todo |-> EntriesOf(e.to)]
<1>1. /\ stack \in Seq(Frame) /\ stack # <<>> /\ Walking /\ e \in Top.todo
      /\ stack' = <<top>> \o s
  BY DEF BasicInv, ScannerTypeOK, Frame, Walking, WalkEnters
<1>2. /\ Len(s) = Len(stack) /\ DOMAIN s = DOMAIN stack /\ e \in Pending
      /\ \A i \in DOMAIN stack : s[i].depth = stack[i].depth /\ s[i].todo = stack[i].todo \ {e}
  BY <1>1, DropPending
<1>3. s \in Seq(Frame)
  BY <1>1, DropKeeps
<1> HIDE DEF s
<1>4. /\ Len(stack') = Len(stack) + 1 /\ stack'[1] = top /\ Len(stack) \in Nat
      /\ DOMAIN stack' = 1..(Len(stack) + 1) /\ DOMAIN stack = 1..Len(stack)
      /\ \A i \in 1..Len(stack) : stack'[i + 1] = s[i]
  <2>1. Len(stack) \in Nat /\ DOMAIN stack = 1..Len(stack)
    BY <1>1
  <2>2. <<top>> \in Seq({top}) /\ Len(<<top>>) = 1
    OBVIOUS
  <2>3. s \in Seq(Frame \cup {top}) /\ <<top>> \in Seq(Frame \cup {top})
    BY <1>3
  <2>4. QED
    BY <1>1, <1>2, <2>1, <2>2, <2>3
<1>5. \A i \in DOMAIN stack : /\ stack'[i + 1].depth = stack[i].depth
                              /\ stack'[i + 1].todo = stack[i].todo \ {e}
  BY <1>2, <1>4
<1>6. Pending' = (Pending \ {e}) \cup EntriesOf(e.to)
  <2>1. ASSUME NEW x \in Pending' PROVE x \in (Pending \ {e}) \cup EntriesOf(e.to)
    <3>1. PICK i \in DOMAIN stack' : x \in stack'[i].todo
      BY <2>1 DEF Pending
    <3>2. CASE i = 1
      BY <1>4, <3>1, <3>2
    <3>3. CASE i # 1
      <4>1. i - 1 \in DOMAIN stack /\ i = (i - 1) + 1
        BY <1>4, <3>1, <3>3
      <4>2. x \in stack[i - 1].todo \ {e}
        BY <1>5, <3>1, <4>1
      <4>3. QED
        BY <4>1, <4>2 DEF Pending
    <3>4. QED
      BY <3>2, <3>3
  <2>2. ASSUME NEW x \in Pending \ {e} PROVE x \in Pending'
    <3>1. PICK i \in DOMAIN stack : x \in stack[i].todo
      BY <2>2 DEF Pending
    <3>2. i + 1 \in DOMAIN stack' /\ x \in stack'[i + 1].todo
      BY <1>4, <1>5, <2>2, <3>1
    <3>3. QED
      BY <3>2 DEF Pending
  <2>3. EntriesOf(e.to) \subseteq Pending'
    <3>1. 1 \in DOMAIN stack' /\ stack'[1].todo = EntriesOf(e.to)
      BY <1>4
    <3>2. QED
      BY <3>1 DEF Pending
  <2>4. QED
    BY <2>1, <2>2, <2>3
<1>7. QED
  BY <1>2, <1>4, <1>5, <1>6

(* The stack after a call of walk has returned. *)
LEMMA ReturnStack ==
    ASSUME BasicInv, WalkReturns
    PROVE  /\ Len(stack') = Len(stack) - 1 /\ Len(stack) \in Nat
           /\ DOMAIN stack = 1..Len(stack) /\ DOMAIN stack' = 1..(Len(stack) - 1)
           /\ \A i \in DOMAIN stack' : i + 1 \in DOMAIN stack /\ stack'[i] = stack[i + 1]
           /\ Pending' = Pending
<1>1. stack \in Seq(Frame) /\ stack # <<>> /\ stack' = Tail(stack) /\ stack[1].todo = {}
  BY DEF BasicInv, ScannerTypeOK, Frame, Walking, WalkReturns, Top
<1>2. /\ Len(stack') = Len(stack) - 1 /\ Len(stack) \in Nat
      /\ DOMAIN stack = 1..Len(stack) /\ DOMAIN stack' = 1..(Len(stack) - 1)
      /\ \A i \in DOMAIN stack' : i + 1 \in DOMAIN stack /\ stack'[i] = stack[i + 1]
  BY <1>1
<1>3. \A i \in DOMAIN stack : i # 1 => i - 1 \in DOMAIN stack' /\ stack'[i - 1] = stack[i]
  BY <1>2
<1>4. Pending' \subseteq Pending
  BY <1>2 DEF Pending
<1>5. ASSUME NEW x \in Pending PROVE x \in Pending'
  <2>1. PICK i \in DOMAIN stack : x \in stack[i].todo
    BY <1>5 DEF Pending
  <2>2. i - 1 \in DOMAIN stack' /\ x \in stack'[i - 1].todo
    BY <1>1, <1>3, <2>1
  <2>3. QED
    BY <2>2 DEF Pending
<1>6. QED
  BY <1>2, <1>4, <1>5

(* Where inode numbers differ, marking one marks one directory. *)
LEMMA VisitedGrows ==
    ASSUME InodesDiffer, NEW t \in Dirs, visited' = visited \cup {Ino[t]}
    PROVE  Visited' = Visited \cup {t}
BY DEF InodesDiffer, Visited

(* One directory further: a chain of entries is extended by one. *)
LEMMA BelowRoot == Below(Root, 0)
<1> DEFINE path == [i \in 0..0 |-> Root]
<1>1. path \in [0..0 -> Dirs] /\ path[0] = Root /\ 1..0 = {}
  BY ScannerAssumption
<1>2. QED
  BY <1>1 DEF Below

LEMMA ExtendPath ==
    ASSUME NEW d \in Dirs, NEW k \in Nat, Below(d, k), NEW x \in EntriesOf(d), x.to \in Dirs
    PROVE  Below(x.to, k + 1)
<1>1. PICK p \in [0..k -> Dirs] :
        /\ p[0] = Root /\ p[k] = d
        /\ \A i \in 1..k : \E y \in EntriesOf(p[i - 1]) : y.to = p[i]
  BY DEF Below
<1> DEFINE q == [i \in 0..(k + 1) |-> IF i = k + 1 THEN x.to ELSE p[i]]
<1>2. /\ q \in [0..(k + 1) -> Dirs] /\ q[0] = Root /\ q[k + 1] = x.to /\ q[k] = d
      /\ \A i \in 0..k : q[i] = p[i]
  BY <1>1
<1> HIDE DEF q
<1>3. ASSUME NEW i \in 1..(k + 1) PROVE \E y \in EntriesOf(q[i - 1]) : y.to = q[i]
  <2>1. CASE i = k + 1
    BY <1>2, <2>1
  <2>2. CASE i # k + 1
    <3>1. i \in 1..k /\ i \in 0..k /\ i - 1 \in 0..k
      BY <2>2
    <3>2. QED
      BY <1>1, <1>2, <3>1
  <2>3. QED
    BY <2>1, <2>2
<1>4. QED
  BY <1>2, <1>3 DEF Below

(* The other way: a chain of a positive length ends with an entry. *)
LEMMA ChopPath ==
    ASSUME NEW d \in Dirs, NEW k \in Nat, Below(d, k)
    PROVE  \/ k = 0 /\ d = Root
           \/ k > 0 /\ \E c \in Dirs : Below(c, k - 1) /\ \E x \in EntriesOf(c) : x.to = d
<1>1. PICK p \in [0..k -> Dirs] :
        /\ p[0] = Root /\ p[k] = d
        /\ \A i \in 1..k : \E y \in EntriesOf(p[i - 1]) : y.to = p[i]
  BY DEF Below
<1>2. CASE k = 0
  BY <1>1, <1>2
<1>3. CASE k # 0
  <2> DEFINE q == [i \in 0..(k - 1) |-> p[i]]
  <2>1. /\ q \in [0..(k - 1) -> Dirs] /\ q[0] = Root /\ q[k - 1] = p[k - 1] /\ p[k - 1] \in Dirs
        /\ \A i \in 0..(k - 1) : q[i] = p[i]
    BY <1>1, <1>3
  <2> HIDE DEF q
  <2>2. ASSUME NEW i \in 1..(k - 1) PROVE \E y \in EntriesOf(q[i - 1]) : y.to = q[i]
    <3>1. i \in 1..k /\ i \in 0..(k - 1) /\ i - 1 \in 0..(k - 1)
      OBVIOUS
    <3>2. QED
      BY <1>1, <2>1, <3>1
  <2>3. Below(p[k - 1], k - 1)
    BY <2>1, <2>2 DEF Below
  <2>4. k \in 1..k /\ k > 0
    BY <1>3
  <2>5. QED
    BY <1>1, <2>1, <2>3, <2>4
<1>4. QED
  BY <1>2, <1>3

(* Without links there is only one chain to a directory: its length follows *)
(* from the length of the chain to its parent. *)
LEMMA OneLength ==
    ASSUME fs.links = {}, NEW d \in Dirs, NEW x \in EntriesOf(d), NEW n \in Nat,
           \A k \in 0..MaxDepth : Below(d, k) => k = n
    PROVE  \A k \in 0..MaxDepth : Below(x.to, k) => k = n + 1
<1> SUFFICES ASSUME NEW k \in 0..MaxDepth, Below(x.to, k) PROVE k = n + 1
  OBVIOUS
<1>1. x.to \in Dirs \ {Root} /\ fs.parent[x.to] = d
  BY NoLinks
<1>2. k \in Nat /\ MaxDepth \in Nat
  BY ScannerAssumption
<1>3. PICK c \in Dirs : k > 0 /\ Below(c, k - 1) /\ \E y \in EntriesOf(c) : y.to = x.to
  BY <1>1, <1>2, ChopPath
<1>4. c = d
  BY <1>1, <1>3, NoLinks
<1>5. k - 1 \in 0..MaxDepth
  BY <1>2, <1>3
<1>6. k - 1 = n
  BY <1>3, <1>4, <1>5
<1>7. QED
  BY <1>2, <1>6

LEMMA RootLength ==
    ASSUME fs.links = {}, NEW k \in Nat, Below(Root, k)
    PROVE  k = 0
BY ChopPath, NoLinks, ScannerAssumption

(* Entries that may be cut off make fewer sets closed, not more. *)
LEMMA ClosedCut ==
    ASSUME NEW S, NEW c1, NEW c2, c1 \subseteq c2, Closed(S, c1)
    PROVE  Closed(S, c2)
BY DEF Closed

(* A directory that is visited through an entry e is in every closed set,  *)
(* if all that was visited before is: "cut" is what could not be followed  *)
(* before, "new" what cannot be followed now. *)
LEMMA VisitIsReachable ==
    ASSUME PendingIsNew, VisitedIsReachable, status # "failed", UNCHANGED fs,
           NEW e \in Pending, e.to \in Dirs, e.to \notin Visited,
           unread \subseteq unread', unread' \subseteq unread \cup {e.to},
           NEW new, (Pending \cup lost \cup deep) \ {e} \subseteq new,
           new \subseteq ((Pending \cup lost \cup deep) \ {e}) \cup EntriesOf(e.to),
           NEW S \in SUBSET Dirs, Closed(S, new)'
    PROVE  Visited \cup {e.to} \subseteq S
<1> DEFINE cut == Pending \cup lost \cup deep
           T == S \cap Visited
<1>1. /\ Root \in S
      /\ \A d \in S \ unread' : \A x \in EntriesOf(d) \ new : x.to \in S \cup {Nowhere}
  BY SameFiles DEF Closed
<1>2. CASE e = RootEntry
  <2>1. Visited = {}
    BY <1>2 DEF PendingIsNew
  <2>2. QED
    BY <1>1, <1>2, <2>1 DEF RootEntry
<1>3. CASE e # RootEntry
  <2>1. e.in \in Visited \ unread /\ e \in EntriesOf(e.in) /\ Visited \subseteq Dirs
    BY <1>3 DEF PendingIsNew, Visited
  <2>2. Root \in Visited
    BY <2>1 DEF PendingIsNew, VisitedIsReachable
  <2>3. ASSUME NEW d \in T \ unread, NEW x \in EntriesOf(d), x \notin cut
        PROVE  x.to \in T \cup {Nowhere}
    <3>1. d \in Dirs /\ d \in Visited /\ d # e.to /\ d \in S \ unread'
      BY <2>1, <2>3
    <3>2. x \notin EntriesOf(e.to)
      BY <2>3, <3>1, EntryFacts
    <3>3. x.to \in S \cup {Nowhere}
      BY <1>1, <2>3, <3>1, <3>2
    <3>4. x.to \in Visited \cup {Nowhere}
      BY <2>3, <3>1 DEF VisitedIsReachable
    <3>5. QED
      BY <3>3, <3>4
  <2>4. Closed(T, cut)
    BY <1>1, <2>2, <2>3 DEF Closed
  <2>5. Visited \subseteq S
    <3>1. T \in SUBSET Dirs
      OBVIOUS
    <3>2. Visited \subseteq T
      BY <2>4, <3>1 DEF VisitedIsReachable
    <3>3. QED
      BY <3>2
  <2>6. e \notin new
    BY <2>1, EntryFacts
  <2>7. e.in \in S \ unread'
    BY <2>1, <2>5
  <2>8. e.to \in S
    BY <1>1, <2>1, <2>6, <2>7, ScannerAssumption
  <2>9. QED
    BY <2>5, <2>8
<1>4. QED
  BY <1>2, <1>3

-----------------------------------------------------------------------------
(* The steps on one entry that leave its directory out keep the facts      *)
(* about what is left to do, ... *)
LEMMA DropKeepsPending ==
    ASSUME BasicInv, PendingIsNew, Walking, NEW e \in Top.todo, Drop(e), UNCHANGED fs,
           lost' \cup deep' \subseteq lost \cup deep \cup {e},
           Visited \ unread \subseteq Visited' \ unread',
           RootEntry \in Pending' \cup lost' => Visited' = {}
    PROVE  PendingIsNew'
<1>1. /\ DOMAIN stack' = DOMAIN stack /\ Pending' = Pending \ {e} /\ e \in Pending
      /\ \A i \in DOMAIN stack : stack'[i].todo = stack[i].todo \ {e}
  BY DropPending, PendingAfterDrop DEF Drop
<1>2. \A i, j \in DOMAIN stack' : i # j => stack'[i].todo \cap stack'[j].todo = {}
  <2> SUFFICES ASSUME NEW i \in DOMAIN stack', NEW j \in DOMAIN stack', i # j
               PROVE  stack'[i].todo \cap stack'[j].todo = {}
    OBVIOUS
  <2>1. stack[i].todo \cap stack[j].todo = {}
    BY <1>1 DEF PendingIsNew
  <2>2. QED
    BY <1>1, <2>1
<1>3. Pending' \cap (lost' \cup deep') = {}
  BY <1>1 DEF PendingIsNew
<1>4. ASSUME NEW x \in (Pending' \cup lost' \cup deep') \ {RootEntry}
      PROVE  x.in \in Visited' \ unread' /\ x \in EntriesOf(x.in)'
  <2>1. x \in (Pending \cup lost \cup deep) \ {RootEntry}
    BY <1>1, <1>4
  <2>2. x.in \in Visited \ unread /\ x \in EntriesOf(x.in)
    BY <2>1 DEF PendingIsNew
  <2>3. QED
    BY <2>2, SameFiles
<1>5. QED
  BY <1>2, <1>3, <1>4 DEF PendingIsNew

(* ... and those about depths. *)
LEMMA SameLimits ==
    ASSUME UNCHANGED fs
    PROVE  \A d : WithinLimit(d)' <=> WithinLimit(d)
BY SameFiles DEF WithinLimit

LEMMA DropKeepsDepth ==
    ASSUME BasicInv, PendingIsNew, DepthIsTrue, Walking, NEW e \in Top.todo, Drop(e), UNCHANGED fs,
           \A d \in Visited' : WithinLimit(d),
           fs.links = {} => \A x \in deep' : \A k \in 0..(MaxDepth - 1) : ~Below(x.in, k)
    PROVE  DepthIsTrue'
<1>1. /\ DOMAIN stack' = DOMAIN stack /\ Len(stack') = Len(stack)
      /\ \A i \in DOMAIN stack : stack'[i].todo = stack[i].todo \ {e} /\ stack'[i].depth = stack[i].depth
  BY DropPending DEF Drop
<1>2. \A d \in Visited' : WithinLimit(d)'
  BY SameLimits
<1>3. ASSUME NEW i \in DOMAIN stack', NEW x \in stack'[i].todo
      PROVE  IF x = RootEntry THEN i = Len(stack')
             ELSE /\ stack'[i].depth >= 0 /\ Below(x.in, stack[i].depth)'
                  /\ fs'.links = {} => \A k \in 0..MaxDepth : Below(x.in, k)' => k = stack'[i].depth
  <2>1. i \in DOMAIN stack /\ x \in stack[i].todo
    BY <1>1, <1>3
  <2>2. IF x = RootEntry THEN i = Len(stack)
        ELSE /\ stack[i].depth >= 0 /\ Below(x.in, stack[i].depth)
             /\ fs.links = {} => \A k \in 0..MaxDepth : Below(x.in, k) => k = stack[i].depth
    BY <2>1 DEF DepthIsTrue
  <2>3. stack'[i].depth = stack[i].depth /\ Len(stack') = Len(stack)
    BY <1>1, <2>1
  <2>4. QED
    BY <2>2, <2>3, SameFiles
<1>4. fs'.links = {} => \A x \in deep' : \A k \in 0..(MaxDepth - 1) : ~Below(x.in, k)'
  BY SameFiles
<1>5. QED
  BY <1>2, <1>3, <1>4 DEF DepthIsTrue

(* The depth of the top frame, and the directory below it that e leads to. *)
LEMMA TopDepth ==
    ASSUME BasicInv, PendingIsNew, DepthIsTrue, Walking, NEW e \in Top.todo
    PROVE  /\ Depth \in Nat /\ Depth = Len(stack) - 1
           /\ e = RootEntry => Depth = 0
           /\ e # RootEntry => /\ e.in \in Dirs /\ e \in EntriesOf(e.in)
                               /\ Depth - 1 \in Nat /\ Below(e.in, Depth - 1)
                               /\ fs.links = {} => \A k \in 0..MaxDepth : Below(e.in, k) => k = Depth - 1
<1>1. stack \in Seq(Frame) /\ stack # <<>>
  BY DEF BasicInv, ScannerTypeOK, Frame, Walking
<1>2. 1 \in DOMAIN stack /\ e \in stack[1].todo /\ Len(stack) \in Nat /\ Len(stack) > 0
  BY <1>1 DEF Top
<1>3. stack[1].depth = Len(stack) - 1 - 1
  BY <1>2 DEF BasicInv, StackIsPath
<1>4. Depth \in Nat /\ Depth = Len(stack) - 1 /\ stack[1].depth = Depth - 1
  BY <1>2, <1>3 DEF Depth, Top
<1>5. e = RootEntry => Depth = 0
  BY <1>2, <1>4 DEF DepthIsTrue
<1>6. ASSUME e # RootEntry
      PROVE  /\ e.in \in Dirs /\ e \in EntriesOf(e.in)
             /\ Depth - 1 \in Nat /\ Below(e.in, Depth - 1)
             /\ fs.links = {} => \A k \in 0..MaxDepth : Below(e.in, k) => k = Depth - 1
  <2>1. e \in Pending
    BY <1>2 DEF Pending
  <2>2. e.in \in Dirs /\ e \in EntriesOf(e.in)
    BY <1>6, <2>1 DEF PendingIsNew, Visited
  <2>3. /\ stack[1].depth >= 0 /\ Below(e.in, stack[1].depth)
        /\ fs.links = {} => \A k \in 0..MaxDepth : Below(e.in, k) => k = stack[1].depth
    BY <1>2, <1>6 DEF DepthIsTrue
  <2>4. QED
    BY <1>4, <2>2, <2>3
<1>7. QED
  BY <1>4, <1>5, <1>6

(* The directory that is entered, or would be if it could be read. *)
LEMMA TargetDepth ==
    ASSUME BasicInv, PendingIsNew, DepthIsTrue, Walking, NEW e \in Top.todo, ~TooDeep, e.to \in Dirs
    PROVE  /\ Below(e.to, Depth) /\ Depth \in 0..MaxDepth /\ WithinLimit(e.to)
           /\ fs.links = {} => \A k \in 0..MaxDepth : Below(e.to, k) => k = Depth
<1>1. Depth \in Nat /\ MaxDepth \in Nat
  BY TopDepth, ScannerAssumption
<1>2. Depth \in 0..MaxDepth
  BY <1>1 DEF TooDeep
<1>3. CASE e = RootEntry
  <2>1. e.to = Root /\ Depth = 0
    BY <1>3, TopDepth DEF RootEntry
  <2>2. fs.links = {} => \A k \in 0..MaxDepth : Below(e.to, k) => k = Depth
    BY <1>1, <2>1, RootLength
  <2>3. QED
    BY <1>2, <2>1, <2>2, BelowRoot DEF WithinLimit
<1>4. CASE e # RootEntry
  <2> DEFINE n == Depth - 1
  <2>1. /\ e.in \in Dirs /\ e \in EntriesOf(e.in) /\ n \in Nat /\ Below(e.in, n)
        /\ fs.links = {} => \A k \in 0..MaxDepth : Below(e.in, k) => k = n
    BY <1>4, TopDepth
  <2>2. n + 1 = Depth
    BY <1>1
  <2> HIDE DEF n
  <2>3. Below(e.to, Depth)
    BY <2>1, <2>2, ExtendPath
  <2>4. fs.links = {} => \A k \in 0..MaxDepth : Below(e.to, k) => k = Depth
    BY <2>1, <2>2, OneLength
  <2>5. QED
    BY <1>2, <2>3, <2>4 DEF WithinLimit
<1>5. QED
  BY <1>3, <1>4

-----------------------------------------------------------------------------
(* The part of the invariant that does need them. *)
DistinctInv == PendingIsNew /\ VisitedIsReachable /\ DepthIsTrue

LEMMA DistinctInit == BasicInv /\ Init => DistinctInv
<1> SUFFICES ASSUME BasicInv, Init PROVE DistinctInv
  OBVIOUS
<1>1. /\ stack = <<[depth |-> -1, todo |-> {RootEntry}]>> /\ DOMAIN stack = {1} /\ Len(stack) = 1
      /\ stack[1].todo = {RootEntry} /\ projects = <<>> /\ visited = {}
      /\ lost = {} /\ deep = {} /\ unread = {} /\ DOMAIN projects = {}
  BY DEF Init
<1>2. Visited = {} /\ Pending = {RootEntry} /\ Found = {}
  BY <1>1 DEF Visited, Pending, Found
<1>3. PendingIsNew
  BY <1>1, <1>2 DEF PendingIsNew
<1>4. VisitedIsReachable
  BY <1>1, <1>2 DEF VisitedIsReachable, Composed
<1>5. DepthIsTrue
  BY <1>1, <1>2 DEF DepthIsTrue
<1>6. QED
  BY <1>3, <1>4, <1>5 DEF DistinctInv

(* The context has ended: the entries that were left are never looked at. *)
LEMMA CancelKeeps ==
    ASSUME BasicInv, DistinctInv, NEW e, WalkCancelled(e)
    PROVE  DistinctInv'
<1>1. /\ UNCHANGED <<fs, visited, projects, lost, deep, unread>>
      /\ stack' = <<>> /\ DOMAIN stack' = {} /\ status' = "failed"
  BY DEF WalkCancelled, ghosts
<1>2. Visited' = Visited /\ Found' = Found /\ Pending' = {} /\ Composed(Visited)' = Composed(Visited)
  BY <1>1 DEF Visited, Found, Pending, Composed
<1>3. /\ \A d : EntriesOf(d)' = EntriesOf(d) /\ (WithinLimit(d)' <=> WithinLimit(d))
      /\ \A d, k : Below(d, k)' <=> Below(d, k)
  BY <1>1, SameFiles, SameLimits
<1>4. PendingIsNew'
  BY <1>1, <1>2, <1>3 DEF DistinctInv, PendingIsNew
<1>5. ASSUME NEW S \in SUBSET Dirs, Closed(S, Pending \cup lost \cup deep)' PROVE Visited' \subseteq S
  <2>1. Closed(S, lost \cup deep)
    BY <1>1, <1>2, <1>3, <1>5 DEF Closed
  <2>2. Closed(S, Pending \cup lost \cup deep)
    BY <2>1, ClosedCut
  <2>3. QED
    BY <1>2, <2>2 DEF DistinctInv, VisitedIsReachable
<1>6. VisitedIsReachable'
  BY <1>1, <1>2, <1>5 DEF DistinctInv, VisitedIsReachable
<1>7. DepthIsTrue'
  BY <1>1, <1>2, <1>3 DEF DistinctInv, DepthIsTrue
<1>8. QED
  BY <1>4, <1>6, <1>7 DEF DistinctInv

(* An entry is too deep, has vanished, leads nowhere or to a directory     *)
(* where the scan has been. *)
LEMMA LeaveOutKeeps ==
    ASSUME BasicInv, DistinctInv, NEW e, WalkTooDeep(e) \/ WalkVanished(e) \/ WalkSkips(e)
    PROVE  DistinctInv'
<1> USE DEF DistinctInv
<1> DEFINE cut == Pending \cup lost \cup deep
<1>1. /\ UNCHANGED <<fs, visited, projects, status, unread>> /\ status # "failed"
      /\ Walking /\ e \in Top.todo /\ Drop(e)
      /\ lost' \cup deep' \subseteq lost \cup deep \cup {e} /\ lost' \subseteq lost \cup {e}
      /\ lost \subseteq lost' /\ deep \subseteq deep'
  BY DEF WalkTooDeep, WalkVanished, WalkSkips, ghosts, Walking
<1>2. Pending' = Pending \ {e} /\ e \in Pending
  BY <1>1, PendingAfterDrop
<1>3. Visited' = Visited /\ Found' = Found /\ Composed(Visited)' = Composed(Visited)
  BY <1>1 DEF Visited, Found, Composed
<1>4. /\ \A d : EntriesOf(d)' = EntriesOf(d) /\ (WithinLimit(d)' <=> WithinLimit(d))
      /\ \A d, k : Below(d, k)' <=> Below(d, k)
  BY <1>1, SameFiles, SameLimits
<1>5. PendingIsNew'
  <2>1. RootEntry \in Pending' \cup lost' => Visited' = {}
    BY <1>1, <1>2, <1>3 DEF PendingIsNew
  <2>2. QED
    BY <1>1, <1>3, <2>1, DropKeepsPending
<1>6. e = RootEntry => e \in lost' \/ Root \in Visited
  <2>1. CASE WalkTooDeep(e)
    <3>1. ~(e = RootEntry)
      BY <1>1, <2>1, TopDepth, ScannerAssumption DEF WalkTooDeep, TooDeep
    <3>2. QED
      BY <3>1
  <2>2. CASE WalkVanished(e)
    BY <2>2 DEF WalkVanished
  <2>3. CASE WalkSkips(e)
    BY <2>3, ScannerAssumption DEF WalkSkips, Seen, RootEntry, Visited
  <2>4. QED
    BY <2>1, <2>2, <2>3
<1>7. e \in lost' \cup deep' \/ e.to \in Visited \cup {Nowhere}
  BY DEF WalkTooDeep, WalkVanished, WalkSkips, Seen, Visited
<1>8. cut' \subseteq cut
  BY <1>1, <1>2
<1>9. VisitedIsReachable'
  <2>1. Root \in Visited' \/ RootEntry \in Pending' \cup lost'
    BY <1>1, <1>2, <1>3, <1>6 DEF VisitedIsReachable
  <2>2. ASSUME NEW d \in Visited \ unread, NEW x \in EntriesOf(d)
        PROVE  x \in Pending' \cup lost' \cup deep' \/ x.to \in Visited \cup {Nowhere}
    <3>1. x \in Pending \cup lost \cup deep \/ x.to \in Visited \cup {Nowhere}
      BY <1>1, <2>2 DEF VisitedIsReachable
    <3>2. QED
      BY <1>1, <1>2, <1>7, <3>1
  <2>3. ASSUME NEW S \in SUBSET Dirs, Closed(S, Pending \cup lost \cup deep)' PROVE Visited' \subseteq S
    <3>1. Closed(S, cut')
      BY <1>1, <1>4, <2>3 DEF Closed
    <3>2. Closed(S, cut)
      BY <1>8, <3>1 DEF Closed
    <3>3. QED
      BY <1>3, <3>2 DEF VisitedIsReachable
  <2>4. unread' \subseteq Visited' /\ Found' = Composed(Visited)'
    BY <1>1, <1>3 DEF VisitedIsReachable
  <2>5. QED
    BY <1>1, <1>3, <1>4, <2>1, <2>2, <2>3, <2>4 DEF VisitedIsReachable
<1>10. DepthIsTrue'
  <2>1. \A d \in Visited' : WithinLimit(d)
    BY <1>3 DEF DepthIsTrue
  <2>2. ASSUME fs.links = {}, NEW x \in deep', NEW k \in 0..(MaxDepth - 1) PROVE ~Below(x.in, k)
    <3>1. CASE x \in deep
      BY <2>2, <3>1 DEF DepthIsTrue
    <3>2. CASE x \notin deep
      <4>1. x = e /\ TooDeep
        BY <2>2, <3>2 DEF WalkTooDeep, WalkVanished, WalkSkips, ghosts
      <4>2. MaxDepth \in Nat /\ Depth \in Nat /\ Depth > MaxDepth
        BY <1>1, <4>1, TopDepth, ScannerAssumption DEF TooDeep
      <4>3. k \in 0..MaxDepth /\ k # Depth - 1
        BY <4>2
      <4>4. e # RootEntry
        BY <1>1, <4>2, TopDepth
      <4>5. QED
        BY <1>1, <2>2, <4>1, <4>3, <4>4, TopDepth
    <3>3. QED
      BY <3>1, <3>2
  <2>3. QED
    BY <1>1, <2>1, <2>2, DropKeepsDepth
<1>11. QED
  BY <1>5, <1>9, <1>10

(* What an entry that leads to a new directory was before. *)
LEMMA NewTarget ==
    ASSUME BasicInv, InodesDiffer, DistinctInv, Walking, NEW e \in Top.todo, e \in Entry,
           e.to # Nowhere, ~Seen(e), visited' = visited \cup {Ino[e.to]}
    PROVE  /\ e.to \in Dirs /\ e.to \notin Visited /\ e.to \notin unread
           /\ Visited' = Visited \cup {e.to}
           /\ RootEntry \notin (Pending \ {e}) \cup lost
           /\ e = RootEntry => e.to = Root
<1>1. e.to \in Dirs /\ e.to \notin Visited
  BY DEF Entry, Seen, Visited
<1>2. Visited' = Visited \cup {e.to}
  BY <1>1, VisitedGrows
<1>3. e \in Pending
  <2>1. stack \in Seq(Frame) /\ stack # <<>>
    BY DEF BasicInv, ScannerTypeOK, Frame, Walking
  <2>2. 1 \in DOMAIN stack /\ e \in stack[1].todo
    BY <2>1 DEF Top
  <2>3. QED
    BY <2>2 DEF Pending
<1>4. RootEntry \notin (Pending \ {e}) \cup lost
  <2>1. CASE e = RootEntry
    BY <1>3, <2>1 DEF DistinctInv, PendingIsNew
  <2>2. CASE e # RootEntry
    <3>1. e.in \in Visited
      BY <1>3, <2>2 DEF DistinctInv, PendingIsNew
    <3>2. QED
      BY <3>1 DEF DistinctInv, PendingIsNew
  <2>3. QED
    BY <2>1, <2>2
<1>5. QED
  BY <1>1, <1>2, <1>4 DEF DistinctInv, VisitedIsReachable, RootEntry

(* The directory cannot be read. *)
LEMMA UnreadableKeeps ==
    ASSUME BasicInv, InodesDiffer, DistinctInv, NEW e \in Entry, WalkUnreadable(e)
    PROVE  DistinctInv'
<1> USE DEF DistinctInv
<1>1. /\ UNCHANGED <<fs, projects, status, lost, deep>> /\ unread' = unread \cup {e.to}
      /\ status # "failed" /\ Walking /\ e \in Top.todo /\ Drop(e) /\ ~TooDeep
      /\ e.to # Nowhere /\ ~Seen(e) /\ visited' = visited \cup {Ino[e.to]}
  BY DEF WalkUnreadable, Walking
<1>2. Pending' = Pending \ {e} /\ e \in Pending
  BY <1>1, PendingAfterDrop
<1>3. /\ e.to \in Dirs /\ e.to \notin Visited /\ e.to \notin unread
      /\ Visited' = Visited \cup {e.to} /\ RootEntry \notin (Pending \ {e}) \cup lost
      /\ e = RootEntry => e.to = Root
  BY <1>1, NewTarget
<1>4. \A d : EntriesOf(d)' = EntriesOf(d)
  BY <1>1, SameFiles
<1>5. PendingIsNew'
  BY <1>1, <1>2, <1>3, DropKeepsPending
<1>6. VisitedIsReachable'
  <2>1. Root \in Visited' \/ RootEntry \in Pending' \cup lost'
    BY <1>1, <1>2, <1>3 DEF VisitedIsReachable
  <2>2. ASSUME NEW d \in Visited' \ unread', NEW x \in EntriesOf(d)
        PROVE  x \in Pending' \cup lost' \cup deep' \/ x.to \in Visited' \cup {Nowhere}
    <3>1. d \in Visited \ unread
      BY <1>1, <1>3, <2>2
    <3>2. x \in Pending \cup lost \cup deep \/ x.to \in Visited \cup {Nowhere}
      BY <1>1, <2>2, <3>1 DEF VisitedIsReachable
    <3>3. QED
      BY <1>1, <1>2, <1>3, <3>2
  <2>3. ASSUME NEW S \in SUBSET Dirs, Closed(S, Pending \cup lost \cup deep)' PROVE Visited' \subseteq S
    <3>1. /\ (Pending \cup lost \cup deep) \ {e} \subseteq (Pending \cup lost \cup deep)'
          /\ (Pending \cup lost \cup deep)' \subseteq ((Pending \cup lost \cup deep) \ {e}) \cup EntriesOf(e.to)
      BY <1>1, <1>2, <1>5 DEF PendingIsNew
    <3>2. unread \subseteq unread' /\ unread' \subseteq unread \cup {e.to}
      BY <1>1
    <3>3. Visited \cup {e.to} \subseteq S
      BY <1>1, <1>2, <1>3, <2>3, <3>1, <3>2, VisitIsReachable
    <3>4. QED
      BY <1>3, <3>3
  <2>4. unread' \subseteq Visited' /\ Found' = Composed(Visited)'
    <3>1. Found' = Found /\ Found = Composed(Visited)
      BY <1>1 DEF Found, VisitedIsReachable
    <3>2. Visited' \ unread' = Visited \ unread
      BY <1>1, <1>3
    <3>3. QED
      BY <1>1, <1>3, <3>1, <3>2 DEF Composed, VisitedIsReachable
  <2>5. QED
    BY <1>4, <2>1, <2>2, <2>3, <2>4 DEF VisitedIsReachable
<1>7. DepthIsTrue'
  <2>1. WithinLimit(e.to)
    BY <1>1, <1>3, TargetDepth
  <2>2. \A d \in Visited' : WithinLimit(d)
    BY <1>3, <2>1 DEF DepthIsTrue
  <2>3. fs.links = {} => \A x \in deep' : \A k \in 0..(MaxDepth - 1) : ~Below(x.in, k)
    BY <1>1 DEF DepthIsTrue
  <2>4. QED
    BY <1>1, <2>2, <2>3, DropKeepsDepth
<1>8. QED
  BY <1>5, <1>6, <1>7

(* The directory is entered: its entries are left to do. *)
LEMMA EnterKeepsPending ==
    ASSUME BasicInv, InodesDiffer, DistinctInv, NEW e \in Entry, WalkEnters(e)
    PROVE  PendingIsNew'
<1> USE DEF DistinctInv
<1> DEFINE n == Len(stack)
<1>1. /\ UNCHANGED <<fs, lost, deep, unread>> /\ Walking /\ e \in Top.todo
      /\ e.to # Nowhere /\ ~Seen(e) /\ visited' = visited \cup {Ino[e.to]}
  BY DEF WalkEnters, ghosts
<1>2. /\ e.to \in Dirs /\ e.to \notin Visited /\ e.to \notin unread
      /\ Visited' = Visited \cup {e.to} /\ RootEntry \notin (Pending \ {e}) \cup lost
  BY <1>1, NewTarget
<1>3. /\ n \in Nat /\ DOMAIN stack' = 1..(n + 1) /\ DOMAIN stack = 1..n
      /\ stack'[1].todo = EntriesOf(e.to)
      /\ \A i \in DOMAIN stack : stack'[i + 1].todo = stack[i].todo \ {e}
      /\ Pending' = (Pending \ {e}) \cup EntriesOf(e.to)
  BY EnterStack
<1> HIDE DEF n
<1>4. \A d : EntriesOf(d)' = EntriesOf(d)
  BY <1>1, SameFiles
<1>5. ASSUME NEW x \in EntriesOf(e.to)
      PROVE  x.in = e.to /\ x # RootEntry /\ x \notin Pending \cup lost \cup deep
  <2>1. x.in = e.to /\ x # RootEntry
    BY <1>2, <1>5, EntryFacts
  <2>2. QED
    BY <1>2, <2>1 DEF PendingIsNew
<1>6. \A i \in DOMAIN stack' : i # 1 => /\ i - 1 \in DOMAIN stack
                                        /\ stack'[i].todo = stack[i - 1].todo \ {e}
  <2> SUFFICES ASSUME NEW i \in DOMAIN stack', i # 1
               PROVE  i - 1 \in DOMAIN stack /\ stack'[i].todo = stack[i - 1].todo \ {e}
    OBVIOUS
  <2>1. i - 1 \in DOMAIN stack /\ (i - 1) + 1 = i
    BY <1>3
  <2>2. QED
    BY <1>3, <2>1
<1>7. ASSUME NEW i \in DOMAIN stack', NEW j \in DOMAIN stack', i # j
      PROVE  stack'[i].todo \cap stack'[j].todo = {}
  <2>1. \A k \in DOMAIN stack' : k # 1 => stack'[k].todo \cap EntriesOf(e.to) = {}
    <3> SUFFICES ASSUME NEW k \in DOMAIN stack', k # 1, NEW x \in stack'[k].todo
                 PROVE  x \in Pending
      BY <1>5
    <3>1. k - 1 \in DOMAIN stack /\ x \in stack[k - 1].todo
      BY <1>6
    <3>2. QED
      BY <3>1 DEF Pending
  <2>2. CASE i # 1 /\ j # 1
    <3>1. i - 1 \in DOMAIN stack /\ j - 1 \in DOMAIN stack /\ i - 1 # j - 1
      BY <1>3, <1>6, <1>7, <2>2
    <3>2. stack[i - 1].todo \cap stack[j - 1].todo = {}
      BY <3>1 DEF PendingIsNew
    <3>3. QED
      BY <1>6, <2>2, <3>2
  <2>3. QED
    BY <1>3, <1>7, <2>1, <2>2
<1>8. Pending' \cap (lost' \cup deep') = {}
  BY <1>1, <1>3, <1>5 DEF PendingIsNew
<1>9. RootEntry \notin Pending' \cup lost'
  BY <1>1, <1>2, <1>3, <1>5
<1>10. ASSUME NEW x \in (Pending' \cup lost' \cup deep') \ {RootEntry}
       PROVE  x.in \in Visited' \ unread' /\ x \in EntriesOf(x.in)
  <2>1. CASE x \in EntriesOf(e.to)
    BY <1>1, <1>2, <1>5, <2>1
  <2>2. CASE x \notin EntriesOf(e.to)
    BY <1>1, <1>2, <1>3, <1>10, <2>2 DEF PendingIsNew
  <2>3. QED
    BY <2>1, <2>2
<1>11. QED
  BY <1>4, <1>7, <1>8, <1>9, <1>10 DEF PendingIsNew

LEMMA EnterKeepsReachable ==
    ASSUME BasicInv, InodesDiffer, DistinctInv, NEW e \in Entry, WalkEnters(e)
    PROVE  VisitedIsReachable'
<1> USE DEF DistinctInv
<1>1. /\ UNCHANGED <<fs, status, lost, deep, unread>> /\ status # "failed" /\ Walking /\ e \in Top.todo
      /\ e.to # Nowhere /\ ~Seen(e) /\ visited' = visited \cup {Ino[e.to]}
  BY DEF WalkEnters, Walking, ghosts
<1>2. /\ e.to \in Dirs /\ e.to \notin Visited /\ e.to \notin unread
      /\ Visited' = Visited \cup {e.to} /\ RootEntry \notin (Pending \ {e}) \cup lost
      /\ e = RootEntry => e.to = Root
  BY <1>1, NewTarget
<1>3. Pending' = (Pending \ {e}) \cup EntriesOf(e.to) /\ e \in Pending /\ PendingIsNew'
  BY EnterStack, EnterKeepsPending
<1>4. \A d : EntriesOf(d)' = EntriesOf(d)
  BY <1>1, SameFiles
<1>5. Root \in Visited' \/ RootEntry \in Pending' \cup lost'
  BY <1>1, <1>2, <1>3 DEF VisitedIsReachable
<1>6. ASSUME NEW d \in Visited' \ unread', NEW x \in EntriesOf(d)
      PROVE  x \in Pending' \cup lost' \cup deep' \/ x.to \in Visited' \cup {Nowhere}
  <2>1. CASE d = e.to
    BY <1>3, <1>6, <2>1
  <2>2. CASE d # e.to
    <3>1. x \in Pending \cup lost \cup deep \/ x.to \in Visited \cup {Nowhere}
      BY <1>1, <1>2, <1>6, <2>2 DEF VisitedIsReachable
    <3>2. QED
      BY <1>1, <1>2, <1>3, <3>1
  <2>3. QED
    BY <2>1, <2>2
<1>7. ASSUME NEW S \in SUBSET Dirs, Closed(S, Pending \cup lost \cup deep)' PROVE Visited' \subseteq S
  <2>1. /\ (Pending \cup lost \cup deep) \ {e} \subseteq (Pending \cup lost \cup deep)'
        /\ (Pending \cup lost \cup deep)' \subseteq ((Pending \cup lost \cup deep) \ {e}) \cup EntriesOf(e.to)
    BY <1>1, <1>3 DEF PendingIsNew
  <2>2. unread \subseteq unread' /\ unread' \subseteq unread \cup {e.to}
    BY <1>1
  <2>3. Visited \cup {e.to} \subseteq S
    BY <1>1, <1>2, <1>3, <1>7, <2>1, <2>2, VisitIsReachable
  <2>4. QED
    BY <1>2, <2>3
<1>8. Found' = Composed(Visited)'
  <2> DEFINE new == [path |-> e.to, files |-> DeduplicateAndOrder(Files[e.to])]
  <2>1. /\ projects \in Seq(Project)
        /\ projects' = IF Files[e.to] = <<>> THEN projects ELSE Append(projects, new)
    BY DEF WalkEnters, BasicInv, ScannerTypeOK, Project
  <2>2. Found' = Found \cup (IF Files[e.to] = <<>> THEN {} ELSE {e.to})
    <3>1. CASE Files[e.to] = <<>>
      BY <2>1, <3>1 DEF Found
    <3>2. CASE Files[e.to] # <<>>
      <4>1. /\ Len(projects) \in Nat /\ DOMAIN projects = 1..Len(projects)
            /\ DOMAIN projects' = 1..(Len(projects) + 1)
            /\ \A i \in DOMAIN projects : projects'[i] = projects[i]
            /\ projects'[Len(projects) + 1] = new
        BY <2>1, <3>2
      <4>2. new.path = e.to
        OBVIOUS
      <4> HIDE DEF new
      <4>3. Found' \subseteq Found \cup {e.to}
        BY <4>1, <4>2 DEF Found
      <4>4. Found \subseteq Found'
        <5> SUFFICES ASSUME NEW i \in DOMAIN projects PROVE projects[i].path \in Found'
          BY DEF Found
        <5>1. i \in DOMAIN projects' /\ projects'[i].path = projects[i].path
          BY <4>1
        <5>2. QED
          BY <5>1 DEF Found
      <4>5. e.to \in Found'
        <5>1. Len(projects) + 1 \in DOMAIN projects' /\ projects'[Len(projects) + 1].path = e.to
          BY <4>1, <4>2
        <5>2. QED
          BY <5>1 DEF Found
      <4>6. QED
        BY <3>2, <4>3, <4>4, <4>5
    <3>3. QED
      BY <3>1, <3>2
  <2>3. QED
    BY <1>1, <1>2, <2>2 DEF VisitedIsReachable, Composed
<1>9. unread' \subseteq Visited'
  BY <1>1, <1>2 DEF VisitedIsReachable
<1>10. QED
  BY <1>4, <1>5, <1>6, <1>7, <1>8, <1>9 DEF VisitedIsReachable

LEMMA EnterKeepsDepth ==
    ASSUME BasicInv, InodesDiffer, DistinctInv, NEW e \in Entry, WalkEnters(e)
    PROVE  DepthIsTrue'
<1> USE DEF DistinctInv
<1> DEFINE n == Len(stack)
<1>1. /\ UNCHANGED <<fs, deep>> /\ Walking /\ e \in Top.todo /\ ~TooDeep
      /\ e.to # Nowhere /\ ~Seen(e) /\ visited' = visited \cup {Ino[e.to]}
  BY DEF WalkEnters, ghosts
<1>2. e.to \in Dirs /\ Visited' = Visited \cup {e.to}
  BY <1>1, NewTarget
<1>3. /\ n \in Nat /\ DOMAIN stack' = 1..(n + 1) /\ DOMAIN stack = 1..n /\ Len(stack') = n + 1
      /\ stack'[1].todo = EntriesOf(e.to) /\ stack'[1].depth = Depth
      /\ \A i \in DOMAIN stack : /\ stack'[i + 1].todo = stack[i].todo \ {e}
                                 /\ stack'[i + 1].depth = stack[i].depth
  BY EnterStack
<1>4. /\ Below(e.to, Depth) /\ Depth \in 0..MaxDepth /\ WithinLimit(e.to)
      /\ fs.links = {} => \A k \in 0..MaxDepth : Below(e.to, k) => k = Depth
  BY <1>1, <1>2, TargetDepth
<1>5. \A d \in Visited' : WithinLimit(d)'
  BY <1>1, <1>2, <1>4, SameLimits DEF DepthIsTrue
<1>6. ASSUME NEW i \in DOMAIN stack', NEW x \in stack'[i].todo
      PROVE  IF x = RootEntry THEN i = Len(stack')
             ELSE /\ stack'[i].depth >= 0 /\ Below(x.in, stack[i].depth)'
                  /\ fs'.links = {} => \A k \in 0..MaxDepth : Below(x.in, k)' => k = stack'[i].depth
  <2>1. CASE i = 1
    <3>1. x.in = e.to /\ x # RootEntry /\ stack'[i].depth = Depth
      BY <1>2, <1>3, <1>6, <2>1, EntryFacts
    <3>2. QED
      BY <1>1, <1>4, <3>1, SameFiles, ScannerAssumption
  <2>2. CASE i # 1
    <3> DEFINE j == i - 1
    <3>1. j \in DOMAIN stack /\ i = j + 1
      BY <1>3, <1>6, <2>2
    <3> HIDE DEF j
    <3>2. x \in stack[j].todo /\ stack'[i].depth = stack[j].depth
      BY <1>3, <1>6, <3>1
    <3>3. IF x = RootEntry THEN j = n
          ELSE /\ stack[j].depth >= 0 /\ Below(x.in, stack[j].depth)
               /\ fs.links = {} => \A k \in 0..MaxDepth : Below(x.in, k) => k = stack[j].depth
      BY <3>1, <3>2 DEF DepthIsTrue
    <3>4. x = RootEntry => i = Len(stack')
      BY <1>3, <3>1, <3>3
    <3> HIDE DEF n
    <3>5. QED
      BY <1>1, <3>2, <3>3, <3>4, SameFiles
  <2>3. QED
    BY <2>1, <2>2
<1>7. fs'.links = {} => \A x \in deep' : \A k \in 0..(MaxDepth - 1) : ~Below(x.in, k)'
  BY <1>1, SameFiles DEF DepthIsTrue
<1>8. QED
  BY <1>5, <1>6, <1>7 DEF DepthIsTrue

(* A call of walk returns to the one that made it. *)
LEMMA ReturnKeeps ==
    ASSUME BasicInv, DistinctInv, WalkReturns
    PROVE  DistinctInv'
<1> USE DEF DistinctInv
<1> DEFINE n == Len(stack)
<1>1. /\ UNCHANGED <<fs, visited, projects, lost, deep, unread>> /\ status # "failed"
  BY DEF WalkReturns, Walking, ghosts
<1>2. /\ n \in Nat /\ DOMAIN stack = 1..n /\ DOMAIN stack' = 1..(n - 1) /\ Len(stack') = n - 1
      /\ \A i \in DOMAIN stack' : i + 1 \in DOMAIN stack /\ stack'[i] = stack[i + 1]
      /\ Pending' = Pending
  BY ReturnStack
<1>3. Visited' = Visited /\ Found' = Found /\ Composed(Visited)' = Composed(Visited)
  BY <1>1 DEF Visited, Found, Composed
<1>4. /\ \A d : EntriesOf(d)' = EntriesOf(d) /\ (WithinLimit(d)' <=> WithinLimit(d))
      /\ \A d, k : Below(d, k)' <=> Below(d, k)
  BY <1>1, SameFiles, SameLimits
<1>5. PendingIsNew'
  <2>1. ASSUME NEW i \in DOMAIN stack', NEW j \in DOMAIN stack', i # j
        PROVE  stack'[i].todo \cap stack'[j].todo = {}
    <3>1. i + 1 \in DOMAIN stack /\ j + 1 \in DOMAIN stack /\ i + 1 # j + 1
      BY <1>2, <2>1
    <3>2. QED
      BY <1>2, <3>1 DEF PendingIsNew
  <2>2. QED
    BY <1>1, <1>2, <1>3, <1>4, <2>1 DEF PendingIsNew
<1>6. VisitedIsReachable'
  <2>1. \A S : Closed(S, Pending \cup lost \cup deep)' => Closed(S, Pending \cup lost \cup deep)
    BY <1>1, <1>2, <1>4 DEF Closed
  <2>2. QED
    BY <1>1, <1>2, <1>3, <1>4, <2>1 DEF VisitedIsReachable
<1>7. DepthIsTrue'
  <2>1. ASSUME NEW i \in DOMAIN stack', NEW x \in stack'[i].todo
        PROVE  IF x = RootEntry THEN i = Len(stack')
               ELSE /\ stack'[i].depth >= 0 /\ Below(x.in, stack[i].depth)'
                    /\ fs'.links = {} => \A k \in 0..MaxDepth : Below(x.in, k)' => k = stack'[i].depth
    <3> DEFINE j == i + 1
    <3>1. j \in DOMAIN stack /\ stack'[i] = stack[j] /\ i = j - 1
      BY <1>2, <2>1
    <3> HIDE DEF j
    <3>2. IF x = RootEntry THEN j = n
          ELSE /\ stack[j].depth >= 0 /\ Below(x.in, stack[j].depth)
               /\ fs.links = {} => \A k \in 0..MaxDepth : Below(x.in, k) => k = stack[j].depth
      BY <2>1, <3>1 DEF DepthIsTrue
    <3>3. x = RootEntry => i = Len(stack')
      BY <1>2, <3>1, <3>2
    <3> HIDE DEF n
    <3>4. QED
      BY <1>1, <1>4, <3>1, <3>2, <3>3
  <2>2. QED
    BY <1>1, <1>3, <1>4, <2>1 DEF DepthIsTrue
<1>8. QED
  BY <1>5, <1>6, <1>7

(* The end of the context changes nothing until the next entry. *)
LEMMA NothingKeeps ==
    ASSUME DistinctInv, UNCHANGED <<fs, visited, projects, stack, status, lost, deep, unread>>
    PROVE  DistinctInv'
<1> USE DEF DistinctInv
<1>1. /\ UNCHANGED <<Visited, Found, Pending>> /\ Composed(Visited)' = Composed(Visited)
  BY DEF Visited, Found, Pending, Composed
<1>2. /\ \A d : EntriesOf(d)' = EntriesOf(d) /\ (WithinLimit(d)' <=> WithinLimit(d))
      /\ \A d, k : Below(d, k)' <=> Below(d, k)
  BY SameFiles, SameLimits
<1>3. PendingIsNew'
  BY <1>1, <1>2 DEF PendingIsNew
<1>4. VisitedIsReachable'
  <2>1. \A S : Closed(S, Pending \cup lost \cup deep)' => Closed(S, Pending \cup lost \cup deep)
    BY <1>1, <1>2 DEF Closed
  <2>2. QED
    BY <1>1, <1>2, <2>1 DEF VisitedIsReachable
<1>5. DepthIsTrue'
  BY <1>1, <1>2 DEF DepthIsTrue
<1>6. QED
  BY <1>3, <1>4, <1>5

(* The inductive invariant of the scan. *)
LEMMA ScannerInvStep == ScannerInv /\ [Next]_vars => ScannerInv'
<1> SUFFICES ASSUME ScannerInv, [Next]_vars PROVE ScannerInv'
  OBVIOUS
<1>1. BasicInv /\ BasicInv'
  BY ScanStepInv DEF ScannerInv, BasicInv
<1>2. ASSUME InodesDiffer PROVE DistinctInv'
  <2>1. DistinctInv
    BY <1>2 DEF ScannerInv, DistinctInv
  <2>2. ASSUME NEW e \in Entry, WalkCancelled(e) PROVE DistinctInv'
    BY <1>1, <2>1, <2>2, CancelKeeps
  <2>3. ASSUME NEW e \in Entry, WalkTooDeep(e) \/ WalkVanished(e) \/ WalkSkips(e) PROVE DistinctInv'
    BY <1>1, <2>1, <2>3, LeaveOutKeeps
  <2>4. ASSUME NEW e \in Entry, WalkUnreadable(e) PROVE DistinctInv'
    BY <1>1, <1>2, <2>1, <2>4, UnreadableKeeps
  <2>5. ASSUME NEW e \in Entry, WalkEnters(e) PROVE DistinctInv'
    BY <1>1, <1>2, <2>1, <2>5, EnterKeepsPending, EnterKeepsReachable, EnterKeepsDepth DEF DistinctInv
  <2>6. ASSUME WalkReturns PROVE DistinctInv'
    BY <1>1, <2>1, <2>6, ReturnKeeps
  <2>7. ASSUME CtxEnds \/ UNCHANGED vars PROVE DistinctInv'
    <3>1. UNCHANGED <<fs, visited, projects, stack, status, lost, deep, unread>>
      BY <2>7 DEF CtxEnds, vars, ghosts
    <3>2. QED
      BY <2>1, <3>1, NothingKeeps
  <2>8. QED
    BY <2>2, <2>3, <2>4, <2>5, <2>6, <2>7 DEF Next, Over
<1>3. InodesDiffer' => InodesDiffer
  BY DEF InodesDiffer
<1>4. QED
  BY <1>1, <1>2, <1>3 DEF ScannerInv, BasicInv, DistinctInv

(* ScannerInv is an invariant of every scan (Scan and walk): what is found *)
(* was visited, a frame is one level below its caller and no deeper than   *)
(* the limit, and if inode numbers differ the entries that are left, lost  *)
(* or too deep are all that separates what was visited from the rest.      *)
THEOREM ScannerInvariant == Spec => []ScannerInv
<1>1. Init => ScannerInv
  BY ScanInitInv, DistinctInit DEF ScannerInv, BasicInv, DistinctInv
<1>2. QED
  BY <1>1, ScannerInvStep, PTL DEF Spec

(* However the links loop, walk reports a directory at most once, even if  *)
(* inode numbers are not distinct.                                         *)
THEOREM ScannerFoundOnce == Spec => []FoundOnce
<1>1. ScannerInv => FoundOnce
  BY DEF ScannerInv
<1>2. QED
  BY <1>1, ScannerInvariant, PTL

(* A Scan that returns projects misses nothing but what walk could not     *)
(* follow, and reports nothing else, in whatever order it went: visited is *)
(* closed, and the smallest such set.                                      *)
THEOREM ScannerNothingMissed == Spec => []NothingMissed
<1>1. ASSUME ScannerInv PROVE NothingMissed
  <2> SUFFICES ASSUME InodesDiffer, status = "done", RootEntry \notin lost
               PROVE  Found = Composed(Reachable(lost \cup deep))
    BY DEF NothingMissed
  <2>1. stack = <<>> /\ Pending = {}
    BY <1>1 DEF ScannerInv, Pending
  <2>2. /\ Root \in Visited /\ Found = Composed(Visited)
        /\ \A d \in Visited \ unread : \A e \in EntriesOf(d) :
              e \in lost \cup deep \/ e.to \in Visited \cup {Nowhere}
        /\ \A S \in SUBSET Dirs : Closed(S, Pending \cup lost \cup deep) => Visited \subseteq S
    BY <1>1, <2>1 DEF ScannerInv, VisitedIsReachable
  <2>3. Closed(Visited, lost \cup deep)
    BY <2>2 DEF Closed
  <2>4. Visited \in SUBSET Dirs /\ Pending \cup lost \cup deep = lost \cup deep
    BY <2>1 DEF Visited
  <2>5. Reachable(lost \cup deep) = Visited
    BY <2>2, <2>3, <2>4 DEF Reachable
  <2>6. QED
    BY <2>2, <2>5
<1>2. QED
  BY <1>1, ScannerInvariant, PTL

(* A directory that a chain of k entries leads to is visited, if no link,  *)
(* failure or limit keeps the scan from it.  The first directory on the    *)
(* chain that is not visited would have an entry too deep, or left out.    *)
LEMMA ChainIsVisited ==
    ASSUME ScannerInv, InodesDiffer, status = "done", fs.links = {}, lost = {}, unread = {},
           NEW d \in Dirs, NEW k \in 0..MaxDepth, Below(d, k)
    PROVE  d \in Visited
<1>1. k \in Nat /\ MaxDepth \in Nat /\ k <= MaxDepth
  BY ScannerAssumption
<1>2. PICK p \in [0..k -> Dirs] :
        /\ p[0] = Root /\ p[k] = d
        /\ \A i \in 1..k : \E y \in EntriesOf(p[i - 1]) : y.to = p[i]
  BY DEF Below
<1>3. Pending = {}
  BY DEF ScannerInv, Pending
<1>4. /\ Root \in Visited
      /\ \A c \in Visited : \A e \in EntriesOf(c) : e \in deep \/ e.to \in Visited \cup {Nowhere}
      /\ \A e \in deep : \A m \in 0..(MaxDepth - 1) : ~Below(e.in, m)
  BY <1>3 DEF ScannerInv, VisitedIsReachable, DepthIsTrue
<1> DEFINE T == {i \in 0..k : p[i] \notin Visited}
<1>5. SUFFICES ASSUME T # {} PROVE FALSE
  BY <1>1, <1>2
<1>6. PICK m \in T : \A i \in T : m <= i
  <2>1. T \in SUBSET Nat
    BY <1>1
  <2>2. QED
    BY <1>5, <2>1, Least
<1>7. m \in 1..k /\ m - 1 \in 0..k /\ m - 1 \in 0..(MaxDepth - 1) /\ p[m - 1] \in Visited
  <2>1. m # 0
    BY <1>2, <1>4, <1>6
  <2>2. m \in 1..k /\ m - 1 \in 0..k /\ ~(m <= m - 1)
    BY <1>1, <1>6, <2>1
  <2>3. p[m - 1] \in Visited
    BY <1>6, <2>2
  <2>4. QED
    BY <1>1, <2>2, <2>3
<1>8. PICK y \in EntriesOf(p[m - 1]) : y.to = p[m]
  BY <1>2, <1>7
<1>9. y.in = p[m - 1] /\ y.to \in Dirs /\ y.to \notin Visited
  BY <1>2, <1>6, <1>7, <1>8, EntryFacts
<1>10. y \in deep
  BY <1>4, <1>7, <1>8, <1>9, ScannerAssumption
<1>11. Below(p[m - 1], m - 1)
  <2> DEFINE q == [i \in 0..(m - 1) |-> p[i]]
  <2>1. /\ q \in [0..(m - 1) -> Dirs] /\ q[0] = Root /\ q[m - 1] = p[m - 1]
        /\ \A i \in 0..(m - 1) : q[i] = p[i]
    BY <1>1, <1>2, <1>7
  <2> HIDE DEF q
  <2>2. ASSUME NEW i \in 1..(m - 1) PROVE \E x \in EntriesOf(q[i - 1]) : x.to = q[i]
    <3>1. i \in 1..k /\ i \in 0..(m - 1) /\ i - 1 \in 0..(m - 1)
      BY <1>1, <1>7
    <3>2. QED
      BY <1>2, <2>1, <3>1
  <2>3. QED
    BY <2>1, <2>2 DEF Below
<1>12. QED
  BY <1>4, <1>7, <1>9, <1>10, <1>11

(* SCAN_MAX_DEPTH is what it says: walk reports nothing below the limit,   *)
(* and without links and failures everything within it.                    *)
THEOREM ScannerDepthIsExact == Spec => []DepthIsExact
<1>1. ASSUME ScannerInv PROVE DepthIsExact
  <2> SUFFICES ASSUME InodesDiffer, status = "done"
               PROVE  /\ \A d \in Found : WithinLimit(d)
                      /\ fs.links = {} /\ lost = {} /\ unread = {} =>
                            Found = Composed({d \in Dirs : WithinLimit(d)})
    BY DEF DepthIsExact
  <2>1. Found = Composed(Visited) /\ \A d \in Visited : WithinLimit(d)
    BY <1>1 DEF ScannerInv, VisitedIsReachable, DepthIsTrue
  <2>2. \A d \in Found : WithinLimit(d)
    BY <2>1 DEF Composed
  <2>3. ASSUME fs.links = {}, lost = {}, unread = {}
        PROVE  Visited = {d \in Dirs : WithinLimit(d)}
    <3>1. \A d \in Dirs : WithinLimit(d) => d \in Visited
      BY <1>1, <2>3, ChainIsVisited DEF WithinLimit
    <3>2. Visited \subseteq Dirs
      BY DEF Visited
    <3>3. QED
      BY <2>1, <3>1, <3>2
  <2>4. QED
    BY <2>1, <2>2, <2>3
<1>2. QED
  BY <1>1, ScannerInvariant, PTL
=============================================================================
