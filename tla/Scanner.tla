------------------------------ MODULE Scanner ------------------------------
(***************************************************************************)
(* The search for compose projects, internal/discovery/scanner.go: Scan    *)
(* walks the tree below the root directory depth first, follows symbolic   *)
(* links, and keeps the inode numbers of the directories it has been to in *)
(* one map for the whole scan.                                             *)
(*                                                                         *)
(* The recursion of walk is a stack of frames, one for each call that is   *)
(* still iterating over its entries.  os.ReadDir returns the entries by    *)
(* name; as names are arbitrary here and a directory is read at most once, *)
(* taking them in any order covers every naming.  The context may end, and *)
(* an entry may vanish or refuse to be read, at any time during the scan.  *)
(***************************************************************************)
EXTENDS Integers, Sequences

CONSTANTS
    Dirs,        \* the directories
    Root,        \* the one the scan starts from (COMPOSE_ROOT)
    Nowhere,     \* where a broken link, or a link to a file, leads
    Layouts,     \* the file systems considered: parents and links
    Ignored,     \* directories named .*, node_modules or vendor
    Ino,         \* the inode number of each directory
    ComposeNames, \* composeFileNames and overridePatterns
    Overrides,   \* those that contain "override"
    Files,       \* the compose files of each directory, ordered by name
    MaxDepth     \* SCAN_MAX_DEPTH

ASSUME ScannerAssumption ==
    /\ Root \in Dirs /\ Nowhere \notin Dirs
    /\ Ignored \subseteq Dirs
    /\ DOMAIN Ino = Dirs
    /\ Overrides \subseteq ComposeNames
    /\ Files \in [Dirs -> Seq(ComposeNames)]
    /\ \A l \in Layouts : /\ l.parent \in [Dirs \ {Root} -> Dirs]
                          /\ l.links \subseteq Dirs \X (Dirs \cup {Nowhere})
    /\ MaxDepth \in Nat

VARIABLES
    fs,        \* the file system that this scan meets
    ctxDone,   \* the request that asked for the scan has ended
    visited,   \* visited, the inode numbers
    stack,     \* the calls of walk, the innermost first
    projects,  \* projects, as paths and their compose files
    status,    \* what Scan has returned, if it has
    lost,      \* ghost: entries that had vanished
    deep,      \* ghost: entries that were too deep
    unread     \* ghost: directories that could not be read

ghosts == <<lost, deep, unread>>
vars == <<fs, ctxDone, visited, stack, projects, status, ghosts>>

Entry == [in : Dirs \cup {Nowhere}, link : BOOLEAN, to : Dirs \cup {Nowhere}]

(* The call that Scan makes counts as an entry of a frame above the root.  *)
RootEntry == [in |-> Nowhere, link |-> FALSE, to |-> Root]

Init ==
    /\ fs \in Layouts
    /\ ctxDone = FALSE
    /\ visited = {}
    /\ stack = <<[depth |-> -1, todo |-> {RootEntry}]>>
    /\ projects = <<>>
    /\ status = "walking"
    /\ lost = {} /\ deep = {} /\ unread = {}

-----------------------------------------------------------------------------
(* The entries that walk follows: subdirectories and symbolic links, but   *)
(* not those with an ignored name.                                         *)
EntriesOf(d) ==
    {[in |-> d, link |-> FALSE, to |-> c] :
        c \in {c \in Dirs \ ({Root} \cup Ignored) : fs.parent[c] = d}}
    \cup
    {[in |-> d, link |-> TRUE, to |-> t] :
        t \in {t \in Dirs \cup {Nowhere} : <<d, t>> \in fs.links}}

(* Overrides go last; "compose.override.yml" sorts before "compose.yml".   *)
DeduplicateAndOrder(files) ==
    LET IsOverride(f) == f \in Overrides
        IsPrimary(f) == f \notin Overrides
    IN  SelectSeq(files, IsPrimary) \o SelectSeq(files, IsOverride)

ScannerTypeOK ==
    /\ fs \in Layouts
    /\ ctxDone \in BOOLEAN
    /\ visited \subseteq {Ino[d] : d \in Dirs}
    /\ stack \in Seq([depth : Int, todo : SUBSET Entry])
    /\ projects \in Seq([path : Dirs, files : {DeduplicateAndOrder(Files[d]) : d \in Dirs}])
    /\ status \in {"walking", "done", "failed"}
    /\ lost \subseteq Entry /\ deep \subseteq Entry /\ unread \subseteq Dirs

Walking == status = "walking" /\ stack # <<>>
Top == stack[1]
Depth == Top.depth + 1
Drop(e) == stack' = [stack EXCEPT ![1].todo = @ \ {e}]

(* Mutant: a directory one level below the limit is still read.            *)
TooDeepOffByOne == Depth > MaxDepth + 1

TooDeep == Depth > MaxDepth

(* Mutant: only links are looked up in the map.                            *)
SeenThroughLinkOnly(e) == e.link /\ e.to \in Dirs /\ Ino[e.to] \in visited

Seen(e) == e.to \in Dirs /\ Ino[e.to] \in visited

(* The error of an ended context goes through all the calls: Scan returns  *)
(* it and no projects.                                                     *)
WalkCancelled(e) ==
    /\ Walking /\ e \in Top.todo /\ ctxDone
    /\ stack' = <<>>
    /\ status' = "failed"
    /\ UNCHANGED <<fs, ctxDone, visited, projects, ghosts>>

WalkTooDeep(e) ==
    /\ Walking /\ e \in Top.todo /\ ~ctxDone /\ TooDeep
    /\ Drop(e)
    /\ deep' = deep \cup {e}
    /\ UNCHANGED <<fs, ctxDone, visited, projects, status, lost, unread>>

(* Lstat, EvalSymlinks or Stat fails: the entry has vanished.              *)
WalkVanished(e) ==
    /\ Walking /\ e \in Top.todo /\ ~ctxDone /\ ~TooDeep
    /\ Drop(e)
    /\ lost' = lost \cup {e}
    /\ UNCHANGED <<fs, ctxDone, visited, projects, status, deep, unread>>

(* The link leads nowhere, or the scan has been in this directory.         *)
WalkSkips(e) ==
    /\ Walking /\ e \in Top.todo /\ ~ctxDone /\ ~TooDeep
    /\ e.to = Nowhere \/ Seen(e)
    /\ Drop(e)
    /\ UNCHANGED <<fs, ctxDone, visited, projects, status, ghosts>>

(* ReadDir fails after the directory was marked as visited.                *)
WalkUnreadable(e) ==
    /\ Walking /\ e \in Top.todo /\ ~ctxDone /\ ~TooDeep
    /\ e.to # Nowhere /\ ~Seen(e)
    /\ visited' = visited \cup {Ino[e.to]}
    /\ unread' = unread \cup {e.to}
    /\ Drop(e)
    /\ UNCHANGED <<fs, ctxDone, projects, status, lost, deep>>

(* The directory is read: it is a project if it has compose files, and     *)
(* walk goes on with its entries.                                          *)
WalkEnters(e) ==
    /\ Walking /\ e \in Top.todo /\ ~ctxDone /\ ~TooDeep
    /\ e.to # Nowhere /\ ~Seen(e)
    /\ visited' = visited \cup {Ino[e.to]}
    /\ projects' = IF Files[e.to] = <<>> THEN projects
                   ELSE Append(projects, [path |-> e.to,
                                          files |-> DeduplicateAndOrder(Files[e.to])])
    /\ stack' = <<[depth |-> Depth, todo |-> EntriesOf(e.to)]>>
                    \o [stack EXCEPT ![1].todo = @ \ {e}]
    /\ UNCHANGED <<fs, ctxDone, status, ghosts>>

(* Mutant: the return of a nested walk ends the loop of its caller.        *)
WalkReturnsTwice ==
    /\ Walking /\ Top.todo = {}
    /\ stack' = IF Len(stack) > 2 THEN Tail(Tail(stack)) ELSE Tail(stack)
    /\ status' = IF Len(stack) = 1 THEN "done" ELSE status
    /\ UNCHANGED <<fs, ctxDone, visited, projects, ghosts>>

(* A call of walk has no entries left; with the outermost, Scan returns.   *)
WalkReturns ==
    /\ Walking /\ Top.todo = {}
    /\ stack' = Tail(stack)
    /\ status' = IF Len(stack) = 1 THEN "done" ELSE status
    /\ UNCHANGED <<fs, ctxDone, visited, projects, ghosts>>

CtxEnds ==
    /\ status = "walking" /\ ~ctxDone
    /\ ctxDone' = TRUE
    /\ UNCHANGED <<fs, visited, stack, projects, status, ghosts>>

Over == status # "walking" /\ UNCHANGED vars

Next ==
    \/ \E e \in Entry : \/ WalkCancelled(e) \/ WalkTooDeep(e) \/ WalkVanished(e)
                        \/ WalkSkips(e) \/ WalkUnreadable(e) \/ WalkEnters(e)
    \/ WalkReturns \/ CtxEnds \/ Over

Spec == Init /\ [][Next]_vars

-----------------------------------------------------------------------------
(* A directory is one project, however many links lead to it and whatever  *)
(* loops they form (TestScanner_SymlinkLoop expects 1 project).            *)
FoundOnce ==
    \A i, j \in DOMAIN projects : projects[i].path = projects[j].path => i = j

(* The innermost entries have the greatest depth: a frame is one level     *)
(* below its caller and no deeper than the limit.                          *)
StackIsPath ==
    \A i \in DOMAIN stack : stack[i].depth = Len(stack) - i - 1 /\ stack[i].depth <= MaxDepth

(* What Scan has found has been visited.                                   *)
FoundIsVisited == \A i \in DOMAIN projects : Ino[projects[i].path] \in visited

Found == {projects[i].path : i \in DOMAIN projects}
Composed(S) == {d \in S \ unread : Files[d] # <<>>}
Visited == {d \in Dirs : Ino[d] \in visited}
Pending == UNION {stack[i].todo : i \in DOMAIN stack}

(* The directories are on one file system, whose inode numbers differ.     *)
InodesDiffer == \A c, d \in Dirs : Ino[c] = Ino[d] => c = d

(* A set that has the root and that no entry leaves, other than those in   *)
(* "cut" and those of unread directories.  The smallest one has what can   *)
(* be reached.                                                             *)
Closed(S, cut) ==
    /\ Root \in S
    /\ \A d \in S \ unread : \A e \in EntriesOf(d) \ cut : e.to \in S \cup {Nowhere}

Reachable(cut) == {d \in Dirs : \A S \in SUBSET Dirs : Closed(S, cut) => d \in S}

(* A scan that succeeds misses nothing but what it could not follow: its   *)
(* projects are those that are reachable through the other entries,        *)
(* whichever way it went.                                                  *)
NothingMissed ==
    InodesDiffer /\ status = "done" /\ RootEntry \notin lost
        => Found = Composed(Reachable(lost \cup deep))

(* A chain of k entries leads from the root to d.                          *)
Below(d, k) ==
    \E path \in [0..k -> Dirs] :
        /\ path[0] = Root /\ path[k] = d
        /\ \A i \in 1..k : \E e \in EntriesOf(path[i - 1]) : e.to = path[i]

WithinLimit(d) == \E k \in 0..MaxDepth : Below(d, k)

(* No project is further below the root than the limit.  Without links and *)
(* failures the limit is exact: all within it are found, whereas a link    *)
(* may lead into a directory so deep that its own entries are not followed.*)
DepthIsExact ==
    InodesDiffer /\ status = "done" =>
        /\ \A d \in Found : WithinLimit(d)
        /\ fs.links = {} /\ lost = {} /\ unread = {} =>
              Found = Composed({d \in Dirs : WithinLimit(d)})

(* Where the scan is.  The entries that are left are in one frame each and *)
(* were not dealt with before; like those that were lost or too deep they  *)
(* belong to a directory that was read.                                    *)
PendingIsNew ==
    /\ \A i, j \in DOMAIN stack : i # j => stack[i].todo \cap stack[j].todo = {}
    /\ Pending \cap (lost \cup deep) = {}
    /\ RootEntry \in Pending \cup lost => Visited = {}
    /\ \A e \in (Pending \cup lost \cup deep) \ {RootEntry} :
          e.in \in Visited \ unread /\ e \in EntriesOf(e.in)

(* What was visited leads nowhere else but through the entries that are    *)
(* left, lost or too deep, and nothing was visited that is not reachable.  *)
VisitedIsReachable ==
    /\ unread \subseteq Visited
    /\ Found = Composed(Visited)
    /\ status # "failed" =>
          /\ Root \in Visited \/ RootEntry \in Pending \cup lost
          /\ \A d \in Visited \ unread : \A e \in EntriesOf(d) :
                e \in Pending \cup lost \cup deep \/ e.to \in Visited \cup {Nowhere}
    /\ \A S \in SUBSET Dirs : Closed(S, Pending \cup lost \cup deep) => Visited \subseteq S

(* The depth of a frame is the length of a chain that leads to its         *)
(* directory, and without links of the only one.                           *)
DepthIsTrue ==
    /\ \A d \in Visited : WithinLimit(d)
    /\ \A i \in DOMAIN stack : \A e \in stack[i].todo :
          IF e = RootEntry THEN i = Len(stack)
          ELSE /\ stack[i].depth >= 0 /\ Below(e.in, stack[i].depth)
               /\ fs.links = {} => \A k \in 0..MaxDepth : Below(e.in, k) => k = stack[i].depth
    /\ fs.links = {} => \A e \in deep : \A k \in 0..(MaxDepth - 1) : ~Below(e.in, k)

(* The inductive invariant; the last three parts are about directories     *)
(* that their inode numbers tell apart.                                    *)
ScannerInv ==
    /\ ScannerTypeOK /\ FoundOnce /\ FoundIsVisited /\ StackIsPath
    /\ status = "done" => stack = <<>>
    /\ InodesDiffer => PendingIsNew /\ VisitedIsReachable /\ DepthIsTrue
=============================================================================
