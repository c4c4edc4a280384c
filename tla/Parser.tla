------------------------------- MODULE Parser -------------------------------
(***************************************************************************)
(* The compose parser of internal/discovery/parser.go: Parse reads the     *)
(* compose files of a discovered project, each with the files it includes, *)
(* merges them, resolves `extends' and reads the env files of services.    *)
(* One step reads one file.  The recursion of resolveIncludes is a stack   *)
(* of the files that wait for their includes, that of resolveExtends a     *)
(* chain of services.  Files do not change during a parse.  YAML is        *)
(* external.  A service has one field of each kind that mergeService       *)
(* tells apart: an image (set or empty), ports (appended), an environment  *)
(* (merged by key), an env_file and an extends; `volumes' of a file stands *)
(* for its networks as well.                                               *)
(***************************************************************************)
EXTENDS Naturals, SequencesExt

CONSTANTS
    Files,              \* paths of compose files
    Disks,              \* what the files may hold, as functions on Files
    Unreadable,         \* a file that cannot be read or is no YAML
    NoExtends,          \* no extends
    ComposeFiles,       \* disc.ComposeFiles
    ProjectDir,         \* disc.Path
    EnvFiles,           \* disc.EnvFiles
    EnvText,            \* what each env file sets; nothing if it is not there
    OSEnv,              \* the environment of the process
    References,         \* texts that refer to a variable: its name, and a default if any
    Join(_, _), Dir(_), \* filepath.Join and filepath.Dir
    Limit               \* of the recursion, 10 in the code

ASSUME ParserAssumption ==
    /\ Limit \in Nat
    /\ ComposeFiles \in Seq(Files)
    /\ \A d \in Disks : DOMAIN d = Files
    /\ \A i \in DOMAIN EnvFiles : EnvFiles[i] \in DOMAIN EnvText

VARIABLES
    disk,       \* the files
    pc,
    next,       \* the compose file that is read next
    stack,      \* files whose includes are being resolved, the innermost last
    merged,     \* what the compose files say together
    left,       \* services that `range merged.Services' has not come to
    chain       \* of the service being extended: where it has come to, and what it has read

vars == <<disk, pc, next, stack, merged, left, chain>>

Empty == [x \in {} |-> x]
NoChain == [name |-> "", dir |-> ProjectDir, ext |-> NoExtends, links |-> <<>>]
Readable(f) == disk[f] # Unreadable

-----------------------------------------------------------------------------
(* The helpers of the parser.                                              *)

(* The variables of an env file replace those that are there.              *)
parseEnvFile(f, env) == EnvText[f] @@ env

loadEnvFiles == FoldLeft(LAMBDA env, f : parseEnvFile(f, env), Empty, EnvFiles)

(* The process' environment counts for what no env file sets.              *)
envVars == loadEnvFiles @@ OSEnv

(* An empty variable is like none, with `:-' and with `-'; a reference     *)
(* without a value and a default stays in the text.                        *)
expandEnvVars(text, env) ==
    IF text \notin DOMAIN References THEN text
    ELSE LET r == References[text] IN
         IF r.var \in DOMAIN env /\ env[r.var] # "" THEN env[r.var]
         ELSE IF "default" \in DOMAIN r THEN r.default ELSE text

parseFile(f, env) ==
    [disk[f] EXCEPT !.services =
        [n \in DOMAIN @ |-> [@[n] EXCEPT !.image = expandEnvVars(@, env)]]]

(* Mutant: an environment replaces the one that it should be merged with.  *)
mergeServiceReplaces(base, override) ==
    [base EXCEPT !.image = IF override.image # "" THEN override.image ELSE @,
                 !.ports = @ \o override.ports,
                 !.environment = IF override.environment # Empty THEN override.environment ELSE @,
                 !.envFile = IF override.envFile # <<>> THEN override.envFile ELSE @]

(* `extends' is not among the fields that are merged: that of base stays.  *)
mergeService(base, override) ==
    [base EXCEPT !.image = IF override.image # "" THEN override.image ELSE @,
                 !.ports = @ \o override.ports,
                 !.environment = override.environment @@ @,
                 !.envFile = IF override.envFile # <<>> THEN override.envFile ELSE @]

mergeInto(base, override) ==
    [base EXCEPT
        !.services = [n \in DOMAIN @ \cup DOMAIN override.services |->
            IF n \notin DOMAIN override.services THEN @[n]
            ELSE IF n \notin DOMAIN @ THEN override.services[n]
            ELSE mergeService(@[n], override.services[n])],
        !.volumes = override.volumes @@ @]

(* The frame of a file at a depth of include; beyond the limit its own     *)
(* includes are left alone.                                                *)
Frame(f, env, depth) ==
    [cf   |-> parseFile(f, env),
     dir  |-> Dir(f),
     env  |-> env,
     todo |-> IF depth > Limit THEN <<>> ELSE disk[f].include]

-----------------------------------------------------------------------------
Init ==
    /\ disk \in Disks
    /\ pc = "files" /\ next = 1 /\ stack = <<>>
    /\ merged = [services |-> Empty, volumes |-> Empty, include |-> <<>>]
    /\ left = {} /\ chain = NoChain

Top == stack[Len(stack)]

(* The next file of disc.ComposeFiles.                                     *)
ReadComposeFile ==
    /\ pc = "files" /\ stack = <<>> /\ next <= Len(ComposeFiles)
    /\ \/ /\ Readable(ComposeFiles[next])
          /\ stack' = <<Frame(ComposeFiles[next], envVars, 0)>>
          /\ UNCHANGED pc
       \/ /\ ~Readable(ComposeFiles[next])
          /\ pc' = "error"
          /\ UNCHANGED stack
    /\ UNCHANGED <<disk, next, merged, left, chain>>

(* Mutant: an include that cannot be read is tried again.                  *)
ReadIncludeAgain ==
    /\ pc = "files" /\ stack # <<>> /\ Top.todo # <<>>
    /\ LET inc == Head(Top.todo)
           f == Join(Top.dir, inc.path)
           incEnv == IF inc.envFile = "" THEN Top.env
                     ELSE parseEnvFile(Join(Top.dir, inc.envFile), Top.env)
           rest == [stack EXCEPT ![Len(stack)].todo = Tail(@)]
       IN  stack' = IF Readable(f) THEN Append(rest, Frame(f, incEnv, Len(stack))) ELSE stack
    /\ UNCHANGED <<disk, pc, next, merged, left, chain>>

(* The next include of the innermost file, with its own variables if it    *)
(* has an env_file.  One that cannot be read is passed over.               *)
ReadInclude ==
    /\ pc = "files" /\ stack # <<>> /\ Top.todo # <<>>
    /\ LET inc == Head(Top.todo)
           f == Join(Top.dir, inc.path)
           incEnv == IF inc.envFile = "" THEN Top.env
                     ELSE parseEnvFile(Join(Top.dir, inc.envFile), Top.env)
           rest == [stack EXCEPT ![Len(stack)].todo = Tail(@)]
       IN  stack' = IF Readable(f) THEN Append(rest, Frame(f, incEnv, Len(stack))) ELSE rest
    /\ UNCHANGED <<disk, pc, next, merged, left, chain>>

(* A file whose includes are all in is merged into the one that includes   *)
(* it, and overrides it.                                                   *)
MergeInclude ==
    /\ pc = "files" /\ Len(stack) > 1 /\ Top.todo = <<>>
    /\ stack' = [Front(stack) EXCEPT ![Len(stack) - 1].cf = mergeInto(@, Top.cf)]
    /\ UNCHANGED <<disk, pc, next, merged, left, chain>>

MergeComposeFile ==
    /\ pc = "files" /\ Len(stack) = 1 /\ Top.todo = <<>>
    /\ merged' = mergeInto(merged, Top.cf)
    /\ stack' = <<>> /\ next' = next + 1
    /\ UNCHANGED <<disk, pc, left, chain>>

FilesMerged ==
    /\ pc = "files" /\ next > Len(ComposeFiles)
    /\ pc' = "extends"
    /\ left' = {n \in DOMAIN merged.services : merged.services[n].extends # NoExtends}
    /\ UNCHANGED <<disk, next, stack, merged, chain>>

-----------------------------------------------------------------------------
(* The services are ranged over in any order.                              *)
ExtendBegins(n) ==
    /\ pc = "extends" /\ chain = NoChain /\ n \in left
    /\ chain' = [NoChain EXCEPT !.name = n, !.ext = merged.services[n].extends]
    /\ left' = left \ {n}
    /\ UNCHANGED <<disk, pc, next, stack, merged>>

Extending == pc = "extends" /\ chain.ext # NoExtends
ExtendFile == Join(chain.dir, chain.ext.file)

Extendable ==
    /\ Len(chain.links) <= Limit
    /\ Readable(ExtendFile)
    /\ chain.ext.service \in DOMAIN disk[ExtendFile].services

(* One call of resolveExtends: the service, and where it extends another   *)
(* relative to its own file.  The file's includes are not looked at.       *)
ExtendReads ==
    /\ Extending /\ Extendable
    /\ LET svc == parseFile(ExtendFile, envVars).services[chain.ext.service]
       IN  chain' = [chain EXCEPT !.dir = Dir(ExtendFile), !.ext = svc.extends,
                                  !.links = Append(@, svc)]
    /\ UNCHANGED <<disk, pc, next, stack, merged, left>>

(* Too long a chain, a file or a service that is not there.                *)
ExtendFails ==
    /\ Extending /\ ~Extendable
    /\ pc' = "error"
    /\ UNCHANGED <<disk, next, stack, merged, left, chain>>

(* The calls return, each parent merged under its child.                   *)
ExtendReturns ==
    /\ pc = "extends" /\ chain # NoChain /\ chain.ext = NoExtends
    /\ LET parents == Reverse(chain.links)
           svc == FoldLeft(mergeService, Head(parents), Append(Tail(parents), merged.services[chain.name]))
       IN  merged' = [merged EXCEPT !.services[chain.name] = [svc EXCEPT !.extends = NoExtends]]
    /\ chain' = NoChain
    /\ UNCHANGED <<disk, pc, next, stack, left>>

-----------------------------------------------------------------------------
(* The variables of the env files; the later file wins.                    *)
loadServiceEnvFiles(refs) ==
    FoldLeft(LAMBDA env, ref : parseEnvFile(Join(ProjectDir, ref), env), Empty, refs)

(* The environment of each service goes over that of its env files; then   *)
(* the project is made.                                                    *)
Finish ==
    /\ pc = "extends" /\ chain = NoChain /\ left = {}
    /\ merged' = [merged EXCEPT !.services =
           [n \in DOMAIN @ |-> [@[n] EXCEPT !.environment = @ @@ loadServiceEnvFiles(merged.services[n].envFile)]]]
    /\ pc' = "done"
    /\ UNCHANGED <<disk, next, stack, left, chain>>

Returned == pc \in {"done", "error"} /\ UNCHANGED vars

Step ==
    \/ ReadComposeFile \/ ReadInclude \/ MergeInclude \/ MergeComposeFile \/ FilesMerged
    \/ \E n \in left : ExtendBegins(n)
    \/ ExtendReads \/ ExtendFails \/ ExtendReturns
    \/ Finish

Next == Step \/ Returned

(* Parse is one sequential call, which the runtime goes on with.           *)
Spec == Init /\ [][Next]_vars
FairSpec == Spec /\ WF_vars(Step)

-----------------------------------------------------------------------------
(* The reference: each service as one list of definitions, of which the    *)
(* later go over the earlier.                                              *)

(* A file is reached along a path: the number of a compose file, then of   *)
(* an include in each file on the way.                                     *)
At(path) ==
    FoldLeft(LAMBDA at, i :
                 LET inc == disk[at.file].include[i]
                     dir == Dir(at.file)
                 IN  [file |-> Join(dir, inc.path),
                      env |-> IF inc.envFile = "" THEN at.env ELSE EnvText[Join(dir, inc.envFile)] @@ at.env],
             [file |-> ComposeFiles[Head(path)], env |-> envVars], Tail(path))

Breadth == {Len(ComposeFiles)} \cup {Len(disk[f].include) : f \in {g \in Files : Readable(g)}}

(* The paths to readable files that take at most Limit + 1 includes, and   *)
(* their order in the text, where includes follow the includer.            *)
Paths ==
    {p \in UNION {[1..k -> 1..Max(Breadth)] : k \in 1..(Limit + 2)} :
        \A k \in 1..Len(p) :
            /\ p[k] <= IF k = 1 THEN Len(ComposeFiles) ELSE Len(disk[At(SubSeq(p, 1, k - 1)).file].include)
            /\ Readable(At(SubSeq(p, 1, k)).file)}

Earlier(p, q) ==
    \/ IsStrictPrefix(p, q)
    \/ \E k \in DOMAIN p \cap DOMAIN q : p[k] < q[k] /\ \A j \in 1..(k - 1) : p[j] = q[j]

Documents ==
    LET paths == Paths
        place(p) == Cardinality({q \in paths : Earlier(q, p)}) + 1
    IN  [i \in 1..Cardinality(paths) |->
            LET at == At(CHOOSE p \in paths : place(p) = i) IN parseFile(at.file, at.env)]

Definitions(docs, n) ==
    LET own == SelectSeq(docs, LAMBDA d : n \in DOMAIN d.services)
    IN  [i \in DOMAIN own |-> own[i].services[n]]

(* The services above one that says `extends e', nearest first, as far as  *)
(* they can be found, and the whole of them if it is complete.             *)
Above(e) ==
    LET above[k \in 0..(Limit + 1)] ==
            IF k = 0 THEN [dir |-> ProjectDir, ext |-> e, found |-> <<>>]
            ELSE LET a == above[k - 1]
                     f == Join(a.dir, a.ext.file)
                 IN  IF \/ a.ext = NoExtends
                        \/ ~Readable(f)
                        \/ a.ext.service \notin DOMAIN disk[f].services
                     THEN a
                     ELSE LET svc == parseFile(f, envVars).services[a.ext.service]
                          IN  [dir |-> Dir(f), ext |-> svc.extends, found |-> Append(a.found, svc)]
    IN  above[Limit + 1]

LastOf(defs, field, unset) ==
    LET set == SelectSeq(defs, LAMBDA d : d[field] # unset) IN IF set = <<>> THEN unset ELSE Last(set)[field]

(* A service as the compose files mean it.                                 *)
Meant(docs, n) ==
    LET defs == Reverse(Above(Definitions(docs, n)[1].extends).found) \o Definitions(docs, n)
        envFile == LastOf(defs, "envFile", <<>>)
        fromFiles == [i \in DOMAIN envFile |-> EnvText[Join(ProjectDir, envFile[i])]]
        environments == fromFiles \o [i \in DOMAIN defs |-> defs[i].environment]
        keys == UNION {DOMAIN environments[i] : i \in DOMAIN environments}
    IN  [image |-> LastOf(defs, "image", ""),
         ports |-> FlattenSeq([i \in DOMAIN defs |-> defs[i].ports]),
         environment |-> [k \in keys |->
             Last(SelectSeq(environments, LAMBDA e : k \in DOMAIN e))[k]],
         envFile |-> envFile,
         extends |-> NoExtends]

Named(docs) == UNION {DOMAIN docs[i].services : i \in DOMAIN docs}

Broken(docs) ==
    \/ \E i \in DOMAIN ComposeFiles : ~Readable(ComposeFiles[i])
    \/ \E n \in Named(docs) : Above(Definitions(docs, n)[1].extends).ext # NoExtends

(* Parse fails only for a compose file that cannot be read and an extends  *)
(* that leads nowhere, in a circle or too far, whichever service is taken  *)
(* first; otherwise the project has the services and volumes of every file *)
(* within the limit, circular includes or not, each with what its          *)
(* definitions say in the order of the text, parents first                 *)
(* (parser.go:76-167, 171-203, 284-370).                                   *)
ParseIsReference ==
    LET docs == Documents
        volumes == UNION {DOMAIN docs[i].volumes : i \in DOMAIN docs}
    IN  /\ pc = "error" => Broken(docs)
        /\ pc = "done" =>
              /\ ~Broken(docs)
              /\ merged.services = [n \in Named(docs) |-> Meant(docs, n)]
              /\ merged.volumes = [v \in volumes |->
                     Last(SelectSeq(docs, LAMBDA d : v \in DOMAIN d.volumes)).volumes[v]]

(* Every parse returns, circular includes and extends or not               *)
(* (parser.go:172, 344).                                                   *)
ParseEnds == <>(pc \in {"done", "error"})
=============================================================================
