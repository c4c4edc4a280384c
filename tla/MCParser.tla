------------------------------ MODULE MCParser ------------------------------
(* A project of two compose files, which may include a third file, each    *)
(* other and themselves, and extend services of each other.  The third     *)
(* file is in a directory of its own, from which "up" and "side" lead to   *)
(* other files than from the project's directory.                          *)
EXTENDS Parser

MCFiles == {"main", "over", "lib", "nowhere"}

MCDir(f) == IF f = "lib" THEN "libs" ELSE "project"

MCJoin(dir, ref) ==
    CASE ref \in {"main", "over"} -> IF dir = "project" THEN ref ELSE "nowhere"
      [] ref = "lib" -> "lib"
      [] ref = "up" -> IF dir = "libs" THEN "main" ELSE "nowhere"
      [] ref = "vars" -> dir
      [] OTHER -> "nowhere"

None == [x \in {} |-> x]
Service(image, ports, env, ext, envFile) ==
    [image |-> image, ports |-> ports, environment |-> env, extends |-> ext, envFile |-> envFile]
Extends(file, service) == [file |-> file, service |-> service]
Include(path, envFile) == [path |-> path, envFile |-> envFile]

MCEnvText == [f \in {"project", "libs", "nowhere", ".env"} |->
    CASE f = ".env" -> [TAG |-> ""]
      [] f = "libs" -> [TAG |-> "lib"]
      [] f = "project" -> [k |-> "file", j |-> "file"]
      [] OTHER -> None]

MCReferences == [t \in {"${TAG}", "${TAG:-d}", "${HOME}"} |->
    IF t = "${TAG:-d}" THEN [var |-> "TAG", default |-> "d"]
    ELSE [var |-> IF t = "${TAG}" THEN "TAG" ELSE "HOME"]]

MainServices ==
    { [web |-> Service("${TAG:-d}", <<"1">>, [k |-> "main"], NoExtends, <<"vars">>)],
      [web |-> Service("${HOME}", <<"1">>, None, Extends("lib", "web"), <<>>)],
      [web |-> Service("", <<"1">>, [k |-> "main"], Extends("lib", "db"), <<>>),
       db |-> Service("db", <<>>, None, Extends("over", "web"), <<>>)] }

OverServices ==
    { [web |-> Service("", <<"2">>, [k |-> "over", i |-> "over"], NoExtends, <<>>)],
      [web |-> Service("over", <<>>, None, Extends("main", "web"), <<>>)] }

LibServices ==
    { [web |-> Service("${TAG}", <<"3">>, [k |-> "lib"], NoExtends, <<>>)],
      [web |-> Service("", <<>>, [j |-> "lib"], Extends("up", "web"), <<>>)],
      [web |-> Service("lib", <<"3">>, None, Extends("lib", "db"), <<>>),
       db |-> Service("db", <<>>, [i |-> "lib"], NoExtends, <<"vars">>)] }

MainIncludes == {<<>>, <<Include("lib", "")>>, <<Include("over", ""), Include("lib", "vars")>>}
OverIncludes == {<<>>, <<Include("main", "")>>}
LibIncludes == {<<>>, <<Include("lib", "")>>, <<Include("side", ""), Include("up", "")>>}

Docs(services, includes, volume) ==
    {[services |-> s, volumes |-> volume, include |-> i] : s \in services, i \in includes}

MCDisks ==
    {[f \in Files |-> CASE f = "main" -> m [] f = "over" -> o [] f = "lib" -> l [] OTHER -> Unreadable] :
        m \in Docs(MainServices, MainIncludes, [v |-> "main"]),
        o \in Docs(OverServices, OverIncludes, [v |-> "over"]) \cup {Unreadable},
        l \in Docs(LibServices, LibIncludes, [v |-> "lib", w |-> "lib"]) \cup {Unreadable}}

MCComposeFiles == <<"main", "over">>
MCEnvFiles == <<".env">>
MCOSEnv == [TAG |-> "os", HOME |-> "home"]
=============================================================================
