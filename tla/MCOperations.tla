---------------------------- MODULE MCOperations ----------------------------
(* Two projects that declare the same network and the same volume.  In p1   *)
(* the service web depends on db; p2 has a web and, without an image, a db. *)
EXTENDS Operations, TLC

CONSTANTS p1, p2, web, db, net, vol

MCSvcs == [p \in Projects |-> {web, db}]
MCDeps == [p \in Projects |-> (web :> {db}) @@ (db :> {})]
MCNoImage == [p \in Projects |-> IF p = p2 THEN {db} ELSE {}]
MCNets == [p \in Projects |-> {net}]
MCVols == [p \in Projects |-> {vol}]
MCServiceNets == [p \in Projects |-> [s \in Services |-> <<net>>]]
MCDefaultNet == [p \in Projects |-> net]
MCMounts == [p \in Projects |-> (web :> {}) @@ (db :> {vol})]
(* p1's requests name all services or only web, p2's all. *)
MCScopes == [p \in Projects |-> IF p = p1 THEN {{}, {web}} ELSE {{}}]
MCAllServices == [p \in Projects |-> {{}}]
(* The sequences of operations: p2's single one runs beside p1's. *)
MCOneOp == [p \in Projects |-> 1]
MCOps == (p1 :> 2) @@ (p2 :> 1)
=============================================================================
