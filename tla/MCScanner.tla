----------------------------- MODULE MCScanner -----------------------------
(* A root and four directories in every shape of tree, with every single   *)
(* link and every pair of links from directory 1 to the first four.        *)
(* Directory 4 has an ignored name, so the deepest tree that is walked has *)
(* a depth of 3.                                                           *)
EXTENDS Scanner

MCDirs == 0..4
MCParents == {p \in [MCDirs \ {0} -> MCDirs] : \A d \in MCDirs \ {0} : p[d] < d}
MCTargets == MCDirs \cup {9}
MCLinks == {{}} \cup {{<<d, t>>} : d \in MCDirs, t \in MCTargets}
                \cup {{<<1, t>>, <<1, u>>} : t, u \in 0..3}
MCLayouts == [parent : MCParents, links : MCLinks]
MCIno == [d \in MCDirs |-> d + 10]
MCFiles == [d \in MCDirs |-> CASE d = 0 -> <<>>
                               [] d = 1 -> <<"compose.override.yml", "compose.yml">>
                               [] OTHER -> <<"docker-compose.yml">>]
=============================================================================
