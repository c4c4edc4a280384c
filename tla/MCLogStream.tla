---------------------------- MODULE MCLogStream ----------------------------
(* Two clients and logs of up to three frames; frame 2 is blank.  A frame  *)
(* of 4 bytes is too long, so that its reader goes on in the middle of it. *)
EXTENDS LogStream

MCLogs == UNION {[1..n -> {0, 1, 3}] : n \in 1..3} \cup {<<4, 1>>}
=============================================================================
