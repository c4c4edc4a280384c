--------------------------- MODULE MCEventStream ---------------------------
(* Four events, of which two belong to a project, over three connections   *)
(* with a channel of two places.                                           *)
EXTENDS EventStream
=============================================================================
