---------------------------- MODULE MCSSEBroker ----------------------------
(* Up to three connections; c3 is subscribed to everything. *)
EXTENDS SSEBroker

CONSTANTS c1, c2, c3, topic, other

MCWants == [c \in Conns |-> IF c = c3 THEN {AnyTopic} ELSE {topic}]
=============================================================================
