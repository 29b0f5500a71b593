--------------------------- MODULE MCEventStreams ---------------------------
(* A small instance of EventStreams for TLC. *)
EXTENDS EventStreams

FirstSession == [w \in Followers |-> CHOOSE s \in Sessions : TRUE]
=============================================================================
