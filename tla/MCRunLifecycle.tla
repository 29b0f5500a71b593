--------------------------- MODULE MCRunLifecycle ---------------------------
(* Small instances of RunLifecycle for TLC. *)
EXTENDS RunLifecycle

OneSession == [r \in Runs |-> CHOOSE s \in Sessions : TRUE]

RunsAlike == Permutations(Runs)
=============================================================================
