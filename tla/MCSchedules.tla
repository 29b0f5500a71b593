---------------------------- MODULE MCSchedules ----------------------------
(* Small instances of Schedules for TLC. *)
EXTENDS Schedules

NoTime == -1
EveryTick == [s \in Standing |-> 1 .. MaxTime]
=============================================================================
