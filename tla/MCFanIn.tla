------------------------------ MODULE MCFanIn ------------------------------
(* Instances of the fan-in for TLC: three subtasks. *)
EXTENDS FanIn

CONSTANTS x, y, z

MCSubtask == {x, y, z}
=============================================================================
