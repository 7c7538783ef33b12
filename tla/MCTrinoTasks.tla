---------------------------- MODULE MCTrinoTasks ----------------------------
(* Instances of TrinoTasks for TLC. *)
EXTENDS TrinoTasks
=============================================================================
