--------------------------- MODULE MCSnowflakeRuns ---------------------------
(***************************************************************************)
(* Small instances of SnowflakeRuns for TLC: two payments, one or two runs *)
(* and a few changes and faults of each kind.                              *)
(***************************************************************************)
EXTENDS SnowflakeRuns

CONSTANT NKeys

MCKeys == 1 .. NKeys
=============================================================================
