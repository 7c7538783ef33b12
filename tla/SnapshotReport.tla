--------------------------- MODULE SnapshotReport ---------------------------
(***************************************************************************)
(* What the Snowflake branch promises of its fact and its report: each is  *)
(* one whole state of the payments table as some run read it, never a      *)
(* mixture of two of them, never a part of one and never empty, and as     *)
(* long as no run has been cleared no payment in the fact goes back to an  *)
(* older version.                                                          *)
(***************************************************************************)
EXTENDS Naturals

CONSTANTS Keys, Runs

VARIABLES table,    \* rows <<key, version>> of the source
          reads,    \* per run, the rows it read, {} for none
          cleared,  \* a run that had failed was taken up again
          fact,     \* the fact's payments
          report    \* the payments summed in the report

vars == <<table, reads, cleared, fact, report>>

Init ==
    /\ table = Keys \X {1}
    /\ reads = [r \in Runs |-> {}]
    /\ cleared = FALSE
    /\ fact = {} /\ report = {}

\* The source is free: what happens to it is no promise of the branch.
Change ==
    /\ table' # table
    /\ UNCHANGED <<reads, cleared, fact, report>>

ReadTable(r) ==
    /\ reads' = [reads EXCEPT ![r] = table]
    /\ UNCHANGED <<table, cleared, fact, report>>

\* What was read is thrown away before anything came of it.
Abandon(r) ==
    /\ reads' = [reads EXCEPT ![r] = {}]
    /\ UNCHANGED <<table, cleared, fact, report>>

Clear ==
    /\ cleared' = TRUE
    /\ UNCHANGED <<table, reads, fact, report>>

Forward(new) == \A row \in new, old \in fact : row[1] = old[1] => row[2] >= old[2]

Publish(r) ==
    /\ reads[r] # {}
    /\ cleared \/ Forward(reads[r])
    /\ fact' = reads[r]
    /\ UNCHANGED <<table, reads, cleared, report>>

Summarize ==
    /\ report' = fact
    /\ UNCHANGED <<table, reads, cleared, fact>>

Next ==
    \/ Change \/ Clear
    \/ \E r \in Runs : ReadTable(r) \/ Abandon(r) \/ Publish(r)
    \/ Summarize

Spec == Init /\ [][Next]_vars
=============================================================================
