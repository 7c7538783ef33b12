---------------------------- MODULE SourceMirror ----------------------------
(***************************************************************************)
(* What the lakehouse promises of a source that delivers each change once  *)
(* and in order: silver is a mirror of the payments table that may lag but *)
(* is never a mixture of two moments and never goes back, and gold is the  *)
(* report on the mirror at one such moment.  design.md: silver holds the   *)
(* "Current state of each payment", gold is a "Full idempotent recompute   *)
(* from silver".                                                           *)
(***************************************************************************)
EXTENDS Naturals, Sequences

CONSTANTS Keys, Rows, Absent, Groups, GroupOf

VARIABLES wal,        \* the changes of the source table
          mirror,     \* the copy of the table
          report,     \* the groups computed from the copy
          pos,        \* the mirror is the source's table after wal[1..pos]
          reported    \* the report is on the table after wal[1..reported]

vars == <<wal, mirror, report, pos, reported>>

\* The source's table after the first n changes.
StateAfter(n) ==
    [k \in Keys |->
        LET changes == {i \in 1..n : wal[i].key = k}
        IN  IF changes = {} THEN Absent
            ELSE wal[CHOOSE i \in changes : \A j \in changes : j <= i].row]

Report(table) ==
    [g \in Groups |-> {<<k, table[k]>> :
        k \in {j \in Keys : table[j] # Absent /\ GroupOf[table[j]] = g}}]

Init ==
    /\ wal = << >>
    /\ mirror = [k \in Keys |-> Absent]
    /\ report = [g \in Groups |-> {}]
    /\ pos = 0
    /\ reported = 0

SourceChanges ==
    /\ Len(wal') = Len(wal) + 1
    /\ SubSeq(wal', 1, Len(wal)) = wal
    /\ UNCHANGED <<mirror, report, pos, reported>>

Refresh ==
    /\ pos' \in pos..Len(wal)
    /\ mirror' = StateAfter(pos')
    /\ UNCHANGED <<wal, report, reported>>

Recompute ==
    /\ report' = Report(mirror)
    /\ reported' = pos
    /\ UNCHANGED <<wal, mirror, pos>>

Next == SourceChanges \/ Refresh \/ Recompute

Spec == Init /\ [][Next]_vars
=============================================================================
