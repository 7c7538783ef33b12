----------------------------- MODULE CdcChanges -----------------------------
(***************************************************************************)
(* How silver applies a batch of change events to its table:               *)
(* _build_changes and _validate_upserts of                                 *)
(* config/spark/jobs/silver_payments.py and silver_merge_sql of            *)
(* config/spark/jobs/payment_rules.py, as functions of the batch and the   *)
(* table.                                                                  *)
(*                                                                         *)
(* An event is a record [op, key, lsn, row, offset]: the columns that      *)
(* _build_changes projects.  A table maps a payment to Absent or to a      *)
(* record [lsn, row].                                                      *)
(***************************************************************************)
EXTENDS Naturals

CONSTANTS Keys,      \* payment ids
          Rows,      \* column values of a payment
          BadRows,   \* those that fail a data-quality rule
          Absent     \* "no such row"

ASSUME BadRowsAssumption == BadRows \subseteq Rows

ASSUME AbsentAssumption ==
    /\ Absent \notin Rows
    /\ Absent \notin [lsn : Nat, row : Rows]

SilverRow == [lsn : Nat, row : Rows]
Ops == {"c", "u", "d"}    \* a snapshot read "r" is treated as "c" everywhere

UpsertOps == {"c", "u"}

\* The row_number() window: payment by payment, the highest LSN first, equal
\* LSNs by the higher Kafka offset.
Precedes(f, e) == f.lsn < e.lsn \/ (f.lsn = e.lsn /\ f.offset < e.offset)

\* Mutant: the window is ordered ascending.
MutantEarliestPerKey(events) ==
    {e \in events : \A f \in events : f.key = e.key => ~Precedes(f, e)}

LatestPerKey(events) ==
    {e \in events : \A f \in events : f.key = e.key => ~Precedes(e, f)}

\* Mutant: _validate_upserts is never called.
MutantNoQualityGate(changes) == TRUE

\* The rules describe a payment's columns: deletes are not checked.
PassesQuality(changes) ==
    \A c \in changes : c.op \in UpsertOps => c.row \notin BadRows

\* Mutants of MergeRow: the update branch without its LSN guard, the delete branch
\* without its guard, no delete branch, and an insert branch that takes deletes.
MutantUnguardedUpdate(t, s) ==
    IF s.op \in UpsertOps THEN [lsn |-> s.lsn, row |-> s.row]
    ELSE IF t # Absent /\ s.lsn <= t.lsn THEN t
    ELSE Absent

MutantUnguardedDelete(t, s) ==
    IF s.op = "d" THEN Absent
    ELSE IF t # Absent /\ s.lsn <= t.lsn THEN t
    ELSE [lsn |-> s.lsn, row |-> s.row]

MutantDeletesIgnored(t, s) ==
    IF s.op = "d" \/ (t # Absent /\ s.lsn <= t.lsn) THEN t
    ELSE [lsn |-> s.lsn, row |-> s.row]

MutantDeletesInserted(t, s) ==
    IF t # Absent /\ s.lsn <= t.lsn THEN t
    ELSE IF t = Absent \/ s.op \in UpsertOps THEN [lsn |-> s.lsn, row |-> s.row]
    ELSE Absent

\* What MERGE makes of the table's row t for the change s with the same key: both
\* WHEN MATCHED branches ask for a higher LSN, and with nothing to compare with
\* an upsert is inserted and a delete ignored.
MergeRow(t, s) ==
    IF t # Absent /\ s.lsn <= t.lsn THEN t
    ELSE IF s.op \in UpsertOps THEN [lsn |-> s.lsn, row |-> s.row]
    ELSE Absent

Merge(table, changes) ==
    [k \in DOMAIN table |->
        IF \E c \in changes : c.key = k
        THEN MergeRow(table[k], CHOOSE c \in changes : c.key = k)
        ELSE table[k]]
=============================================================================
