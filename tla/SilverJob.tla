----------------------------- MODULE SilverJob -----------------------------
(***************************************************************************)
(* config/spark/jobs/silver_payments.py: a stream over bronze whose        *)
(* foreachBatch function, _upsert_to_silver, dead-letters the malformed    *)
(* records, validates the surviving change of each payment and merges them *)
(* into payments_silver.  The two dead-letter merges, the merge into       *)
(* silver and the checkpoint are separate commits: a job can die, or       *)
(* refuse the batch, between any two of them, and the batch then runs      *)
(* again from the start.                                                   *)
(***************************************************************************)
EXTENDS BronzeJob

VARIABLES silver,     \* payments_silver
          dlq,        \* payments_dlq: how many rows a Kafka offset has there
          sCkpt,      \* positions of bronze in committed batches: 1..sCkpt
          sPlan,      \* the batch under way ends here; none when it is sCkpt
          sTarget,    \* the end of bronze when the query started
          auxMerged   \* history: the changes merged into silver are 1..auxMerged

silverVars == <<silver, dlq, sCkpt, sPlan, sTarget, auxMerged>>

SilverTypeOK ==
    /\ silver \in [Keys -> SilverRow \cup {Absent}]
    /\ DOMAIN dlq \subseteq Nat
    /\ dlq \in [DOMAIN dlq -> Nat]
    /\ sPlan \in 0..Len(bronze)
    /\ sCkpt \in 0..sPlan
    /\ sTarget \in 0..Len(bronze)
    /\ auxMerged \in 0..Len(bronze)

SilverInit ==
    /\ silver = [k \in Keys |-> Absent]
    /\ dlq = << >>
    /\ sCkpt = 0
    /\ sPlan = 0
    /\ sTarget = 0
    /\ auxMerged = 0

SilverStart ==
    /\ At("silver_transform", "start")
    /\ sTarget' = Len(bronze)
    /\ GoTo("plan")
    /\ UNCHANGED <<silver, dlq, sCkpt, sPlan, auxMerged>>

\* Mutant: the range of the unfinished batch is not kept.
MutantResumeSmaller ==
    /\ At("silver_transform", "plan")
    /\ sCkpt < sPlan
    /\ sPlan' = sCkpt + 1
    /\ GoTo("dlq_null_op")
    /\ UNCHANGED <<silver, dlq, sCkpt, sTarget, auxMerged>>

\* A batch the last query left unfinished runs again, with its old range.
SilverResumeBatch ==
    /\ At("silver_transform", "plan")
    /\ sCkpt < sPlan
    /\ GoTo("dlq_null_op")
    /\ UNCHANGED silverVars

\* Mutant: a batch is committed before it is processed.
MutantCommitFirst ==
    /\ At("silver_transform", "plan")
    /\ sCkpt = sPlan
    /\ sCkpt < sTarget
    /\ sPlan' = sTarget
    /\ sCkpt' = sTarget
    /\ GoTo("dlq_null_op")
    /\ UNCHANGED <<silver, dlq, sTarget, auxMerged>>

SilverPlanBatch ==
    /\ At("silver_transform", "plan")
    /\ sCkpt = sPlan
    /\ sCkpt < sTarget
    /\ sPlan' = sTarget
    /\ GoTo("dlq_null_op")
    /\ UNCHANGED <<silver, dlq, sCkpt, sTarget, auxMerged>>

SilverDrained ==
    /\ At("silver_transform", "plan")
    /\ sCkpt = sPlan
    /\ sCkpt >= sTarget
    /\ Succeed("gold_transform")
    /\ UNCHANGED silverVars

SilverBatch == (sCkpt + 1)..sPlan

RecordAt(p) == topic[bronze[p]]

\* The Kafka offsets of the batch's records of one kind.
OffsetsOf(kind) == {bronze[p] : p \in {q \in SilverBatch : RecordAt(q).kind = kind}}

\* Mutant: rejects are appended, not merged.
MutantDlqAppend(offsets) ==
    [o \in DOMAIN dlq \cup offsets |->
        IF o \notin DOMAIN dlq THEN 1 ELSE IF o \in offsets THEN dlq[o] + 1 ELSE dlq[o]]

\* dlq_merge_sql: keyed on the Kafka coordinates, so that a batch that runs
\* again updates its rejects.
DlqMerge(offsets) ==
    [o \in DOMAIN dlq \cup offsets |-> IF o \in DOMAIN dlq THEN dlq[o] ELSE 1]

SilverDlqNullOp ==
    /\ At("silver_transform", "dlq_null_op")
    /\ dlq' = DlqMerge(OffsetsOf("null_op") \cup OffsetsOf("non_object"))
    /\ GoTo("dlq_unexpected_op")
    /\ UNCHANGED <<silver, sCkpt, sPlan, sTarget, auxMerged>>

SilverDlqUnexpectedOp ==
    /\ At("silver_transform", "dlq_unexpected_op")
    /\ dlq' = DlqMerge(OffsetsOf("unexpected_op"))
    /\ GoTo("validate")
    /\ UNCHANGED <<silver, sCkpt, sPlan, sTarget, auxMerged>>

\* The columns _build_changes takes from the record at position p of bronze.
EventAt(p) ==
    LET n == RecordAt(p).lsn
    IN  [op |-> wal[n].op, key |-> wal[n].key, lsn |-> n, row |-> wal[n].row,
         offset |-> bronze[p]]

\* Mutant: the key is read from "after" alone, which a delete has not got.
MutantDeletesHaveNoKey(positions) ==
    {EventAt(p) : p \in {q \in positions : RecordAt(q).kind = "change" /\ EventAt(q).op # "d"}}

\* Tombstones and dead letters are filtered out before the projection.
Events(positions) ==
    {EventAt(p) : p \in {q \in positions : RecordAt(q).kind = "change"}}

BatchChanges == LatestPerKey(Events(SilverBatch))

SilverNothingToApply ==
    /\ At("silver_transform", "validate")
    /\ BatchChanges = {}
    /\ GoTo("commit")
    /\ auxMerged' = sPlan
    /\ UNCHANGED <<silver, dlq, sCkpt, sPlan, sTarget>>

SilverValidate ==
    /\ At("silver_transform", "validate")
    /\ BatchChanges # {}
    /\ PassesQuality(BatchChanges)
    /\ GoTo("merge")
    /\ UNCHANGED silverVars

\* One bad row fails the whole batch; its dead letters stay.
SilverValidateFails ==
    /\ At("silver_transform", "validate")
    /\ ~PassesQuality(BatchChanges)
    /\ Fail
    /\ UNCHANGED silverVars

SilverMerge ==
    /\ At("silver_transform", "merge")
    /\ silver' = Merge(silver, BatchChanges)
    /\ auxMerged' = sPlan
    /\ GoTo("commit")
    /\ UNCHANGED <<dlq, sCkpt, sPlan, sTarget>>

SilverCommit ==
    /\ At("silver_transform", "commit")
    /\ sCkpt' = sPlan
    /\ GoTo("plan")
    /\ UNCHANGED <<silver, dlq, sPlan, sTarget, auxMerged>>

\* As for bronze; the silver stream's checkpoint is another path of that bucket.
\* The next query takes the whole bronze table for new.
LoseSilverCheckpoint ==
    /\ losses < MaxLosses
    /\ losses' = losses + 1
    /\ sCkpt' = 0
    /\ sPlan' = 0
    /\ IF task = "silver_transform" /\ pc # "start"
         THEN Fail
         ELSE UNCHANGED runVars
    /\ UNCHANGED <<silver, dlq, sTarget, auxMerged>>

SilverNext ==
    \/ SilverStart \/ SilverResumeBatch \/ SilverPlanBatch \/ SilverDrained
    \/ SilverDlqNullOp \/ SilverDlqUnexpectedOp
    \/ SilverNothingToApply \/ SilverValidate \/ SilverValidateFails
    \/ SilverMerge \/ SilverCommit
=============================================================================
