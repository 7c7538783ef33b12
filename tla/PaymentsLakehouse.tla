------------------------- MODULE PaymentsLakehouse -------------------------
(***************************************************************************)
(* The change-data pipeline from the source database to the gold table:    *)
(* CdcSource feeds BronzeJob, SilverJob and GoldJob, which PipelineRun     *)
(* runs one after the other.  The source and the connector go on working   *)
(* while the jobs run, and any job can die between two of its steps.       *)
(***************************************************************************)
EXTENDS GoldJob

vars == <<sourceVars, runVars, bronzeVars, silverVars, goldVars>>

TypeOK ==
    /\ SourceTypeOK
    /\ RunTypeOK
    /\ BronzeTypeOK
    /\ SilverTypeOK
    /\ GoldTypeOK

Init ==
    /\ SourceInit
    /\ RunInit
    /\ BronzeInit
    /\ SilverInit
    /\ GoldInit

Environment ==
    \/ SourceNext /\ UNCHANGED <<runVars, bronzeVars, silverVars, goldVars>>
    \/ LoseBronzeCheckpoint /\ UNCHANGED <<sourceVars, silverVars, goldVars>>
    \/ LoseSilverCheckpoint
       /\ UNCHANGED <<sourceVars, bronze, bCkpt, bPlan, bTarget, bSinkDone, goldVars>>
    \/ Crash /\ UNCHANGED <<sourceVars, bronzeVars, silverVars, goldVars>>

Pipeline ==
    \/ TriggerRun /\ UNCHANGED <<sourceVars, bronzeVars, silverVars, goldVars>>
    \/ BronzeNext /\ UNCHANGED <<sourceVars, silverVars, goldVars>>
    \/ SilverNext /\ UNCHANGED <<sourceVars, bronzeVars, goldVars>>
    \/ GoldOverwrite /\ UNCHANGED <<sourceVars, bronzeVars, silverVars>>

Next == Environment \/ Pipeline

Spec == Init /\ [][Next]_vars

(***************************************************************************)
(* Fairness: the connector publishes what is committed, runs are triggered *)
(* again and again, and a job that can take a step takes it.  The source   *)
(* need not write, and nothing has to crash.                               *)
(***************************************************************************)
Fairness ==
    /\ WF_vars(Publish /\ UNCHANGED <<runVars, bronzeVars, silverVars, goldVars>>)
    /\ WF_vars(Pipeline)

FairSpec == Spec /\ Fairness

-----------------------------------------------------------------------------
\* What has been merged into silver: the positions 1..auxMerged of bronze.

Merged == 1..auxMerged
IsChange(p) == RecordAt(p).kind = "change"
SameKey(p, q) == IsChange(q) /\ EventAt(q).key = EventAt(p).key

\* p holds the newest change of its payment: none that was merged has a higher LSN.
Newest(p) == /\ IsChange(p)
             /\ \A q \in Merged : SameKey(p, q) => EventAt(q).lsn <= EventAt(p).lsn

\* p holds the change of its payment that reached bronze last.
Last(p) == \A q \in Merged : SameKey(p, q) => q <= p

(***************************************************************************)
(* If the newest change merged for a payment is an upsert, silver holds    *)
(* exactly its row: no older change, redelivered or run again after a      *)
(* crash, replaces it, and no mix of two versions arises                   *)
(* (silver_merge_sql's guards, _build_changes' choice per payment).        *)
(***************************************************************************)
NewestUpsertStands ==
    \A p \in Merged :
        Newest(p) /\ EventAt(p).op \in UpsertOps
            => silver[EventAt(p).key] = [lsn |-> EventAt(p).lsn, row |-> EventAt(p).row]

(***************************************************************************)
(* If the newest change of a payment is a delete and also the last one     *)
(* that was delivered, silver has no row for it.                           *)
(***************************************************************************)
NewestDeleteStands ==
    \A p \in Merged :
        Newest(p) /\ Last(p) /\ EventAt(p).op = "d" => silver[EventAt(p).key] = Absent

(***************************************************************************)
(* The claim of docs/architecture-lakehouse.md that re-applying old events *)
(* cannot regress state, for deleted payments: once the newest change of a *)
(* payment is a delete that was merged, silver has no row for it.  The     *)
(* insert branch of the MERGE, which has nothing to compare with, breaks   *)
(* it.                                                                     *)
(***************************************************************************)
DeletedStaysDeleted ==
    \A p \in Merged :
        Newest(p) /\ EventAt(p).op = "d" => silver[EventAt(p).key] = Absent

(***************************************************************************)
(* The known limitation of docs/design.md:100, that a payment deleted and  *)
(* created again in one micro-batch ends deleted.  The code is better than *)
(* that: the window keeps the later of the two.  Not checked by a run: see *)
(* README, Known disagreements.                                            *)
(***************************************************************************)
RecreatedInOneBatchIsDeleted ==
    [][SilverMerge =>
          \A p, q \in SilverBatch :
              /\ IsChange(p) /\ SameKey(p, q)
              /\ EventAt(p).op = "d" /\ EventAt(q).op = "c"
              /\ EventAt(p).lsn < EventAt(q).lsn
                  => silver'[EventAt(p).key] = Absent]_vars

(***************************************************************************)
(* A row of silver only ever gives way to a change with a higher LSN of    *)
(* the same payment: to that change's columns or, for a delete, to none.   *)
(***************************************************************************)
GivesWay(k) ==
    \E n \in (silver[k].lsn + 1)..Len(wal) :
        /\ wal[n].key = k
        /\ silver'[k] = IF wal[n].op = "d" THEN Absent ELSE [lsn |-> n, row |-> wal[n].row]

NeverRegresses ==
    [][\A k \in Keys : silver[k] # Absent /\ silver'[k] # silver[k] => GivesWay(k)]_vars

(***************************************************************************)
(* A batch that runs again because its job died between the MERGE and the  *)
(* checkpoint changes nothing: silver changes only when a batch that was   *)
(* never merged is.  (A lost checkpoint is another matter.)                *)
(***************************************************************************)
RetriedBatchChangesNothing ==
    [][silver' # silver => auxMerged < auxMerged' \/ losses > 0]_vars

(***************************************************************************)
(* Once everything committed in the source has been published and merged,  *)
(* silver is the source's payments table, whatever was redelivered,        *)
(* retried or replayed on the way.                                         *)
(***************************************************************************)
CaughtUp ==
    /\ sent = Len(wal)
    /\ \A o \in DOMAIN topic : \E p \in Merged : bronze[p] = o

MatchesSource(k) ==
    IF db[k] = Absent THEN silver[k] = Absent
    ELSE silver[k] # Absent /\ silver[k].row = db[k]

CaughtUpMeansCurrent == CaughtUp => \A k \in Keys : MatchesSource(k)

(***************************************************************************)
(* A bronze table that has consumed the topic twice never reaches silver:  *)
(* assert_no_replayed_offsets stops the run first, even when the job that  *)
(* appended the duplicates died before it came to the check.               *)
(***************************************************************************)
ReplayNeverReachesSilver ==
    \A p, q \in Merged \cup 1..sPlan : bronze[p] = bronze[q] => p = q

(***************************************************************************)
(* No record disappears without a trace: what was merged and is malformed  *)
(* has a row in the DLQ, exactly one however often its batch was retried,  *)
(* and nothing else has.                                                   *)
(***************************************************************************)
Malformed(o) == topic[o].kind \in {"null_op", "non_object", "unexpected_op"}

RejectsAreKeptOnce ==
    /\ \A p \in Merged : Malformed(bronze[p]) => bronze[p] \in DOMAIN dlq
    /\ \A o \in DOMAIN dlq : Malformed(o) /\ dlq[o] = 1

(***************************************************************************)
(* No row that fails a data-quality rule is ever in silver or gold         *)
(* (_validate_upserts runs before the MERGE, in every retry of the batch). *)
(***************************************************************************)
BadRowsNeverLand ==
    /\ \A k \in Keys : silver[k] # Absent => silver[k].row \notin BadRows
    /\ \A g \in Groups : \A kr \in gold[g] : kr[2] \notin BadRows

(***************************************************************************)
(* Once the source stops changing, silver becomes its payments table and   *)
(* gold the report on it, and they stay so: jobs that die, connectors that *)
(* restart and groups that become empty do not keep the lakehouse from     *)
(* converging.                                                             *)
(***************************************************************************)
EventuallyCurrent ==
    <>[]((\A k \in Keys : MatchesSource(k)) /\ gold = Aggregate(silver))

(***************************************************************************)
(* The claim of mask_pii_fields (payment_rules.py:51-53) that one bad      *)
(* record does not fail the micro-batch: every record of the topic comes   *)
(* into bronze.                                                            *)
(***************************************************************************)
EveryRecordReachesBronze ==
    \A o \in 1..(MaxWal + MaxOthers) :
        (o \in DOMAIN topic) ~> (\E p \in DOMAIN bronze : bronze[p] = o)

(***************************************************************************)
(* Checkpoints leave no gap: all that is committed has been merged, and    *)
(* the batch under way, when there is one, ends at or past the last row    *)
(* merged, so that merging it extends the merged rows, also after a crash  *)
(* between MERGE and commit and after a lost checkpoint.                   *)
(***************************************************************************)
InSilver(steps) == task = "silver_transform" /\ pc \in steps

BatchesLeaveNoGap ==
    /\ sCkpt <= auxMerged
    /\ sCkpt < sPlan => auxMerged <= sPlan
    /\ InSilver({"dlq_null_op", "dlq_unexpected_op", "validate", "merge", "commit"})
           => sCkpt < sPlan
    /\ InSilver({"commit"}) => auxMerged = sPlan
    /\ InSilver(Steps \ {"start"}) => auxMerged <= sTarget /\ sPlan <= sTarget

(***************************************************************************)
(* No row of silver is invented: its columns and its LSN are those of one  *)
(* upsert of that payment that was merged.                                 *)
(***************************************************************************)
RowsComeFromChanges ==
    \A k \in Keys : silver[k] # Absent =>
        \E p \in Merged :
            /\ IsChange(p)
            /\ EventAt(p).key = k
            /\ EventAt(p).op \in UpsertOps
            /\ silver[k] = [lsn |-> EventAt(p).lsn, row |-> EventAt(p).row]

-----------------------------------------------------------------------------
(***************************************************************************)
(* With a connector that never redelivers, silver is at every moment the   *)
(* source's table at one position of the WAL, and gold the report on one   *)
(* such table (see SourceMirror).                                          *)
(***************************************************************************)
WalPosition(n) ==
    LET lsns == {RecordAt(p).lsn : p \in {q \in 1..n : IsChange(q)}}
    IN  IF lsns = {} THEN 0 ELSE CHOOSE m \in lsns : \A l \in lsns : l <= m

Mirror == INSTANCE SourceMirror
              WITH mirror <- [k \in Keys |-> IF silver[k] = Absent THEN Absent ELSE silver[k].row],
                   report <- gold,
                   pos <- WalPosition(auxMerged),
                   reported <- WalPosition(auxReported)

MirrorsSource == Mirror!Spec
=============================================================================
