----------------------------- MODULE BronzeJob -----------------------------
(***************************************************************************)
(* config/spark/jobs/bronze_from_kafka.py: one availableNow micro-batch    *)
(* copies everything the topic holds at query start behind the bronze      *)
(* table, then the job checks the whole table for a Kafka coordinate that  *)
(* occurs twice.                                                           *)
(*                                                                         *)
(* Structured Streaming writes the range of a batch to its checkpoint      *)
(* before it runs the batch and marks the batch committed after it; in     *)
(* between, a crash makes the next query run the same range again.  The    *)
(* Iceberg sink recognises a batch it has already committed by the query's *)
(* id and the batch number, both kept in the checkpoint.                   *)
(*                                                                         *)
(* A bronze row is its Kafka offset: the content is the topic's record.    *)
(***************************************************************************)
EXTENDS PipelineRun, CdcSource

CONSTANT MaxLosses    \* bound: losses of the bronze checkpoint

ASSUME MaxLossesAssumption == MaxLosses \in Nat

VARIABLES bronze,     \* the offsets of the table's rows, in the order appended
          bCkpt,      \* every offset up to this one is in a committed batch
          bPlan,      \* the batch under way ends here; none when it is bCkpt
          bTarget,    \* the end of the topic when the query started
          bSinkDone,  \* the sink has committed the batch that ends at bPlan
          losses

bronzeVars == <<bronze, bCkpt, bPlan, bTarget, bSinkDone, losses>>

BronzeTypeOK ==
    /\ bronze \in Seq(Nat)
    /\ \A p \in DOMAIN bronze : bronze[p] \in DOMAIN topic
    /\ bCkpt \in 0..bPlan
    /\ bPlan \in 0..Len(topic)
    /\ bTarget \in 0..Len(topic)
    /\ bSinkDone \in BOOLEAN
    /\ losses \in Nat

BronzeInit ==
    /\ bronze = << >>
    /\ bCkpt = 0
    /\ bPlan = 0
    /\ bTarget = 0
    /\ bSinkDone = FALSE
    /\ losses = 0

BronzeStart ==
    /\ At("bronze_load", "start")
    /\ bTarget' = Len(topic)
    /\ GoTo("plan")
    /\ UNCHANGED <<bronze, bCkpt, bPlan, bSinkDone, losses>>

\* A batch the last query left unfinished runs again, with its old range.
BronzeResumeBatch ==
    /\ At("bronze_load", "plan")
    /\ bCkpt < bPlan
    /\ GoTo("append")
    /\ UNCHANGED bronzeVars

\* Mutant: the sink takes the next batch for the one it committed last.
MutantSinkKeepsBatch ==
    /\ At("bronze_load", "plan")
    /\ bCkpt = bPlan
    /\ bCkpt < bTarget
    /\ bPlan' = bTarget
    /\ GoTo("append")
    /\ UNCHANGED <<bronze, bCkpt, bTarget, bSinkDone, losses>>

BronzePlanBatch ==
    /\ At("bronze_load", "plan")
    /\ bCkpt = bPlan
    /\ bCkpt < bTarget
    /\ bPlan' = bTarget
    /\ bSinkDone' = FALSE
    /\ GoTo("append")
    /\ UNCHANGED <<bronze, bCkpt, bTarget, losses>>

BronzeDrained ==
    /\ At("bronze_load", "plan")
    /\ bCkpt = bPlan
    /\ bCkpt >= bTarget
    /\ GoTo("check")
    /\ UNCHANGED bronzeVars

BronzeBatch == (bCkpt + 1)..bPlan

\* mask_pii_fields takes the value apart as an object: on a JSON value that is
\* none, its .get raises an AttributeError, which it does not catch.
Maskable(o) == topic[o].kind # "non_object"

\* The sink's commit is one Iceberg append.
BronzeAppend ==
    /\ At("bronze_load", "append")
    /\ \A o \in BronzeBatch : Maskable(o)
    /\ bronze' = IF bSinkDone THEN bronze
                 ELSE bronze \o [i \in 1..(bPlan - bCkpt) |-> bCkpt + i]
    /\ bSinkDone' = TRUE
    /\ GoTo("commit")
    /\ UNCHANGED <<bCkpt, bPlan, bTarget, losses>>

\* The mask UDF fails the query; nothing of the batch is appended.
BronzeMaskFails ==
    /\ At("bronze_load", "append")
    /\ \E o \in BronzeBatch : ~Maskable(o)
    /\ Fail
    /\ UNCHANGED bronzeVars

\* Mutant: the checkpoint names the offset to read next, not the last one read.
MutantCommitOneAhead ==
    /\ At("bronze_load", "commit")
    /\ bCkpt' = bPlan + 1
    /\ GoTo("plan")
    /\ UNCHANGED <<bronze, bPlan, bTarget, bSinkDone, losses>>

BronzeCommit ==
    /\ At("bronze_load", "commit")
    /\ bCkpt' = bPlan
    /\ GoTo("plan")
    /\ UNCHANGED <<bronze, bPlan, bTarget, bSinkDone, losses>>

\* Mutant: the check reads as many rows as the last query could append.
MutantReplayedInTail ==
    \E i, j \in (Len(bronze) - bTarget + 1)..Len(bronze) : i # j /\ bronze[i] = bronze[j]

\* The check reads the whole table, not what this run appended.
Replayed == \E i, j \in DOMAIN bronze : i # j /\ bronze[i] = bronze[j]

\* assert_no_replayed_offsets
BronzeCheckPasses ==
    /\ At("bronze_load", "check")
    /\ ~Replayed
    /\ Succeed("silver_transform")
    /\ UNCHANGED bronzeVars

BronzeCheckFails ==
    /\ At("bronze_load", "check")
    /\ Replayed
    /\ Fail
    /\ UNCHANGED bronzeVars

\* Checkpoints live in a bucket of their own; losing it loses the batch, the
\* query's id and with it the sink's memory.  The query that finds no checkpoint
\* starts from the earliest offset (startingOffsets=earliest).  A query that is
\* under way when the bucket goes dies with it.
LoseBronzeCheckpoint ==
    /\ losses < MaxLosses
    /\ losses' = losses + 1
    /\ bCkpt' = 0
    /\ bPlan' = 0
    /\ bSinkDone' = FALSE
    /\ IF task = "bronze_load" /\ pc \in {"plan", "append", "commit"}
         THEN Fail
         ELSE UNCHANGED runVars
    /\ UNCHANGED <<bronze, bTarget>>

BronzeNext ==
    \/ BronzeStart \/ BronzeResumeBatch \/ BronzePlanBatch \/ BronzeDrained
    \/ BronzeAppend \/ BronzeMaskFails \/ BronzeCommit
    \/ BronzeCheckPasses \/ BronzeCheckFails
=============================================================================
