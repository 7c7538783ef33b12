------------------------ MODULE LakehouseClaimsProofs ------------------------
(***************************************************************************)
(* More theorems about PaymentsLakehouse, on top of the inductive          *)
(* invariant IInv of PaymentsLakehouseProofs: what the replay check keeps  *)
(* from silver, where rejects and bad rows end, what a retried batch       *)
(* changes, that silver is the source's table once it has caught up, and   *)
(* that without redelivery it is one at every moment (SourceMirror).       *)
(* Each has an invariant of its own, which speaks of the batch under way.  *)
(***************************************************************************)
EXTENDS PaymentsLakehouseProofs

\* A step in which nothing happens to silver, and its job is not in a batch
\* after it that it was not in before.
Quiet ==
    /\ UNCHANGED silverVars
    /\ UNCHANGED <<task, pc>> \/ task' # "silver_transform" \/ pc' = "start"

SilverSteps == SilverNext /\ UNCHANGED <<sourceVars, bronzeVars, goldVars>>

SilverLoses ==
    /\ LoseSilverCheckpoint
    /\ UNCHANGED <<sourceVars, bronze, bCkpt, bPlan, bTarget, bSinkDone, goldVars>>

LEMMA StepKinds ==
    ASSUME [Next]_vars
    PROVE  Quiet \/ SilverSteps \/ SilverLoses
<1>1. CASE Environment
  BY <1>1 DEF Environment, Quiet, SilverLoses, runVars, LoseBronzeCheckpoint, Crash, Fail
<1>2. CASE BronzeNext /\ UNCHANGED <<sourceVars, silverVars, goldVars>>
  BY <1>2 DEF Quiet, BronzeNext, BronzeStart, BronzeResumeBatch, BronzePlanBatch, BronzeDrained,
              BronzeAppend, BronzeMaskFails, BronzeCommit, BronzeCheckPasses,
              BronzeCheckFails, At, GoTo, Succeed, Fail
<1>3. CASE (TriggerRun \/ GoldOverwrite) /\ UNCHANGED silverVars
  BY <1>3 DEF Quiet, TriggerRun, GoldOverwrite, Succeed
<1>4. CASE UNCHANGED vars
  BY <1>4 DEF Quiet, vars, runVars
<1> QED
  BY <1>1, <1>2, <1>3, <1>4 DEF Next, Pipeline, SilverSteps

\* A checkpoint that is lost takes the batch with it.
LEMMA LossEndsBatch ==
    ASSUME SilverLoses
    PROVE  /\ UNCHANGED <<silver, dlq, auxMerged, bronze, topic, wal>>
           /\ sCkpt' = 0 /\ sPlan' = 0
           /\ pc' = "start" \/ task' # "silver_transform"
  BY DEF SilverLoses, LoseSilverCheckpoint, Fail, runVars, sourceVars

\* The merged rows and the batch are in bronze.
LEMMA BatchInBronze ==
    ASSUME IInv
    PROVE  /\ DOMAIN bronze = 1..Len(bronze) /\ Len(bronze) \in Nat
           /\ sCkpt \in Nat /\ sPlan \in 0..Len(bronze) /\ sTarget \in 0..Len(bronze)
           /\ auxMerged \in 0..Len(bronze)
           /\ Merged \subseteq DOMAIN bronze
           /\ SilverBatch \subseteq DOMAIN bronze
<1>1. DOMAIN bronze = 1..Len(bronze) /\ Len(bronze) \in Nat
  BY DEF IInv, BronzeTypeOK
<1>2. sCkpt \in Nat /\ sPlan \in 0..Len(bronze) /\ sTarget \in 0..Len(bronze)
      /\ auxMerged \in 0..Len(bronze)
  BY <1>1 DEF IInv, SilverOK, SilverTypeOK
<1> QED
  BY <1>1, <1>2 DEF Merged, SilverBatch

\* A row of bronze goes on being the record it was.
LEMMA RecordsStable ==
    ASSUME IInv, HistoryGrows, NEW p \in DOMAIN bronze
    PROVE  /\ bronze'[p] = bronze[p]
           /\ RecordAt(p)' = RecordAt(p)
<1>1. bronze'[p] = bronze[p] /\ bronze[p] \in DOMAIN topic
  BY DEF HistoryGrows, Extends, IInv, BronzeTypeOK
<1> QED
  BY <1>1 DEF HistoryGrows, Extends, RecordAt

\* As long as the batch stays the same, so do the changes in it.
LEMMA ChangesStable ==
    ASSUME IInv, HistoryGrows, UNCHANGED <<sCkpt, sPlan>>
    PROVE  SilverBatch' = SilverBatch /\ BatchChanges' = BatchChanges
<1>1. SilverBatch' = SilverBatch
  BY DEF SilverBatch
<1>2. \A p \in SilverBatch :
        /\ RecordAt(p)' = RecordAt(p)
        /\ RecordAt(p).kind = "change" => EventAt(p)' = EventAt(p)
  BY BatchInBronze, RecordsStable, EventsStable DEF IInv, IsChange
<1>3. Events(SilverBatch)' = Events(SilverBatch)
  BY <1>1, <1>2 DEF Events
<1> QED
  BY <1>1, <1>3 DEF BatchChanges, LatestPerKey

-----------------------------------------------------------------------------
(***************************************************************************)
(* Replays.  The check has just looked at the whole table whenever silver  *)
(* runs, and only bronze_load appends to it.                               *)
(***************************************************************************)
Distinct(n) == \A p, q \in 1..n : bronze[p] = bronze[q] => p = q

ReplayInv ==
    /\ task = "silver_transform" => Distinct(Len(bronze))
    /\ Distinct(auxMerged) /\ Distinct(sPlan)

LEMMA DistinctStays ==
    ASSUME IInv, HistoryGrows, NEW n \in 0..Len(bronze), Distinct(n)
    PROVE  Distinct(n)'
<1>1. \A p \in 1..n : p \in DOMAIN bronze
  BY BatchInBronze
<1>2. \A p \in 1..n : bronze'[p] = bronze[p]
  BY <1>1, RecordsStable
<1> QED
  BY <1>2 DEF Distinct

LEMMA ReplayStep ==
    ASSUME IInv, [Next]_vars, ReplayInv
    PROVE  ReplayInv'
<1>1. HistoryGrows
  BY NextStep
<1>2. ASSUME task' = "silver_transform" PROVE Distinct(Len(bronze)) /\ UNCHANGED bronze
  <2>1. CASE task = "silver_transform"
    BY <2>1 DEF ReplayInv, Next, Environment, Pipeline, bronzeVars, LoseBronzeCheckpoint, TriggerRun,
                BronzeNext, BronzeStart, BronzeResumeBatch, BronzePlanBatch, BronzeDrained,
                BronzeAppend, BronzeMaskFails, BronzeCommit, BronzeCheckPasses,
                BronzeCheckFails, At, vars
  <2>2. CASE task # "silver_transform"
    <3>1. BronzeCheckPasses
      BY <1>2, <2>2
         DEF Next, Environment, Pipeline, vars, runVars, LoseBronzeCheckpoint,
             LoseSilverCheckpoint, Crash, TriggerRun, GoldOverwrite, Fail, Succeed, GoTo,
             BronzeNext, BronzeStart, BronzeResumeBatch, BronzePlanBatch, BronzeDrained,
             BronzeAppend, BronzeMaskFails, BronzeCommit, BronzeCheckFails,
             SilverNext, SilverStart, SilverResumeBatch, SilverPlanBatch, SilverDrained,
             SilverDlqNullOp, SilverDlqUnexpectedOp, SilverNothingToApply, SilverValidate,
             SilverValidateFails, SilverMerge, SilverCommit, At
    <3> QED
      BY <3>1, BatchInBronze DEF BronzeCheckPasses, Replayed, bronzeVars, Distinct
  <2> QED
    BY <2>1, <2>2
<1>3. \/ auxMerged' = auxMerged
      \/ auxMerged' = sPlan
  BY StepKinds DEF Quiet, SilverSteps, SilverLoses, LoseSilverCheckpoint, silverVars,
             SilverNext, SilverStart, SilverResumeBatch, SilverPlanBatch, SilverDrained,
             SilverDlqNullOp, SilverDlqUnexpectedOp, SilverNothingToApply, SilverValidate,
             SilverValidateFails, SilverMerge, SilverCommit
<1>4. \/ sPlan' = sPlan
      \/ sPlan' = 0
      \/ sPlan' = sTarget /\ task = "silver_transform"
  BY StepKinds DEF Quiet, SilverSteps, SilverLoses, LoseSilverCheckpoint, silverVars, At,
             SilverNext, SilverStart, SilverResumeBatch, SilverPlanBatch, SilverDrained,
             SilverDlqNullOp, SilverDlqUnexpectedOp, SilverNothingToApply, SilverValidate,
             SilverValidateFails, SilverMerge, SilverCommit
<1>5. Distinct(auxMerged)'
  <2>1. ASSUME NEW n \in 0..Len(bronze), Distinct(n), auxMerged' = n PROVE Distinct(auxMerged)'
    BY <1>1, <2>1, DistinctStays DEF Distinct
  <2> QED
    BY <1>3, <2>1, BatchInBronze DEF ReplayInv
<1>6. Distinct(sPlan)'
  <2>1. ASSUME NEW n \in 0..Len(bronze), Distinct(n), sPlan' = n PROVE Distinct(sPlan)'
    BY <1>1, <2>1, DistinctStays DEF Distinct
  <2>2. 0 \in 0..Len(bronze) /\ Distinct(0)
    BY BatchInBronze DEF Distinct
  <2>3. task = "silver_transform" => Distinct(sTarget)
    BY BatchInBronze DEF ReplayInv, Distinct
  <2> QED
    BY <1>4, <2>1, <2>2, <2>3, BatchInBronze DEF ReplayInv
<1>7. task' = "silver_transform" => Distinct(Len(bronze))'
  BY <1>2 DEF Distinct
<1> QED
  BY <1>5, <1>6, <1>7 DEF ReplayInv

(***************************************************************************)
(* A bronze table that has consumed the topic twice is noticed before any  *)
(* of its rows past the point of replay are planned or merged.             *)
(***************************************************************************)
THEOREM ReplayStopsBeforeSilver == Spec => []ReplayNeverReachesSilver
<1>1. Init => ReplayInv
  BY DEF Init, RunInit, BronzeInit, SilverInit, ReplayInv, Distinct
<1>2. IInv /\ [Next]_vars /\ ReplayInv => ReplayInv'
  BY ReplayStep
<1>3. IInv /\ ReplayInv => ReplayNeverReachesSilver
  <2> SUFFICES ASSUME IInv, ReplayInv, NEW p \in Merged \cup 1..sPlan,
                      NEW q \in Merged \cup 1..sPlan, bronze[p] = bronze[q]
               PROVE  p = q
    BY DEF ReplayNeverReachesSilver
  <2>1. CASE auxMerged <= sPlan
    <3>1. p \in 1..sPlan /\ q \in 1..sPlan
      BY <2>1, BatchInBronze DEF Merged
    <3> QED
      BY <3>1 DEF ReplayInv, Distinct
  <2>2. CASE sPlan < auxMerged
    <3>1. p \in 1..auxMerged /\ q \in 1..auxMerged
      BY <2>2, BatchInBronze DEF Merged
    <3> QED
      BY <3>1 DEF ReplayInv, Distinct
  <2> QED
    BY <2>1, <2>2, BatchInBronze
<1> QED
  BY <1>1, <1>2, <1>3, Inductive, PTL DEF Spec

-----------------------------------------------------------------------------
(***************************************************************************)
(* Bad rows.  The batch that is about to be merged has passed the rules.   *)
(***************************************************************************)
GoodRows ==
    /\ \A k \in Keys : silver[k] # Absent => silver[k].row \notin BadRows
    /\ \A g \in Groups : \A kr \in gold[g] : kr[2] \notin BadRows
    /\ At("silver_transform", "merge") => PassesQuality(BatchChanges)

LEMMA MergedRowsAreGood ==
    ASSUME IInv, GoodRows, At("silver_transform", "merge"), silver' = Merge(silver, BatchChanges)
    PROVE  \A k \in Keys : silver'[k] # Absent => silver'[k].row \notin BadRows
<1> SUFFICES ASSUME NEW k \in Keys, silver'[k] # Absent PROVE silver'[k].row \notin BadRows
  OBVIOUS
<1>1. k \in DOMAIN silver
  BY DEF IInv, SilverOK, SilverTypeOK
<1>2. CASE silver'[k] = silver[k]
  BY <1>2 DEF GoodRows
<1>3. ASSUME NEW c \in BatchChanges, silver'[k] = MergeRow(silver[k], c)
      PROVE  silver'[k].row \notin BadRows
  BY <1>3 DEF GoodRows, PassesQuality, MergeRow
<1> QED
  BY <1>1, <1>2, <1>3, MergeEffect

LEMMA GoodRowsStep ==
    ASSUME IInv, [Next]_vars, GoodRows
    PROVE  GoodRows'
<1>1. HistoryGrows
  BY NextStep
<1>2. \A k \in Keys : silver'[k] # Absent => silver'[k].row \notin BadRows
  <2>1. CASE silver' = silver
    BY <2>1 DEF GoodRows
  <2>2. CASE silver' # silver
    <3>1. SilverMerge
      BY <2>2, OnlyMergeChangesSilver DEF vars, silverVars
    <3> QED
      BY <3>1, MergedRowsAreGood DEF SilverMerge
  <2> QED
    BY <2>1, <2>2
<1>3. \A g \in Groups : \A kr \in gold'[g] : kr[2] \notin BadRows
  <2>1. gold' = gold \/ gold' = Aggregate(silver)
    BY DEF Next, Environment, Pipeline, GoldOverwrite, goldVars, vars
  <2>2. \A g \in Groups : \A kr \in Aggregate(silver)[g] : kr[2] \notin BadRows
    <3> SUFFICES ASSUME NEW g \in Groups, NEW kr \in Aggregate(silver)[g]
                 PROVE  kr[2] \notin BadRows
      OBVIOUS
    <3>1. PICK k \in DOMAIN silver : silver[k] # Absent /\ kr = <<k, silver[k].row>>
      BY DEF Aggregate
    <3> QED
      BY <3>1 DEF GoodRows, IInv, SilverOK, SilverTypeOK
  <2> QED
    BY <2>1, <2>2 DEF GoodRows
<1>4. ASSUME At("silver_transform", "merge")' PROVE PassesQuality(BatchChanges)'
  <2>1. \/ At("silver_transform", "merge") /\ UNCHANGED <<sCkpt, sPlan>>
        \/ PassesQuality(BatchChanges) /\ UNCHANGED <<sCkpt, sPlan>>
    BY <1>4, StepKinds, LossEndsBatch
       DEF Quiet, SilverSteps, silverVars, At, GoTo, Succeed, Fail,
           SilverNext, SilverStart, SilverResumeBatch, SilverPlanBatch, SilverDrained,
           SilverDlqNullOp, SilverDlqUnexpectedOp, SilverNothingToApply, SilverValidate,
           SilverValidateFails, SilverMerge, SilverCommit
  <2>2. PassesQuality(BatchChanges) /\ BatchChanges' = BatchChanges
    BY <1>1, <2>1, ChangesStable DEF GoodRows
  <2> QED
    BY <2>2 DEF PassesQuality
<1> QED
  BY <1>2, <1>3, <1>4 DEF GoodRows

(***************************************************************************)
(* No row that fails a data-quality rule is ever in silver or gold: not    *)
(* through a retried batch, and not beside good rows of the same batch.    *)
(***************************************************************************)
THEOREM BadRowsStayOut == Spec => []BadRowsNeverLand
<1>1. Init => GoodRows
  BY DEF Init, RunInit, SilverInit, GoldInit, GoodRows, At
<1>2. IInv /\ [Next]_vars /\ GoodRows => GoodRows'
  BY GoodRowsStep
<1>3. GoodRows => BadRowsNeverLand
  BY DEF GoodRows, BadRowsNeverLand
<1> QED
  BY <1>1, <1>2, <1>3, Inductive, PTL DEF Spec

-----------------------------------------------------------------------------
(***************************************************************************)
(* Rejects.  Those of the batch under way are dead-lettered kind by kind   *)
(* before it is merged; a batch that runs again finds its own.             *)
(***************************************************************************)
Kept(positions, kinds) ==
    \A p \in positions : RecordAt(p).kind \in kinds => bronze[p] \in DOMAIN dlq

Rejects == {"null_op", "non_object", "unexpected_op"}

RejectInv ==
    /\ Kept(Merged, Rejects)
    /\ \A o \in DOMAIN dlq : o \in DOMAIN topic /\ topic[o].kind \in Rejects /\ dlq[o] = 1
    /\ InSilver({"dlq_unexpected_op"}) => Kept(SilverBatch, {"null_op", "non_object"})
    /\ InSilver({"validate", "merge"}) => Kept(SilverBatch, Rejects)

\* What is kept stays kept while bronze and the DLQ grow.
LEMMA KeptStays ==
    ASSUME IInv, HistoryGrows, NEW positions, positions \subseteq DOMAIN bronze, NEW kinds,
           Kept(positions, kinds), DOMAIN dlq \subseteq DOMAIN dlq'
    PROVE  Kept(positions, kinds)'
<1>1. \A p \in positions : bronze'[p] = bronze[p] /\ RecordAt(p)' = RecordAt(p)
  BY RecordsStable
<1> QED
  BY <1>1 DEF Kept

\* A dead-letter merge keeps the batch's records of its kinds, once.
LEMMA DlqKeeps ==
    ASSUME IInv, RejectInv, NEW kinds, kinds \subseteq Rejects,
           NEW offsets,
           \A o \in offsets : \E p \in SilverBatch : bronze[p] = o /\ RecordAt(p).kind \in kinds,
           \A p \in SilverBatch : RecordAt(p).kind \in kinds => bronze[p] \in offsets,
           dlq' = DlqMerge(offsets), UNCHANGED <<topic, bronze, sCkpt, sPlan>>
    PROVE  /\ DOMAIN dlq \subseteq DOMAIN dlq'
           /\ Kept(SilverBatch, kinds)'
           /\ \A o \in DOMAIN dlq' :
                o \in DOMAIN topic' /\ topic'[o].kind \in Rejects /\ dlq'[o] = 1
<1>1. DOMAIN dlq' = DOMAIN dlq \cup offsets
  BY DEF DlqMerge
<1>2. \A o \in DOMAIN dlq' : dlq'[o] = IF o \in DOMAIN dlq THEN dlq[o] ELSE 1
  BY <1>1 DEF DlqMerge
<1>3. SilverBatch' = SilverBatch /\ \A p : RecordAt(p)' = RecordAt(p)
  BY DEF SilverBatch, RecordAt
<1>4. Kept(SilverBatch, kinds)'
  BY <1>1, <1>3 DEF Kept
<1>5. \A o \in offsets : o \in DOMAIN topic /\ topic[o].kind \in Rejects
  <2> SUFFICES ASSUME NEW p \in SilverBatch, RecordAt(p).kind \in kinds
               PROVE  bronze[p] \in DOMAIN topic /\ topic[bronze[p]].kind \in Rejects
    OBVIOUS
  <2> QED
    BY BatchInBronze DEF RecordAt, IInv, BronzeTypeOK
<1> QED
  BY <1>1, <1>2, <1>4, <1>5 DEF RejectInv

\* A step that moves neither the batch nor the merged rows, and leaves the DLQ.
LEMMA RejectFrame ==
    ASSUME IInv, IInv', HistoryGrows, RejectInv, UNCHANGED <<dlq, auxMerged>>,
           \/ /\ UNCHANGED <<sCkpt, sPlan, task>>
              /\ pc' = pc \/ (pc = "validate" /\ pc' = "merge")
           \/ ~InSilver({"dlq_unexpected_op", "validate", "merge"})'
    PROVE  RejectInv'
<1>1. Kept(Merged, Rejects)'
  <2>1. Merged' = Merged
    BY DEF Merged
  <2> QED
    BY <2>1, BatchInBronze, KeptStays DEF RejectInv, Kept
<1>2. \A o \in DOMAIN dlq' : o \in DOMAIN topic' /\ topic'[o].kind \in Rejects /\ dlq'[o] = 1
  <2> SUFFICES ASSUME NEW o \in DOMAIN dlq
               PROVE  o \in DOMAIN topic' /\ topic'[o].kind \in Rejects /\ dlq[o] = 1
    OBVIOUS
  <2>1. o \in DOMAIN topic /\ topic[o].kind \in Rejects /\ dlq[o] = 1
    BY DEF RejectInv
  <2>2. topic'[o] = topic[o] /\ Len(topic) <= Len(topic')
    BY <2>1 DEF HistoryGrows, Extends
  <2>3. o \in DOMAIN topic'
    BY <2>1, <2>2 DEF IInv, SourceOK, SourceTypeOK
  <2> QED
    BY <2>1, <2>2, <2>3
<1>3. ASSUME NEW kinds, Kept(SilverBatch, kinds), UNCHANGED <<sCkpt, sPlan>>
      PROVE  Kept(SilverBatch, kinds)'
  <2>1. SilverBatch' = SilverBatch
    BY <1>3 DEF SilverBatch
  <2> QED
    BY <1>3, <2>1, BatchInBronze, KeptStays DEF Kept
<1>4. CASE UNCHANGED <<sCkpt, sPlan, task, pc>>
  BY <1>1, <1>2, <1>3, <1>4 DEF RejectInv, InSilver
<1>5. CASE UNCHANGED <<sCkpt, sPlan, task>> /\ pc = "validate" /\ pc' = "merge"
  BY <1>1, <1>2, <1>3, <1>5 DEF RejectInv, InSilver
<1>6. CASE ~InSilver({"dlq_unexpected_op", "validate", "merge"})'
  BY <1>1, <1>2, <1>6 DEF RejectInv, InSilver
<1> QED
  BY <1>4, <1>5, <1>6

\* The rejects of a batch that is merged have been kept before.
LEMMA RejectMerge ==
    ASSUME IInv, HistoryGrows, RejectInv, UNCHANGED <<dlq, sCkpt, sPlan, topic, bronze>>,
           InSilver({"validate", "merge"}), auxMerged' = sPlan, pc' = "commit"
    PROVE  RejectInv'
<1>1. sCkpt < sPlan
  BY DEF IInv, SilverOK, BatchesLeaveNoGap, InSilver
<1>2. Merged' = Merged \cup SilverBatch
  BY <1>1, BatchIsMerged DEF IInv, SilverOK
<1>3. Kept(Merged \cup SilverBatch, Rejects)
  BY DEF RejectInv, Kept
<1>4. Kept(Merged, Rejects)'
  BY <1>2, <1>3, BatchInBronze, KeptStays DEF Kept
<1>5. \A o \in DOMAIN dlq' : o \in DOMAIN topic' /\ topic'[o].kind \in Rejects /\ dlq'[o] = 1
  BY DEF RejectInv
<1> QED
  BY <1>4, <1>5 DEF RejectInv, InSilver

LEMMA RejectStep ==
    ASSUME IInv, [Next]_vars, RejectInv
    PROVE  RejectInv'
<1>1. HistoryGrows /\ IInv'
  BY NextStep
<1>2. CASE Quiet
  BY <1>1, <1>2, RejectFrame DEF Quiet, silverVars, InSilver
<1>3. CASE SilverLoses
  BY <1>1, <1>3, LossEndsBatch, RejectFrame DEF InSilver
<1>4. CASE SilverSteps
  <2>1. CASE SilverStart \/ SilverResumeBatch \/ SilverPlanBatch \/ SilverDrained
             \/ SilverValidateFails \/ SilverCommit
    <3>1. UNCHANGED <<dlq, auxMerged>> /\ pc' \notin {"dlq_unexpected_op", "validate", "merge"}
      BY <2>1 DEF SilverStart, SilverResumeBatch, SilverPlanBatch, SilverDrained,
                  SilverValidateFails, SilverCommit, silverVars, GoTo, Succeed, Fail
    <3> QED
      BY <1>1, <3>1, RejectFrame DEF InSilver
  <2>2. CASE SilverValidate
    BY <1>1, <2>2, RejectFrame DEF SilverValidate, silverVars, At, GoTo
  <2>3. CASE SilverNothingToApply \/ SilverMerge
    BY <1>1, <1>4, <2>3, RejectMerge
       DEF SilverNothingToApply, SilverMerge, At, GoTo, InSilver, SilverSteps, sourceVars, bronzeVars
  <2>4. CASE SilverDlqNullOp
    <3> DEFINE offsets == OffsetsOf("null_op") \cup OffsetsOf("non_object")
               kinds == {"null_op", "non_object"}
    <3>1. /\ dlq' = DlqMerge(offsets) /\ pc' = "dlq_unexpected_op"
          /\ UNCHANGED <<topic, bronze, sCkpt, sPlan, auxMerged>>
      BY <1>4, <2>4 DEF SilverDlqNullOp, GoTo, SilverSteps, sourceVars, bronzeVars
    <3>2. /\ \A o \in offsets : \E p \in SilverBatch : bronze[p] = o /\ RecordAt(p).kind \in kinds
          /\ \A p \in SilverBatch : RecordAt(p).kind \in kinds => bronze[p] \in offsets
          /\ kinds \subseteq Rejects
      BY DEF OffsetsOf, Rejects
    <3> HIDE DEF offsets
    <3>3. /\ DOMAIN dlq \subseteq DOMAIN dlq'
          /\ Kept(SilverBatch, kinds)'
          /\ \A o \in DOMAIN dlq' :
                o \in DOMAIN topic' /\ topic'[o].kind \in Rejects /\ dlq'[o] = 1
      BY <3>1, <3>2, DlqKeeps
    <3>4. Merged' = Merged
      BY <3>1 DEF Merged
    <3>5. Kept(Merged, Rejects)'
      BY <1>1, <3>3, <3>4, BatchInBronze, KeptStays DEF RejectInv, Kept
    <3> QED
      BY <3>1, <3>3, <3>5 DEF RejectInv, InSilver
  <2>5. CASE SilverDlqUnexpectedOp
    <3> DEFINE offsets == OffsetsOf("unexpected_op")
               kinds == {"unexpected_op"}
    <3>1. /\ dlq' = DlqMerge(offsets) /\ pc' = "validate"
          /\ UNCHANGED <<topic, bronze, sCkpt, sPlan, auxMerged>>
          /\ InSilver({"dlq_unexpected_op"})
      BY <1>4, <2>5 DEF SilverDlqUnexpectedOp, At, GoTo, SilverSteps, sourceVars, bronzeVars, InSilver
    <3>2. /\ \A o \in offsets : \E p \in SilverBatch : bronze[p] = o /\ RecordAt(p).kind \in kinds
          /\ \A p \in SilverBatch : RecordAt(p).kind \in kinds => bronze[p] \in offsets
          /\ kinds \subseteq Rejects
      BY DEF OffsetsOf, Rejects
    <3> HIDE DEF offsets
    <3>3. /\ DOMAIN dlq \subseteq DOMAIN dlq'
          /\ Kept(SilverBatch, kinds)'
          /\ \A o \in DOMAIN dlq' :
                o \in DOMAIN topic' /\ topic'[o].kind \in Rejects /\ dlq'[o] = 1
      BY <3>1, <3>2, DlqKeeps
    <3>4. Merged' = Merged /\ SilverBatch' = SilverBatch
      BY <3>1 DEF Merged, SilverBatch
    <3>5. Kept(Merged, Rejects)'
      BY <1>1, <3>3, <3>4, BatchInBronze, KeptStays DEF RejectInv, Kept
    <3>6. Kept(SilverBatch, {"null_op", "non_object"})'
      BY <1>1, <3>1, <3>3, <3>4, BatchInBronze, KeptStays DEF RejectInv, Kept
    <3>7. Kept(SilverBatch, Rejects)'
      BY <3>3, <3>6 DEF Kept, Rejects
    <3> QED
      BY <3>1, <3>3, <3>5, <3>7 DEF RejectInv, InSilver
  <2> QED
    BY <1>4, <2>1, <2>2, <2>3, <2>4, <2>5 DEF SilverSteps, SilverNext
<1> QED
  BY <1>2, <1>3, <1>4, StepKinds

(***************************************************************************)
(* A malformed record that silver has gone past is in the DLQ, in one row, *)
(* and the DLQ has nothing else, however often batches are run again and   *)
(* checkpoints lost.                                                       *)
(***************************************************************************)
THEOREM RejectsEndInTheDlq == Spec => []RejectsAreKeptOnce
<1>1. Init => RejectInv
  BY DEF Init, RunInit, SilverInit, RejectInv, Kept, Merged, InSilver
<1>2. IInv /\ [Next]_vars /\ RejectInv => RejectInv'
  BY RejectStep
<1>3. RejectInv => RejectsAreKeptOnce
  BY DEF RejectInv, RejectsAreKeptOnce, Kept, Malformed, RecordAt, Rejects
<1> QED
  BY <1>1, <1>2, <1>3, Inductive, PTL DEF Spec

-----------------------------------------------------------------------------
(***************************************************************************)
(* Retried batches.  With its checkpoint in place, silver has merged       *)
(* either nothing of the batch under way or the batch, which then has      *)
(* nothing left to change.                                                 *)
(***************************************************************************)
Settled == Merge(silver, BatchChanges) = silver

RetryInv ==
    losses = 0 =>
        /\ auxMerged <= sPlan
        /\ sCkpt < sPlan /\ auxMerged = sPlan => Settled

LEMMA MergeTwice ==
    ASSUME IInv
    PROVE  LET once == Merge(silver, BatchChanges) IN Merge(once, BatchChanges) = once
<1> DEFINE once == Merge(silver, BatchChanges)
           chosen(k) == CHOOSE c \in BatchChanges : c.key = k
<1>1. \A c \in BatchChanges : WellFormed(c)
  BY BatchInBronze, ChangesTyped DEF IInv
<1>2. \A k \in DOMAIN silver : silver[k] \in SilverRow \cup {Absent}
  BY DEF IInv, SilverOK, SilverTypeOK
<1>3. DOMAIN once = DOMAIN silver
  BY DEF Merge
<1>4. ASSUME NEW k \in DOMAIN silver PROVE Merge(once, BatchChanges)[k] = once[k]
  <2>1. CASE \E c \in BatchChanges : c.key = k
    <3>1. chosen(k) \in BatchChanges
      BY <2>1
    <3>2. once[k] = MergeRow(silver[k], chosen(k))
      BY <2>1 DEF Merge
    <3>3. Merge(once, BatchChanges)[k] = MergeRow(once[k], chosen(k))
      BY <1>3, <2>1 DEF Merge
    <3> HIDE DEF chosen, once
    <3> QED
      BY <1>1, <1>2, <3>1, <3>2, <3>3, MergeRowIdempotent
  <2>2. CASE ~\E c \in BatchChanges : c.key = k
    BY <1>3, <2>2 DEF Merge
  <2> QED
    BY <2>1, <2>2
<1> QED
  BY <1>3, <1>4 DEF Merge

LEMMA NothingMerged ==
    ASSUME IInv, BatchChanges = {}
    PROVE  Settled
  BY DEF Settled, Merge, IInv, SilverOK, SilverTypeOK

LEMMA RetryStep ==
    ASSUME IInv, [Next]_vars, RetryInv
    PROVE  RetryInv' /\ (silver' # silver => auxMerged < auxMerged' \/ losses > 0)
<1>1. HistoryGrows
  BY NextStep
<1>2. losses' = 0 => losses = 0 /\ ~SilverLoses
  BY DEF IInv, BronzeTypeOK, Next, Environment, Pipeline, LoseBronzeCheckpoint,
         LoseSilverCheckpoint, SilverLoses, vars, bronzeVars, BronzeNext, BronzeStart,
         BronzeResumeBatch, BronzePlanBatch, BronzeDrained, BronzeAppend, BronzeMaskFails,
         BronzeCommit, BronzeCheckPasses, BronzeCheckFails
<1>3. losses \in Nat
  BY DEF IInv, BronzeTypeOK
<1>4. ASSUME UNCHANGED <<silver, sCkpt, sPlan, auxMerged>>
      PROVE  RetryInv'
  BY <1>1, <1>2, <1>4, ChangesStable DEF RetryInv, Settled
<1>5. CASE Quiet
  BY <1>4, <1>5 DEF Quiet, silverVars
<1>6. CASE SilverLoses
  BY <1>2, <1>6, LossEndsBatch DEF RetryInv
<1>7. CASE SilverSteps
  <2>1. CASE SilverStart \/ SilverResumeBatch \/ SilverDrained \/ SilverValidate
             \/ SilverValidateFails \/ SilverDlqNullOp \/ SilverDlqUnexpectedOp
    <3>1. UNCHANGED <<silver, sCkpt, sPlan, auxMerged>>
      BY <2>1 DEF SilverStart, SilverResumeBatch, SilverDrained, SilverValidate, silverVars,
                  SilverValidateFails, SilverDlqNullOp, SilverDlqUnexpectedOp
    <3> QED
      BY <1>4, <3>1
  <2>2. CASE SilverPlanBatch
    BY <1>2, <2>2, BatchInBronze DEF SilverPlanBatch, RetryInv
  <2>3. CASE SilverCommit
    BY <1>2, <2>3, BatchInBronze DEF SilverCommit, RetryInv
  <2>4. CASE SilverNothingToApply
    <3>1. UNCHANGED <<silver, sCkpt, sPlan>> /\ auxMerged' = sPlan /\ BatchChanges = {}
      BY <2>4 DEF SilverNothingToApply
    <3>2. Settled /\ BatchChanges' = BatchChanges
      BY <1>1, <3>1, NothingMerged, ChangesStable
    <3> QED
      BY <3>1, <3>2, BatchInBronze DEF RetryInv, Settled
  <2>5. CASE SilverMerge
    <3>1. UNCHANGED <<sCkpt, sPlan>> /\ auxMerged' = sPlan
          /\ silver' = Merge(silver, BatchChanges) /\ InSilver({"merge"})
      BY <2>5 DEF SilverMerge, InSilver, At
    <3>2. BatchChanges' = BatchChanges
      BY <1>1, <3>1, ChangesStable
    <3>3. Settled'
      BY <3>1, <3>2, MergeTwice DEF Settled
    <3>4. sCkpt < sPlan
      BY <3>1 DEF IInv, SilverOK, BatchesLeaveNoGap, InSilver
    <3>5. RetryInv'
      BY <3>1, <3>3, BatchInBronze DEF RetryInv
    <3>6. losses = 0 /\ silver' # silver => auxMerged < sPlan
      BY <3>1, <3>4, BatchInBronze DEF RetryInv, Settled
    <3> QED
      BY <1>3, <3>1, <3>5, <3>6
  <2>6. silver' # silver => SilverMerge
    BY OnlyMergeChangesSilver DEF vars, silverVars
  <2> QED
    BY <1>7, <2>1, <2>2, <2>3, <2>4, <2>5, <2>6 DEF SilverSteps, SilverNext
<1> QED
  BY <1>5, <1>6, <1>7, StepKinds, LossEndsBatch DEF Quiet, silverVars

(***************************************************************************)
(* A batch that runs again, because its job died between the MERGE and the *)
(* checkpoint, changes nothing in silver.                                  *)
(***************************************************************************)
THEOREM RetriesChangeNothing == Spec => RetriedBatchChangesNothing
<1>1. Init => RetryInv
  BY DEF Init, SilverInit, RetryInv
<1>2. IInv /\ [Next]_vars /\ RetryInv =>
        RetryInv' /\ [silver' # silver => auxMerged < auxMerged' \/ losses > 0]_vars
  BY RetryStep
<1> QED
  BY <1>1, <1>2, Inductive, PTL DEF Spec, RetriedBatchChangesNothing

-----------------------------------------------------------------------------
(***************************************************************************)
(* Caught up.  Three facts meet: the source's table is that of the last    *)
(* change of each payment; after the last copy of a published change come  *)
(* later changes only; and as far as silver has merged, bronze is the      *)
(* topic, because it would have to start from the beginning to be not.     *)
(***************************************************************************)
LastChange(k, i) ==
    /\ i \in DOMAIN wal
    /\ wal[i].key = k
    /\ \A j \in DOMAIN wal : wal[j].key = k => j <= i

TableOfWal ==
    \A k \in Keys :
        \/ db[k] = Absent /\ \A i \in DOMAIN wal : wal[i].key # k
        \/ \E i \in DOMAIN wal : LastChange(k, i) /\ db[k] = wal[i].row

LastCopy(n, o) ==
    /\ o \in DOMAIN topic
    /\ topic[o].kind = "change" /\ topic[o].lsn = n
    /\ \A p \in DOMAIN topic : p > o /\ topic[p].kind = "change" => topic[p].lsn > n

PublishedInOrder == \A n \in 1..sent : \E o \in DOMAIN topic : LastCopy(n, o)

\* The first n rows of bronze are those of the topic; the sink has gone so far.
Straight(n) == \A p \in 1..n : bronze[p] = p

Reached == IF bSinkDone THEN bPlan ELSE bCkpt

BronzeShape ==
    \/ Straight(Len(bronze)) /\ Reached \in {0, Len(bronze)}
    \/ \E n \in 1..Len(bronze) - 1 : Straight(n) /\ bronze[n + 1] = 1

\* The batch that is about to be appended is not empty, and one that is about
\* to be committed has been appended.
BronzeBatchOK ==
    /\ At("bronze_load", "append") => bCkpt < bPlan
    /\ At("bronze_load", "commit") => bSinkDone

CaughtUpInv == BronzeBatchOK /\ TableOfWal /\ PublishedInOrder /\ BronzeShape

LEMMA TableStep ==
    ASSUME IInv, IInv', [Next]_vars, TableOfWal
    PROVE  TableOfWal'
<1>1. CASE UNCHANGED <<db, wal>>
  BY <1>1 DEF TableOfWal, LastChange
<1>2. ASSUME NEW op \in Ops, NEW k \in Keys, NEW r \in Rows \cup {Absent}, Write(op, k, r)
      PROVE  TableOfWal'
  <2> DEFINE c == [op |-> op, key |-> k, row |-> r]
  <2>1. c \in Change
    BY DEF Change
  <2>2. wal' = Append(wal, c) /\ db' = [db EXCEPT ![k] = r]
    BY <1>2 DEF Write
  <2>3. wal \in Seq(Change) /\ db \in [Keys -> Rows \cup {Absent}]
    BY DEF IInv, SourceOK, SourceTypeOK
  <2>4. /\ DOMAIN wal = 1..Len(wal) /\ Len(wal) \in Nat
        /\ DOMAIN wal' = 1..(Len(wal) + 1)
        /\ wal'[Len(wal) + 1] = c
        /\ \A i \in DOMAIN wal : wal'[i] = wal[i]
    BY <2>1, <2>2, <2>3, AppendProperties
  <2>5. c.key = k /\ c.row = r
    OBVIOUS
  <2> HIDE DEF c
  <2>6. SUFFICES ASSUME NEW j \in Keys
                 PROVE  \/ db'[j] = Absent /\ \A i \in DOMAIN wal' : wal'[i].key # j
                        \/ \E i \in DOMAIN wal' : LastChange(j, i)' /\ db'[j] = wal'[i].row
    BY DEF TableOfWal
  <2>7. CASE j = k
    <3>1. PICK last \in DOMAIN wal' : last = Len(wal) + 1
      BY <2>4
    <3>2. LastChange(k, last)'
      BY <2>4, <2>5, <3>1 DEF LastChange
    <3> QED
      BY <2>2, <2>3, <2>4, <2>5, <2>7, <3>1, <3>2
  <2>8. CASE j # k
    <3>1. db'[j] = db[j]
      BY <2>2, <2>3, <2>8
    <3>2. \A i \in DOMAIN wal' : wal'[i].key = j => i \in DOMAIN wal
      BY <2>4, <2>5, <2>8
    <3>3. \A i \in DOMAIN wal : LastChange(j, i) => LastChange(j, i)'
      BY <2>4, <3>2 DEF LastChange
    <3> QED
      BY <2>4, <3>1, <3>2, <3>3 DEF TableOfWal
  <2> QED
    BY <2>7, <2>8
<1>3. ASSUME NEW k \in Keys, NEW r \in Rows, InsertPayment(k, r) \/ UpdatePayment(k, r)
      PROVE  TableOfWal'
  BY <1>2, <1>3 DEF InsertPayment, UpdatePayment, Ops
<1>4. ASSUME NEW k \in Keys, DeletePayment(k)
      PROVE  TableOfWal'
  BY <1>2, <1>4 DEF DeletePayment, Ops
<1> QED
  BY <1>1, <1>3, <1>4 DEF Next, Environment, Pipeline, SourceNext, Publish, FlushOffset,
     RestartConnector, PublishOther, sourceVars, vars

LEMMA PublishedStep ==
    ASSUME IInv, IInv', [Next]_vars, PublishedInOrder
    PROVE  PublishedInOrder'
<1>1. sent \in Nat /\ topic \in Seq(Record)
  BY DEF IInv, SourceOK, SourceTypeOK
<1>2. CASE topic' = topic /\ sent' \in 0..sent
  BY <1>1, <1>2 DEF PublishedInOrder, LastCopy
<1>3. ASSUME NEW m \in Record, topic' = Append(topic, m),
             \/ m.kind = "change" /\ m.lsn = sent + 1 /\ sent' = sent + 1
             \/ m.kind # "change" /\ sent' = sent
      PROVE  PublishedInOrder'
  <2>1. /\ DOMAIN topic = 1..Len(topic) /\ Len(topic) \in Nat
        /\ DOMAIN topic' = 1..(Len(topic) + 1)
        /\ topic'[Len(topic) + 1] = m
        /\ \A i \in DOMAIN topic : topic'[i] = topic[i]
    BY <1>1, <1>3, AppendProperties
  <2>2. ASSUME NEW n \in 1..sent PROVE \E o \in DOMAIN topic' : LastCopy(n, o)'
    <3>1. PICK o \in DOMAIN topic : LastCopy(n, o)
      BY DEF PublishedInOrder
    <3>2. m.kind = "change" => m.lsn > n
      BY <1>1, <1>3
    <3>3. LastCopy(n, o)'
      BY <2>1, <3>1, <3>2 DEF LastCopy
    <3> QED
      BY <2>1, <3>1, <3>3
  <2>3. CASE m.kind = "change" /\ m.lsn = sent + 1 /\ sent' = sent + 1
    <3>1. PICK last \in DOMAIN topic' : last = Len(topic) + 1
      BY <2>1
    <3>2. PICK n \in Nat : n = sent + 1
      BY <1>1
    <3>3. LastCopy(n, last)'
      BY <2>1, <2>3, <3>1, <3>2 DEF LastCopy
    <3>4. 1..sent' = 1..sent \cup {n}
      BY <1>1, <2>3, <3>2
    <3> QED
      BY <2>2, <3>1, <3>3, <3>4 DEF PublishedInOrder
  <2>4. CASE m.kind # "change" /\ sent' = sent
    BY <2>2, <2>4 DEF PublishedInOrder
  <2> QED
    BY <1>3, <2>3, <2>4
<1>4. CASE Publish
  <2>1. [kind |-> "change", lsn |-> sent + 1] \in Record
    BY <1>1 DEF Record
  <2> QED
    BY <1>3, <1>4, <2>1 DEF Publish
<1>5. ASSUME NEW kind \in OtherKinds, PublishOther(kind) PROVE PublishedInOrder'
  <2>1. [kind |-> kind, lsn |-> 0] \in Record /\ kind # "change"
    BY SourceBoundsAssumption DEF Record, AllOtherKinds
  <2> QED
    BY <1>3, <1>5, <2>1 DEF PublishOther
<1>6. CASE RestartConnector
  BY <1>1, <1>2, <1>6 DEF RestartConnector, IInv, SourceOK, SourceTypeOK
<1>7. CASE UNCHANGED <<topic, sent>>
  BY <1>1, <1>2, <1>7
<1> QED
  BY <1>4, <1>5, <1>6, <1>7 DEF Next, Environment, Pipeline, SourceNext, InsertPayment, UpdatePayment,
     DeletePayment, Write, FlushOffset, sourceVars, vars

\* What the sink appends goes on from where it was, or begins again.
LEMMA AppendShape ==
    ASSUME IInv, BronzeShape, BronzeAppend, ~bSinkDone, bCkpt < bPlan
    PROVE  \/ Straight(Len(bronze))' /\ Reached' = Len(bronze')
           \/ \E n \in 1..Len(bronze') - 1 : Straight(n)' /\ bronze'[n + 1] = 1
<1> DEFINE batch == [i \in 1..(bPlan - bCkpt) |-> bCkpt + i]
<1>1. bCkpt \in Nat /\ bPlan \in Nat /\ bPlan - bCkpt \in Nat /\ bronze \in Seq(Nat) /\ Len(bronze) \in Nat
  BY DEF IInv, BronzeTypeOK, SourceOK, SourceTypeOK
<1>2. /\ batch \in Seq(Nat)
      /\ Len(batch) = bPlan - bCkpt
      /\ \A i \in 1..(bPlan - bCkpt) : batch[i] = bCkpt + i
  BY <1>1, IsASeq
<1>3. bronze' = bronze \o batch /\ bSinkDone' = TRUE /\ UNCHANGED <<bCkpt, bPlan>>
  BY DEF BronzeAppend
<1> HIDE DEF batch
<1>4. /\ Len(bronze') = Len(bronze) + (bPlan - bCkpt)
      /\ \A i \in 1..Len(bronze) : bronze'[i] = bronze[i]
      /\ \A i \in Len(bronze) + 1..Len(bronze') : bronze'[i] = bCkpt + (i - Len(bronze))
  <2>1. /\ Len(bronze') = Len(bronze) + Len(batch)
        /\ \A i \in 1..(Len(bronze) + Len(batch)) :
              bronze'[i] = IF i <= Len(bronze) THEN bronze[i] ELSE batch[i - Len(bronze)]
    BY <1>1, <1>2, <1>3, ConcatProperties, Zenon
  <2>2. Len(bronze') = Len(bronze) + (bPlan - bCkpt)
    BY <1>2, <2>1
  <2>3. ASSUME NEW i \in 1..Len(bronze) PROVE bronze'[i] = bronze[i]
    <3>1. i \in 1..(Len(bronze) + Len(batch)) /\ i <= Len(bronze)
      BY <1>1, <1>2
    <3> QED
      BY <2>1, <3>1, Zenon
  <2>4. ASSUME NEW i \in Len(bronze) + 1..Len(bronze')
        PROVE  bronze'[i] = bCkpt + (i - Len(bronze))
    <3>1. i - Len(bronze) \in 1..(bPlan - bCkpt) /\ ~(i <= Len(bronze))
          /\ i \in 1..(Len(bronze) + Len(batch))
      BY <1>1, <1>2, <2>2
    <3>2. bronze'[i] = batch[i - Len(bronze)]
      BY <2>1, <3>1, Zenon
    <3> QED
      BY <1>2, <3>1, <3>2, Zenon
  <2> QED
    BY <2>2, <2>3, <2>4
<1>5. Reached = bCkpt /\ Reached' = bPlan
  BY <1>3 DEF Reached
<1>6. CASE Straight(Len(bronze)) /\ bCkpt = Len(bronze)
  BY <1>1, <1>4, <1>5, <1>6 DEF Straight
<1>7. CASE Straight(Len(bronze)) /\ bCkpt = 0 /\ Len(bronze) # 0
  <2>1. PICK n \in 1..Len(bronze') - 1 : n = Len(bronze)
    BY <1>1, <1>4, <1>7
  <2>2. Straight(n)' /\ bronze'[n + 1] = 1
    BY <1>1, <1>4, <1>7, <2>1 DEF Straight
  <2> QED
    BY <2>2
<1>8. ASSUME NEW n \in 1..Len(bronze) - 1, Straight(n), bronze[n + 1] = 1
      PROVE  n \in 1..Len(bronze') - 1 /\ Straight(n)' /\ bronze'[n + 1] = 1
  BY <1>1, <1>4, <1>8 DEF Straight
<1> QED
  BY <1>5, <1>6, <1>7, <1>8 DEF BronzeShape

LEMMA BronzeMoves ==
    ASSUME [Next]_vars
    PROVE  \/ BronzeAppend \/ BronzePlanBatch \/ BronzeCommit \/ LoseBronzeCheckpoint
           \/ BronzeResumeBatch
           \/ /\ UNCHANGED <<bronze, bCkpt, bPlan, bSinkDone>>
              /\ \/ UNCHANGED <<task, pc>>
                 \/ ~At("bronze_load", "commit")' /\ ~At("bronze_load", "append")'
  BY DEF Next, Environment, Pipeline, vars, runVars, bronzeVars, At,
         LoseSilverCheckpoint, Crash, TriggerRun, GoldOverwrite, Fail, Succeed, GoTo,
         BronzeNext, BronzeStart, BronzeDrained,
         BronzeMaskFails, BronzeCheckPasses, BronzeCheckFails,
         SilverNext, SilverStart, SilverResumeBatch, SilverPlanBatch, SilverDrained,
         SilverDlqNullOp, SilverDlqUnexpectedOp, SilverNothingToApply, SilverValidate,
         SilverValidateFails, SilverMerge, SilverCommit

LEMMA BatchStep ==
    ASSUME [Next]_vars, BronzeBatchOK
    PROVE  BronzeBatchOK'
<1>1. CASE BronzeAppend
  BY <1>1 DEF BronzeAppend, BronzeBatchOK, At, GoTo
<1>2. CASE BronzePlanBatch
  <2>1. bCkpt < bTarget /\ bPlan' = bTarget /\ UNCHANGED bCkpt /\ pc' = "append"
    BY <1>2 DEF BronzePlanBatch, GoTo
  <2> QED
    BY <2>1 DEF BronzeBatchOK, At
<1>3. CASE BronzeCommit
  BY <1>3 DEF BronzeCommit, BronzeBatchOK, At, GoTo
<1>4. CASE LoseBronzeCheckpoint
  BY <1>4 DEF LoseBronzeCheckpoint, BronzeBatchOK, At, Fail, runVars
<1>5. CASE BronzeResumeBatch
  BY <1>5 DEF BronzeResumeBatch, bronzeVars, BronzeBatchOK, At, GoTo
<1>6. CASE /\ UNCHANGED <<bronze, bCkpt, bPlan, bSinkDone>>
           /\ \/ UNCHANGED <<task, pc>>
              \/ ~At("bronze_load", "commit")' /\ ~At("bronze_load", "append")'
  <2>1. At("bronze_load", "append")' => bCkpt' < bPlan'
    BY <1>6 DEF BronzeBatchOK, At
  <2>2. At("bronze_load", "commit")' => bSinkDone'
    BY <1>6, Zenon DEF BronzeBatchOK, At
  <2> QED
    BY <2>1, <2>2 DEF BronzeBatchOK
<1> QED
  BY <1>1, <1>2, <1>3, <1>4, <1>5, <1>6, BronzeMoves

LEMMA ShapeStep ==
    ASSUME IInv, [Next]_vars, BronzeBatchOK, BronzeShape
    PROVE  BronzeShape'
<1>1. ASSUME UNCHANGED bronze, Reached' \in {0, Reached} PROVE BronzeShape'
  BY <1>1 DEF BronzeShape, Straight
<1>2. CASE BronzeAppend
  <2>1. CASE bSinkDone
    BY <1>1, <1>2, <2>1 DEF BronzeAppend, Reached
  <2>2. CASE ~bSinkDone
    BY <1>2, <2>2, AppendShape DEF BronzeAppend, BronzeShape, BronzeBatchOK
  <2> QED
    BY <2>1, <2>2
<1>3. CASE BronzePlanBatch
  BY <1>1, <1>3 DEF BronzePlanBatch, Reached
<1>4. CASE BronzeCommit
  BY <1>1, <1>4 DEF BronzeCommit, Reached, BronzeBatchOK
<1>5. CASE LoseBronzeCheckpoint
  BY <1>1, <1>5 DEF LoseBronzeCheckpoint, Reached
<1>6. CASE UNCHANGED <<bronze, bCkpt, bPlan, bSinkDone>>
  <2>1. Reached' = Reached
    BY <1>6, Zenon DEF Reached
  <2> QED
    BY <1>1, <1>6, <2>1
<1> QED
  BY <1>2, <1>3, <1>4, <1>5, <1>6, BronzeMoves DEF BronzeResumeBatch, bronzeVars

\* Rows of bronze that are no copies of others come in the order of the topic.
LEMMA MergedIsStraight ==
    ASSUME IInv, BronzeShape, Distinct(auxMerged)
    PROVE  Straight(auxMerged)
<1>1. CASE Straight(Len(bronze))
  BY <1>1, BatchInBronze DEF Straight
<1>2. ASSUME NEW n \in 1..Len(bronze) - 1, Straight(n), bronze[n + 1] = 1
      PROVE  Straight(auxMerged)
  <2>1. n \in Nat /\ bronze[1] = 1 /\ 1 <= n
    BY <1>2, BatchInBronze DEF Straight
  <2>2. auxMerged <= n
    <3> SUFFICES ASSUME n < auxMerged PROVE FALSE
      BY <2>1, BatchInBronze
    <3>1. 1 \in 1..auxMerged /\ n + 1 \in 1..auxMerged /\ n + 1 # 1
      BY <2>1, BatchInBronze
    <3> QED
      BY <1>2, <2>1, <3>1 DEF Distinct
  <2> QED
    BY <1>2, <2>1, <2>2, BatchInBronze DEF Straight
<1> QED
  BY <1>1, <1>2 DEF BronzeShape

\* Everything has been published and merged: bronze is the topic.
LEMMA CaughtUpBronze ==
    ASSUME IInv, BronzeShape, Distinct(auxMerged), CaughtUp
    PROVE  /\ \A p \in Merged : bronze[p] = p /\ RecordAt(p) = topic[p]
           /\ Merged = DOMAIN topic
<1>1. Straight(auxMerged)
  BY MergedIsStraight
<1>2. DOMAIN topic = 1..Len(topic) /\ Len(topic) \in Nat
  BY DEF IInv, SourceOK, SourceTypeOK
<1>3. \A p \in Merged : bronze[p] = p
  BY <1>1 DEF Straight, Merged
<1>4. \A p \in Merged : p \in DOMAIN topic
  BY <1>3, BatchInBronze DEF IInv, BronzeTypeOK
<1>5. \A o \in DOMAIN topic : o \in Merged
  BY <1>3 DEF CaughtUp
<1>6. auxMerged \in Nat /\ 1..auxMerged = 1..Len(topic)
  BY <1>2, <1>4, <1>5, BatchInBronze DEF Merged
<1> QED
  BY <1>2, <1>3, <1>6 DEF RecordAt, Merged

\* The last change of a payment is then the newest one merged, and the last.
LEMMA CurrentWhenCaughtUp ==
    ASSUME IInv, BronzeShape, TableOfWal, PublishedInOrder, Distinct(auxMerged), CaughtUp,
           NEW k \in Keys
    PROVE  MatchesSource(k)
<1>1. /\ Merged = DOMAIN topic
      /\ \A p \in Merged : bronze[p] = p /\ RecordAt(p) = topic[p]
  BY CaughtUpBronze
<1>2. ASSUME NEW p \in Merged, IsChange(p)
      PROVE  /\ EventAt(p).lsn = topic[p].lsn
             /\ EventAt(p).lsn \in DOMAIN wal
             /\ EventAt(p).key = wal[topic[p].lsn].key
             /\ EventAt(p).row = wal[topic[p].lsn].row
             /\ EventAt(p).op = wal[topic[p].lsn].op
  <2>1. p \in DOMAIN bronze
    BY BatchInBronze
  <2>2. EventAt(p).lsn \in DOMAIN wal
    BY <1>2, <2>1, EventTyped DEF IInv
  <2> QED
    BY <1>1, <2>2 DEF EventAt
<1>3. ASSUME \A i \in DOMAIN wal : wal[i].key # k PROVE silver[k] = Absent
  <2>1. ASSUME silver[k] # Absent PROVE FALSE
    <3>1. PICK p \in Merged : IsChange(p) /\ EventAt(p).key = k
      BY <2>1, Zenon DEF IInv, SilverClaims, RowsComeFromChanges
    <3>2. EventAt(p).lsn \in DOMAIN wal /\ wal[EventAt(p).lsn].key = k
      BY <1>2, <3>1
    <3> QED
      BY <1>3, <3>2, Zenon
  <2> QED
    BY <2>1
<1>4. ASSUME NEW i \in DOMAIN wal, LastChange(k, i)
      PROVE  silver[k] = IF wal[i].op = "d" THEN Absent ELSE [lsn |-> i, row |-> wal[i].row]
  <2>1. i \in 1..sent /\ i \in Nat
    BY DEF CaughtUp, IInv, SourceOK, SourceTypeOK
  <2>2. PICK o \in DOMAIN topic : LastCopy(i, o)
    BY <2>1 DEF PublishedInOrder
  <2>3. o \in Merged /\ IsChange(o)
    BY <1>1, <2>2 DEF LastCopy, IsChange
  <2>4. /\ EventAt(o).lsn = i /\ EventAt(o).key = k
        /\ EventAt(o).op = wal[i].op /\ EventAt(o).row = wal[i].row
    BY <1>2, <1>4, <2>2, <2>3 DEF LastCopy, LastChange
  <2>5. ASSUME NEW q \in Merged, SameKey(o, q) PROVE EventAt(q).lsn <= i /\ q <= o
    <3>1. IsChange(q) /\ EventAt(q).key = k /\ EventAt(q).lsn \in DOMAIN wal
      BY <1>2, <2>4, <2>5 DEF SameKey
    <3>2. EventAt(q).lsn = topic[q].lsn /\ wal[topic[q].lsn].key = k /\ topic[q].kind = "change"
      BY <1>1, <1>2, <3>1 DEF IsChange
    <3>3. EventAt(q).lsn <= i
      BY <1>4, <3>1, <3>2 DEF LastChange
    <3>4. q \in Nat /\ o \in Nat /\ topic[q].lsn \in Nat
      BY <1>1, <3>1, <3>2 DEF IInv, SourceOK, SourceTypeOK
    <3>5. ~(q > o)
      BY <1>1, <2>1, <2>2, <3>2, <3>3, <3>4 DEF LastCopy
    <3> QED
      BY <3>3, <3>4, <3>5
  <2>6. Newest(o) /\ Last(o)
    BY <2>3, <2>4, <2>5 DEF Newest, Last
  <2>7. CASE wal[i].op = "d"
    BY <2>3, <2>4, <2>6, <2>7 DEF IInv, SilverClaims, NewestDeleteStands
  <2>8. CASE wal[i].op # "d"
    <3>1. wal[i].op \in Ops
      BY <2>4, <1>2, <2>3, EventTyped, BatchInBronze DEF IInv, WellFormed, EventType
    <3>2. wal[i].op \in UpsertOps
      BY <2>8, <3>1 DEF Ops, UpsertOps
    <3> QED
      BY <2>3, <2>4, <2>6, <2>8, <3>2 DEF IInv, SilverClaims, NewestUpsertStands
  <2> QED
    BY <2>7, <2>8
<1>5. CASE db[k] = Absent /\ \A i \in DOMAIN wal : wal[i].key # k
  BY <1>3, <1>5 DEF MatchesSource
<1>6. ASSUME NEW i \in DOMAIN wal, LastChange(k, i), db[k] = wal[i].row
      PROVE  MatchesSource(k)
  <2>1. wal[i].op = "d" <=> wal[i].row = Absent
    BY DEF IInv, SourceOK, WalOK
  <2>2. i \in Nat /\ wal[i] \in Change
    BY DEF IInv, SourceOK, SourceTypeOK
  <2>3. wal[i].row \in Rows \cup {Absent}
    BY <2>2 DEF Change
  <2>4. ASSUME NEW r \in Rows PROVE [lsn |-> i, row |-> r] # Absent
    <3>1. [lsn |-> i, row |-> r] \in [lsn : Nat, row : Rows]
      BY <2>2
    <3> QED
      BY <3>1, AbsentAssumption
  <2>5. CASE wal[i].op = "d"
    BY <1>4, <1>6, <2>1, <2>5 DEF MatchesSource
  <2>6. CASE wal[i].op # "d"
    <3>1. wal[i].row \in Rows /\ db[k] # Absent
      BY <1>6, <2>1, <2>3, <2>6
    <3>2. silver[k] = [lsn |-> i, row |-> wal[i].row]
      BY <1>4, <1>6, <2>6
    <3>3. silver[k] # Absent
      BY <2>4, <3>1, <3>2, Zenon
    <3>4. silver[k].row = wal[i].row
      BY <3>2
    <3> QED
      BY <1>6, <3>1, <3>3, <3>4 DEF MatchesSource
  <2> QED
    BY <2>5, <2>6
<1> QED
  BY <1>5, <1>6 DEF TableOfWal

LEMMA CaughtUpInvariant == Spec => [](IInv /\ ReplayInv /\ CaughtUpInv)
<1>1. Init => ReplayInv /\ CaughtUpInv
  <2> SUFFICES ASSUME Init PROVE ReplayInv /\ CaughtUpInv
    OBVIOUS
  <2>1. ReplayInv
    BY DEF Init, RunInit, BronzeInit, SilverInit, ReplayInv, Distinct
  <2>2. BronzeBatchOK
    BY DEF Init, RunInit, BronzeBatchOK, At
  <2>3. TableOfWal /\ PublishedInOrder
    BY DEF Init, SourceInit, TableOfWal, PublishedInOrder
  <2>4. BronzeShape
    BY DEF Init, BronzeInit, BronzeShape, Straight, Reached
  <2> QED
    BY <2>1, <2>2, <2>3, <2>4 DEF CaughtUpInv
<1>2. IInv /\ [Next]_vars /\ ReplayInv /\ CaughtUpInv => ReplayInv' /\ CaughtUpInv'
  <2> SUFFICES ASSUME IInv, [Next]_vars, ReplayInv, CaughtUpInv
               PROVE  ReplayInv' /\ CaughtUpInv'
    OBVIOUS
  <2>1. IInv'
    BY NextStep
  <2> QED
    BY <2>1, ReplayStep, BatchStep, TableStep, PublishedStep, ShapeStep DEF CaughtUpInv
<1> QED
  BY <1>1, <1>2, Inductive, PTL DEF Spec

(***************************************************************************)
(* Once everything committed in the source has been published and merged,  *)
(* silver is the source's payments table, whatever was redelivered by the  *)
(* connector, retried by the jobs or lost of their checkpoints on the way. *)
(***************************************************************************)
THEOREM CaughtUpIsCurrent == Spec => []CaughtUpMeansCurrent
<1>1. IInv /\ ReplayInv /\ CaughtUpInv => CaughtUpMeansCurrent
  BY CurrentWhenCaughtUp DEF ReplayInv, CaughtUpInv, CaughtUpMeansCurrent
<1> QED
  BY <1>1, CaughtUpInvariant, PTL

-----------------------------------------------------------------------------
(***************************************************************************)
(* The mirror.  A connector that is never restarted publishes each change  *)
(* once, so that the changes merged, which are those of a beginning of the *)
(* topic, are those of a beginning of the WAL: what silver is then said to *)
(* hold is the source's table at its end.                                  *)
(***************************************************************************)
OnlyCopy(l, o) ==
    /\ l <= sent
    /\ LastCopy(l, o)
    /\ \A n \in 1..l : \E q \in 1..o : topic[q].kind = "change" /\ topic[q].lsn = n

TopicIsOrdered ==
    /\ restarts = 0
    /\ \A o \in DOMAIN topic : topic[o].kind = "change" => \E l \in Nat : OnlyCopy(l, o)

LEMMA OrderedAppend ==
    ASSUME IInv, PublishedInOrder, TopicIsOrdered, NEW m \in Record, topic' = Append(topic, m),
           \/ m.kind = "change" /\ m.lsn = sent + 1 /\ sent' = sent + 1
           \/ m.kind # "change" /\ sent' = sent,
           restarts' = 0
    PROVE  TopicIsOrdered'
<1>1. sent \in Nat /\ topic \in Seq(Record)
  BY DEF IInv, SourceOK, SourceTypeOK
<1>2. /\ DOMAIN topic = 1..Len(topic) /\ Len(topic) \in Nat
      /\ DOMAIN topic' = 1..(Len(topic) + 1)
      /\ topic'[Len(topic) + 1] = m
      /\ \A i \in DOMAIN topic : topic'[i] = topic[i]
  BY <1>1, AppendProperties
<1>3. sent' \in Nat /\ sent <= sent'
  BY <1>1
<1>4. ASSUME NEW o \in DOMAIN topic, topic[o].kind = "change"
      PROVE  \E l \in Nat : OnlyCopy(l, o)'
  <2>1. PICK l \in Nat : OnlyCopy(l, o)
    BY <1>4 DEF TopicIsOrdered
  <2>2. l <= sent' /\ l <= sent
    BY <1>1, <1>3, <2>1 DEF OnlyCopy
  <2>3. LastCopy(l, o)
    BY <2>1 DEF OnlyCopy
  <2>4. LastCopy(l, o)'
    <3>1. m.kind = "change" => m.lsn > l
      BY <1>1, <2>2
    <3> QED
      BY <1>2, <2>3, <3>1 DEF LastCopy
  <2>5. ASSUME NEW n \in 1..l PROVE \E q \in 1..o : topic'[q].kind = "change" /\ topic'[q].lsn = n
    <3>1. PICK q \in 1..o : topic[q].kind = "change" /\ topic[q].lsn = n
      BY <2>1, <2>5 DEF OnlyCopy
    <3>2. q \in DOMAIN topic
      BY <1>2
    <3> QED
      BY <1>2, <3>1, <3>2
  <2> QED
    BY <2>2, <2>4, <2>5 DEF OnlyCopy
<1>5. ASSUME NEW last \in DOMAIN topic', last = Len(topic) + 1, m.kind = "change"
      PROVE  \E l \in Nat : OnlyCopy(l, last)'
  <2>1. PICK l \in Nat : l = sent + 1
    BY <1>1
  <2>2. topic'[last].kind = "change" /\ topic'[last].lsn = l /\ l = sent'
    BY <1>2, <1>5, <2>1
  <2>3. LastCopy(l, last)'
    BY <1>2, <1>5, <2>2 DEF LastCopy
  <2>4. ASSUME NEW n \in 1..l PROVE \E q \in 1..last : topic'[q].kind = "change" /\ topic'[q].lsn = n
    <3>1. CASE n = l
      BY <1>2, <1>5, <2>2, <3>1
    <3>2. CASE n # l
      <4>1. n \in 1..sent
        BY <1>1, <2>1, <3>2
      <4>2. PICK q \in DOMAIN topic : LastCopy(n, q)
        BY <4>1 DEF PublishedInOrder
      <4> QED
        BY <1>2, <1>5, <4>2 DEF LastCopy
    <3> QED
      BY <3>1, <3>2
  <2>5. l <= sent'
    BY <2>1, <2>2
  <2> QED
    BY <2>3, <2>4, <2>5 DEF OnlyCopy
<1>6. ASSUME NEW o \in DOMAIN topic', topic'[o].kind = "change"
      PROVE  \E l \in Nat : OnlyCopy(l, o)'
  <2>1. CASE o \in DOMAIN topic
    BY <1>2, <1>4, <1>6, <2>1
  <2>2. CASE o = Len(topic) + 1
    BY <1>2, <1>5, <1>6, <2>2
  <2> QED
    BY <1>2, <2>1, <2>2
<1> QED
  BY <1>6 DEF TopicIsOrdered

LEMMA OrderedStep ==
    ASSUME MaxRestarts = 0, IInv, [Next]_vars, PublishedInOrder, TopicIsOrdered
    PROVE  TopicIsOrdered'
<1>1. sent \in Nat /\ restarts = 0
  BY DEF IInv, SourceOK, SourceTypeOK, TopicIsOrdered
<1>2. CASE Publish
  <2>1. [kind |-> "change", lsn |-> sent + 1] \in Record
    BY <1>1 DEF Record
  <2> QED
    BY <1>1, <1>2, <2>1, OrderedAppend DEF Publish
<1>3. ASSUME NEW kind \in OtherKinds, PublishOther(kind) PROVE TopicIsOrdered'
  <2>1. [kind |-> kind, lsn |-> 0] \in Record /\ kind # "change"
    BY SourceBoundsAssumption DEF Record, AllOtherKinds
  <2> QED
    BY <1>1, <1>3, <2>1, OrderedAppend DEF PublishOther
<1>4. CASE RestartConnector
  BY <1>1, <1>4 DEF RestartConnector
<1>5. CASE UNCHANGED <<topic, sent, restarts>>
  BY <1>5 DEF TopicIsOrdered, OnlyCopy, LastCopy
<1> QED
  BY <1>2, <1>3, <1>4, <1>5 DEF Next, Environment, Pipeline, SourceNext, InsertPayment, UpdatePayment,
     DeletePayment, Write, FlushOffset, sourceVars, vars

-----------------------------------------------------------------------------
(***************************************************************************)
(* The position in the WAL of the last change among the first n rows.      *)
(***************************************************************************)
Lsns(n) == {RecordAt(p).lsn : p \in {q \in 1..n : IsChange(q)}}

LEMMA LsnsInWal ==
    ASSUME IInv, NEW n \in 0..Len(bronze)
    PROVE  /\ Lsns(n) \subseteq 1..Len(wal) /\ Len(wal) \in Nat
           /\ 1..n \subseteq DOMAIN bronze
<1>1. 1..n \subseteq DOMAIN bronze
  BY BatchInBronze
<1>2. DOMAIN wal = 1..Len(wal) /\ Len(wal) \in Nat
  BY DEF IInv, SourceOK, SourceTypeOK
<1>3. ASSUME NEW p \in 1..n, IsChange(p) PROVE RecordAt(p).lsn \in DOMAIN wal
  <2>1. p \in DOMAIN bronze /\ bronze[p] \in DOMAIN topic
    BY <1>1 DEF IInv, BronzeTypeOK
  <2> QED
    BY <1>3, <2>1 DEF IInv, SourceOK, TopicOK, IsChange, RecordAt
<1> QED
  BY <1>1, <1>2, <1>3 DEF Lsns

LEMMA WalPositionIs ==
    ASSUME IInv, NEW n \in 0..Len(bronze)
    PROVE  /\ WalPosition(n) \in 0..Len(wal)
           /\ \A l \in Lsns(n) : l <= WalPosition(n)
           /\ WalPosition(n) # 0 => WalPosition(n) \in Lsns(n)
<1>1. Lsns(n) \subseteq 1..Len(wal) /\ Len(wal) \in Nat
  BY LsnsInWal
<1>2. WalPosition(n) = IF Lsns(n) = {} THEN 0 ELSE CHOOSE m \in Lsns(n) : \A l \in Lsns(n) : l <= m
  BY DEF WalPosition, Lsns
<1> HIDE DEF Lsns
<1>3. CASE Lsns(n) = {}
  BY <1>1, <1>2, <1>3
<1>4. CASE Lsns(n) # {}
  <2>1. Lsns(n) \subseteq 0..Len(wal)
    BY <1>1
  <2>2. \E m \in Lsns(n) : \A l \in Lsns(n) : l <= m
    BY <1>1, <1>4, <2>1, BoundedMax
  <2>3. WalPosition(n) \in Lsns(n) /\ \A l \in Lsns(n) : l <= WalPosition(n)
    BY <1>2, <1>4, <2>2, Zenon
  <2> QED
    BY <2>1, <2>3
<1> QED
  BY <1>3, <1>4

LEMMA WalPositionGrows ==
    ASSUME IInv, NEW n \in 0..Len(bronze), NEW m \in 0..n
    PROVE  WalPosition(m) <= WalPosition(n)
<1>1. m \in 0..Len(bronze) /\ Lsns(m) \subseteq Lsns(n)
  BY BatchInBronze DEF Lsns
<1>2. WalPosition(n) \in Nat /\ WalPosition(m) \in Nat
  BY <1>1, WalPositionIs, LsnsInWal
<1>3. CASE WalPosition(m) = 0
  BY <1>2, <1>3
<1>4. CASE WalPosition(m) # 0
  BY <1>1, <1>4, WalPositionIs
<1> QED
  BY <1>3, <1>4

LEMMA WalPositionStands ==
    ASSUME IInv, HistoryGrows, NEW n \in 0..Len(bronze)
    PROVE  WalPosition(n)' = WalPosition(n)
<1>1. ASSUME NEW p \in 1..n PROVE RecordAt(p)' = RecordAt(p) /\ (IsChange(p)' <=> IsChange(p))
  <2>1. p \in DOMAIN bronze
    BY LsnsInWal
  <2> QED
    BY <2>1, RecordsStable DEF IsChange
<1>2. Lsns(n)' = Lsns(n)
  BY <1>1 DEF Lsns
<1>3. WalPosition(n) = IF Lsns(n) = {} THEN 0 ELSE CHOOSE m \in Lsns(n) : \A l \in Lsns(n) : l <= m
  BY DEF WalPosition, Lsns
<1>4. WalPosition(n)' = IF Lsns(n)' = {} THEN 0
                        ELSE CHOOSE m \in Lsns(n)' : \A l \in Lsns(n)' : l <= m
  BY DEF WalPosition, Lsns
<1> HIDE DEF Lsns
<1> QED
  BY <1>2, <1>3, <1>4

-----------------------------------------------------------------------------
(***************************************************************************)
(* Silver is the source's table at that position.                          *)
(***************************************************************************)
\* The changes merged are the first ones of the WAL.
LEMMA MergedIsPrefix ==
    ASSUME IInv, BronzeShape, Distinct(auxMerged), TopicIsOrdered
    PROVE  /\ WalPosition(auxMerged) \in 0..Len(wal) /\ Len(wal) \in Nat
           /\ \A p \in Merged : IsChange(p) =>
                  /\ OnlyCopy(EventAt(p).lsn, p) /\ bronze[p] = p
                  /\ EventAt(p).lsn \in 1..WalPosition(auxMerged)
                  /\ EventAt(p).key = wal[EventAt(p).lsn].key
                  /\ EventAt(p).op = wal[EventAt(p).lsn].op
                  /\ EventAt(p).row = wal[EventAt(p).lsn].row
           /\ \A i \in 1..WalPosition(auxMerged) :
                  \E p \in Merged : IsChange(p) /\ EventAt(p).lsn = i
<1>1. PICK n \in 0..Len(bronze) : n = auxMerged
  BY BatchInBronze
<1>2. /\ Merged = 1..n /\ Merged \subseteq DOMAIN bronze
      /\ WalPosition(auxMerged) = WalPosition(n)
  BY <1>1, BatchInBronze DEF Merged
<1>3. PICK m \in 0..Len(wal) : m = WalPosition(n)
  BY WalPositionIs
<1>4. Len(wal) \in Nat /\ m \in Nat /\ n \in Nat
  BY LsnsInWal, BatchInBronze
<1>5. \A p \in Merged : bronze[p] = p /\ RecordAt(p) = topic[p] /\ p \in DOMAIN topic
  <2>1. Straight(n)
    BY <1>1, MergedIsStraight
  <2> QED
    BY <1>2, <2>1 DEF Straight, RecordAt, IInv, BronzeTypeOK
<1>6. ASSUME NEW p \in Merged, IsChange(p)
      PROVE  /\ EventAt(p).lsn = topic[p].lsn
             /\ EventAt(p).lsn \in 1..m
             /\ EventAt(p).key = wal[EventAt(p).lsn].key
             /\ EventAt(p).op = wal[EventAt(p).lsn].op
             /\ EventAt(p).row = wal[EventAt(p).lsn].row
  <2>1. RecordAt(p).lsn \in Lsns(n)
    BY <1>2, <1>6 DEF Lsns
  <2>2. RecordAt(p).lsn \in 1..m
    BY <1>3, <1>4, <2>1, LsnsInWal, WalPositionIs
  <2> QED
    BY <1>5, <2>2 DEF EventAt
<1>7. ASSUME NEW p \in Merged, IsChange(p) PROVE OnlyCopy(topic[p].lsn, p)
  <2>1. topic[p].kind = "change"
    BY <1>5, <1>7 DEF IsChange
  <2>2. PICK l \in Nat : OnlyCopy(l, p)
    BY <1>5, <2>1 DEF TopicIsOrdered
  <2> QED
    BY <2>2 DEF OnlyCopy, LastCopy
<1>8. ASSUME NEW i \in 1..m PROVE \E p \in Merged : IsChange(p) /\ EventAt(p).lsn = i
  <2>1. m \in Lsns(n)
    BY <1>3, <1>4, <1>8, WalPositionIs
  <2>2. PICK o \in Merged : IsChange(o) /\ RecordAt(o).lsn = m
    BY <1>2, <2>1 DEF Lsns
  <2>3. OnlyCopy(m, o)
    BY <1>5, <1>7, <2>2
  <2>4. PICK q \in 1..o : topic[q].kind = "change" /\ topic[q].lsn = i
    BY <1>8, <2>3 DEF OnlyCopy
  <2>5. q \in Merged
    BY <1>2, <1>4, <2>2, <2>4
  <2>6. IsChange(q)
    BY <1>5, <2>4, <2>5 DEF IsChange
  <2> QED
    BY <1>6, <2>4, <2>5, <2>6
<1>9. \A p \in Merged : IsChange(p) => OnlyCopy(EventAt(p).lsn, p)
  BY <1>6, <1>7
<1> QED
  BY <1>2, <1>3, <1>4, <1>5, <1>6, <1>8, <1>9

\* What a payment's row must be when the changes up to m have been merged.
LastUpTo(m, k, i) ==
    /\ i \in 1..m
    /\ wal[i].key = k
    /\ \A j \in 1..m : wal[j].key = k => j <= i

LEMMA SilverIsPrefix ==
    ASSUME IInv, BronzeShape, Distinct(auxMerged), TopicIsOrdered, NEW k \in Keys
    PROVE  /\ (\A i \in 1..WalPosition(auxMerged) : wal[i].key # k) => silver[k] = Absent
           /\ \A i \in 1..WalPosition(auxMerged) : LastUpTo(WalPosition(auxMerged), k, i) =>
                  silver[k] = IF wal[i].op = "d" THEN Absent ELSE [lsn |-> i, row |-> wal[i].row]
<1>1. PICK m \in 0..Len(wal) : m = WalPosition(auxMerged)
  BY MergedIsPrefix
<1>2. m \in Nat /\ Len(wal) \in Nat
  BY MergedIsPrefix
<1>3. ASSUME \A i \in 1..m : wal[i].key # k, silver[k] # Absent PROVE FALSE
  <2>1. PICK p \in Merged : IsChange(p) /\ EventAt(p).key = k
    BY <1>3, Zenon DEF IInv, SilverClaims, RowsComeFromChanges
  <2>2. EventAt(p).lsn \in 1..m /\ wal[EventAt(p).lsn].key = k
    BY <1>1, <2>1, MergedIsPrefix
  <2> QED
    BY <1>3, <2>2, Zenon
<1>4. ASSUME NEW i \in 1..m, LastUpTo(m, k, i)
      PROVE  silver[k] = IF wal[i].op = "d" THEN Absent ELSE [lsn |-> i, row |-> wal[i].row]
  <2>1. PICK o \in Merged : IsChange(o) /\ EventAt(o).lsn = i
    BY <1>1, MergedIsPrefix
  <2>2. /\ OnlyCopy(i, o) /\ EventAt(o).key = k
        /\ EventAt(o).op = wal[i].op /\ EventAt(o).row = wal[i].row
    BY <1>4, <2>1, MergedIsPrefix DEF LastUpTo
  <2>3. ASSUME NEW q \in Merged, SameKey(o, q) PROVE EventAt(q).lsn <= i /\ q <= o
    <3>1. IsChange(q) /\ EventAt(q).key = k
      BY <2>2, <2>3 DEF SameKey
    <3>2. EventAt(q).lsn \in 1..m /\ wal[EventAt(q).lsn].key = k /\ OnlyCopy(EventAt(q).lsn, q)
      BY <1>1, <3>1, MergedIsPrefix
    <3>3. EventAt(q).lsn <= i
      BY <1>4, <3>2 DEF LastUpTo
    <3>4. topic[q].kind = "change" /\ topic[q].lsn = EventAt(q).lsn /\ q \in DOMAIN topic
      BY <3>2 DEF OnlyCopy, LastCopy
    <3>5. q > o => topic[q].lsn > i
      BY <2>2, <3>4 DEF OnlyCopy, LastCopy
    <3>6. q \in Nat /\ o \in Nat /\ i \in Nat
      BY <1>2, BatchInBronze DEF Merged
    <3> QED
      BY <1>2, <3>2, <3>3, <3>4, <3>5, <3>6
  <2>4. Newest(o) /\ Last(o)
    BY <2>1, <2>3 DEF Newest, Last
  <2>5. CASE wal[i].op = "d"
    BY <2>1, <2>2, <2>4, <2>5 DEF IInv, SilverClaims, NewestDeleteStands
  <2>6. CASE wal[i].op # "d"
    <3>1. wal[i].op \in UpsertOps
      <4>1. i \in DOMAIN wal
        BY <1>2 DEF IInv, SourceOK, SourceTypeOK
      <4>2. wal[i] \in Change
        BY <4>1 DEF IInv, SourceOK, SourceTypeOK
      <4> QED
        BY <2>6, <4>2 DEF Change, Ops, UpsertOps
    <3> QED
      BY <2>1, <2>2, <2>4, <2>6, <3>1 DEF IInv, SilverClaims, NewestUpsertStands
  <2> QED
    BY <2>5, <2>6
<1>5. (\A i \in 1..m : wal[i].key # k) => silver[k] = Absent
  BY <1>3
<1> QED
  BY <1>1, <1>4, <1>5, Zenon

\* The columns silver holds.
Columns == [k \in Keys |-> IF silver[k] = Absent THEN Absent ELSE silver[k].row]

\* The source's table after the first n changes of a log.
TableAfter(log, n) ==
    [k \in Keys |->
        LET S == {i \in 1..n : log[i].key = k}
        IN  IF S = {} THEN Absent ELSE log[CHOOSE i \in S : \A j \in S : j <= i].row]

LEMMA ColumnsAreSource ==
    ASSUME IInv, BronzeShape, Distinct(auxMerged), TopicIsOrdered
    PROVE  Columns = TableAfter(wal, WalPosition(auxMerged))
<1>1. PICK m \in 0..Len(wal) : m = WalPosition(auxMerged)
  BY MergedIsPrefix
<1>2. m \in Nat /\ Len(wal) \in Nat
  BY MergedIsPrefix
<1>3. ASSUME NEW k \in Keys PROVE Columns[k] = TableAfter(wal, m)[k]
  <2> DEFINE S == {i \in 1..m : wal[i].key = k}
  <2>1. TableAfter(wal, m)[k] =
            IF S = {} THEN Absent ELSE wal[CHOOSE i \in S : \A j \in S : j <= i].row
    BY DEF TableAfter
  <2>2. Columns[k] = IF silver[k] = Absent THEN Absent ELSE silver[k].row
    BY DEF Columns
  <2>3. S \subseteq 1..m
    OBVIOUS
  <2>4. S = {} => silver[k] = Absent
    BY <1>1, SilverIsPrefix
  <2>5. ASSUME NEW i \in S, \A j \in S : j <= i
        PROVE  silver[k] = IF wal[i].op = "d" THEN Absent ELSE [lsn |-> i, row |-> wal[i].row]
    BY <1>1, <2>5, SilverIsPrefix DEF LastUpTo
  <2> HIDE DEF S
  <2>6. ASSUME S # {} PROVE Columns[k] = wal[CHOOSE i \in S : \A j \in S : j <= i].row
    <3> DEFINE i == CHOOSE i \in S : \A j \in S : j <= i
    <3>1. S \subseteq 0..m
      BY <2>3
    <3>2. \E x \in S : \A j \in S : j <= x
      BY <1>2, <2>6, <3>1, BoundedMax
    <3>3. i \in S /\ \A j \in S : j <= i
      BY <3>2, Zenon
    <3> HIDE DEF i
    <3>4. silver[k] = IF wal[i].op = "d" THEN Absent ELSE [lsn |-> i, row |-> wal[i].row]
      BY <2>5, <3>3
    <3>5. i \in DOMAIN wal /\ i \in Nat
      BY <1>2, <2>3, <3>3 DEF IInv, SourceOK, SourceTypeOK
    <3>6. wal[i].op = "d" <=> wal[i].row = Absent
      BY <3>5 DEF IInv, SourceOK, WalOK
    <3>7. wal[i].row \in Rows \cup {Absent}
      <4>1. wal[i] \in Change
        BY <3>5 DEF IInv, SourceOK, SourceTypeOK
      <4> QED
        BY <4>1 DEF Change
    <3>8. wal[i].op # "d" => [lsn |-> i, row |-> wal[i].row] # Absent
      <4>1. wal[i].op # "d" => [lsn |-> i, row |-> wal[i].row] \in [lsn : Nat, row : Rows]
        BY <3>5, <3>6, <3>7
      <4> QED
        BY <4>1, AbsentAssumption, Zenon
    <3>9. Columns[k] = wal[i].row
      <4>1. CASE wal[i].op = "d"
        BY <2>2, <3>4, <3>6, <4>1
      <4>2. CASE wal[i].op # "d"
        BY <2>2, <3>4, <3>8, <4>2
      <4> QED
        BY <4>1, <4>2
    <3> QED
      BY <3>9, Zenon DEF i
  <2> QED
    BY <2>1, <2>2, <2>4, <2>6, Zenon
<1>4. Columns = [k \in Keys |-> Columns[k]] /\ TableAfter(wal, m) = [k \in Keys |-> TableAfter(wal, m)[k]]
  BY DEF Columns, TableAfter
<1>5. Columns = TableAfter(wal, m)
  BY <1>3, <1>4, Zenon
<1> QED
  BY <1>1, <1>5, Zenon

-----------------------------------------------------------------------------
(***************************************************************************)
(* Every step is one of the mirror's or none.                              *)
(***************************************************************************)
LEMMA MirrorInit == Init => Mirror!Init
<1> SUFFICES ASSUME Init PROVE Mirror!Init
  OBVIOUS
<1>1. WalPosition(0) = 0
  BY DEF WalPosition
<1>2. auxMerged = 0 /\ auxReported = 0 /\ wal = << >>
  BY DEF Init, SourceInit, SilverInit, GoldInit
<1>3. Columns = [k \in Keys |-> Absent]
  BY DEF Init, SilverInit, Columns
<1>4. gold = [g \in Groups |-> {}]
  BY DEF Init, GoldInit
<1> QED
  BY <1>1, <1>2, <1>3, <1>4 DEF Mirror!Init, Columns

\* What the steps change of the mirror's state.
LEMMA MirrorMoves ==
    ASSUME IInv, [Next]_vars
    PROVE  \/ /\ \E c \in Change : wal' = Append(wal, c)
              /\ UNCHANGED <<silver, auxMerged, gold, auxReported>>
           \/ wal' = wal /\ auxMerged' \in auxMerged..Len(bronze) /\ UNCHANGED <<gold, auxReported>>
           \/ GoldOverwrite /\ UNCHANGED <<wal, silver, auxMerged>>
<1>1. auxMerged \in 0..Len(bronze) /\ Len(bronze) \in Nat /\ sPlan \in 0..Len(bronze)
  BY BatchInBronze
<1>2. ASSUME NEW op \in Ops, NEW k \in Keys, NEW r \in Rows \cup {Absent}, Write(op, k, r)
      PROVE  \E c \in Change : wal' = Append(wal, c)
  BY <1>2 DEF Write, Change
<1>3. CASE SourceNext /\ UNCHANGED <<runVars, bronzeVars, silverVars, goldVars>>
  <2>1. ASSUME NEW k \in Keys, NEW r \in Rows, InsertPayment(k, r) \/ UpdatePayment(k, r)
        PROVE  \E c \in Change : wal' = Append(wal, c)
    BY <1>2, <2>1 DEF InsertPayment, UpdatePayment, Ops
  <2>2. ASSUME NEW k \in Keys, DeletePayment(k) PROVE \E c \in Change : wal' = Append(wal, c)
    BY <1>2, <2>2 DEF DeletePayment, Ops
  <2>3. \/ \E k \in Keys, r \in Rows : InsertPayment(k, r) \/ UpdatePayment(k, r)
        \/ \E k \in Keys : DeletePayment(k)
        \/ wal' = wal
    BY <1>3 DEF SourceNext, Publish, FlushOffset, RestartConnector, PublishOther
  <2> QED
    BY <1>1, <1>3, <2>1, <2>2, <2>3 DEF silverVars, goldVars
<1>4. CASE GoldOverwrite /\ UNCHANGED <<sourceVars, bronzeVars, silverVars>>
  BY <1>4 DEF sourceVars, silverVars
<1>5. CASE SilverNext /\ UNCHANGED <<sourceVars, bronzeVars, goldVars>>
  <2>1. \/ auxMerged' = auxMerged
        \/ auxMerged' = sPlan /\ InSilver({"validate", "merge"})
    BY <1>5 DEF SilverNext, SilverStart, SilverResumeBatch, SilverPlanBatch, SilverDrained,
                SilverDlqNullOp, SilverDlqUnexpectedOp, SilverNothingToApply, SilverValidate,
                SilverValidateFails, SilverMerge, SilverCommit, silverVars, At, InSilver
  <2>2. InSilver({"validate", "merge"}) => auxMerged <= sPlan
    BY DEF IInv, SilverOK, BatchesLeaveNoGap, InSilver
  <2> QED
    BY <1>1, <1>5, <2>1, <2>2 DEF sourceVars, goldVars
<1>6. CASE UNCHANGED <<wal, auxMerged, gold, auxReported>>
  BY <1>1, <1>6
<1> QED
  BY <1>3, <1>4, <1>5, <1>6 DEF Next, Environment, Pipeline, LoseBronzeCheckpoint, LoseSilverCheckpoint,
     Crash, TriggerRun, sourceVars, silverVars, goldVars, vars

LEMMA AggregateIsReport ==
    ASSUME IInv
    PROVE  Aggregate(silver) = Mirror!Report(Columns)
<1>1. silver \in [Keys -> SilverRow \cup {Absent}]
  BY DEF IInv, SilverOK, SilverTypeOK
<1>2. ASSUME NEW k \in Keys
      PROVE  /\ Columns[k] # Absent <=> silver[k] # Absent
             /\ silver[k] # Absent => Columns[k] = silver[k].row
  <2>1. silver[k] # Absent => silver[k].row \in Rows
    BY <1>1 DEF SilverRow
  <2> QED
    BY <2>1, AbsentAssumption DEF Columns
<1>3. ASSUME NEW g \in Groups
      PROVE  {<<k, silver[k].row>> : k \in {j \in Keys : silver[j] # Absent /\ GroupOf[silver[j].row] = g}}
               = {<<k, Columns[k]>> : k \in {j \in Keys : Columns[j] # Absent /\ GroupOf[Columns[j]] = g}}
  BY <1>2
<1>4. DOMAIN silver = Keys
  BY <1>1
<1> HIDE DEF Columns
<1> QED
  BY <1>3, <1>4 DEF Aggregate, Mirror!Report

LEMMA MirrorStep ==
    ASSUME IInv, IInv', HistoryGrows, [Next]_vars,
           Columns' = TableAfter(wal', WalPosition(auxMerged)')
    PROVE  [Mirror!Next]_(Mirror!vars)
<1>1. PICK n \in 0..Len(bronze) : n = auxMerged
  BY BatchInBronze
<1>2. PICK r \in 0..Len(bronze) : r = auxReported
  BY DEF IInv, GoldTypeOK
<1>3. WalPosition(n)' = WalPosition(n) /\ WalPosition(r)' = WalPosition(r)
  BY WalPositionStands
<1>4. UNCHANGED auxMerged => WalPosition(auxMerged)' = WalPosition(auxMerged)
  BY <1>1, <1>3
<1>5. UNCHANGED auxReported => WalPosition(auxReported)' = WalPosition(auxReported)
  BY <1>2, <1>3
<1>6. CASE /\ \E c \in Change : wal' = Append(wal, c)
           /\ UNCHANGED <<silver, auxMerged, gold, auxReported>>
  <2>1. PICK c \in Change : wal' = Append(wal, c)
    BY <1>6
  <2>2. wal \in Seq(Change)
    BY DEF IInv, SourceOK, SourceTypeOK
  <2>3. Len(wal') = Len(wal) + 1 /\ SubSeq(wal', 1, Len(wal)) = wal
    BY <2>1, <2>2
  <2>4. Mirror!SourceChanges
    BY <1>4, <1>5, <1>6, <2>3 DEF Mirror!SourceChanges
  <2> QED
    BY <2>4 DEF Mirror!Next
<1>7. CASE wal' = wal /\ auxMerged' \in auxMerged..Len(bronze) /\ UNCHANGED <<gold, auxReported>>
  <2>1. PICK m \in 0..Len(bronze) : m = auxMerged' /\ n \in 0..m
    BY <1>1, <1>7
  <2>2. WalPosition(auxMerged)' = WalPosition(m)
    BY <2>1, WalPositionStands
  <2>3. WalPosition(n) <= WalPosition(m) /\ WalPosition(m) \in 0..Len(wal) /\ WalPosition(n) \in 0..Len(wal)
    BY <2>1, WalPositionGrows, WalPositionIs
  <2>4. WalPosition(auxMerged)' \in WalPosition(auxMerged)..Len(wal)
    BY <1>1, <2>2, <2>3, LsnsInWal
  <2>5. Columns' = Mirror!StateAfter(WalPosition(auxMerged)')
    <3>1. Columns' = TableAfter(wal, WalPosition(auxMerged)')
      BY <1>7, Zenon
    <3>2. PICK w \in 0..Len(wal) : w = WalPosition(auxMerged)'
      BY <2>2, <2>3
    <3>3. Mirror!StateAfter(w) = TableAfter(wal, w)
      BY Zenon DEF Mirror!StateAfter, TableAfter
    <3> QED
      BY <3>1, <3>2, <3>3, Zenon
  <2>6. Mirror!Refresh
    BY <1>5, <1>7, <2>4, <2>5 DEF Mirror!Refresh, Columns
  <2> QED
    BY <2>6 DEF Mirror!Next
<1>8. CASE GoldOverwrite /\ UNCHANGED <<wal, silver, auxMerged>>
  <2>1. gold' = Mirror!Report(Columns) /\ auxReported' = auxMerged
    BY <1>8, AggregateIsReport DEF GoldOverwrite
  <2>2. WalPosition(auxReported)' = WalPosition(auxMerged)
    BY <1>1, <1>3, <2>1
  <2>3. Mirror!Recompute
    BY <1>4, <1>8, <2>1, <2>2 DEF Mirror!Recompute, Columns
  <2> QED
    BY <2>3 DEF Mirror!Next
<1> QED
  BY <1>6, <1>7, <1>8, MirrorMoves

(***************************************************************************)
(* With a connector that is never restarted, silver is at every moment the *)
(* source's table at one position of the WAL and never goes back to an     *)
(* earlier one, and gold is the report on one such table: the lakehouse    *)
(* implements SourceMirror, however its jobs die, retry and lose their     *)
(* checkpoints, and whatever else is on the topic.                         *)
(***************************************************************************)
THEOREM LakehouseMirrorsSource ==
    ASSUME MaxRestarts = 0
    PROVE  Spec => MirrorsSource
<1>1. Init => TopicIsOrdered
  BY DEF Init, SourceInit, TopicIsOrdered
<1>2. IInv /\ CaughtUpInv /\ [Next]_vars /\ TopicIsOrdered => TopicIsOrdered'
  BY OrderedStep DEF CaughtUpInv
<1> DEFINE Good == IInv /\ ReplayInv /\ CaughtUpInv /\ TopicIsOrdered
<1>3. Spec => []Good
  BY <1>1, <1>2, CaughtUpInvariant, PTL DEF Spec
<1> DEFINE Held == Columns = TableAfter(wal, WalPosition(auxMerged))
<1>4. Good => Held
  BY ColumnsAreSource DEF CaughtUpInv, ReplayInv
<1>5. Good /\ Good' /\ Held' /\ [Next]_vars => [Mirror!Next]_(Mirror!vars)
  BY MirrorStep, NextStep
<1> HIDE DEF Good, Held
<1> QED
  BY <1>3, <1>4, <1>5, MirrorInit, PTL DEF Spec, MirrorsSource, Mirror!Spec
=============================================================================
