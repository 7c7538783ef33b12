------------------------- MODULE SnowflakeRunsProofs -------------------------
(***************************************************************************)
(* Theorems about SnowflakeRuns, for every number of runs, payments,       *)
(* changes and faults.  The invariant has three layers: what is staged is  *)
(* finite and about known rows; RAW, its history and the control table go  *)
(* together; and a run is registered, and its rates complete, before the   *)
(* task that relies on it.  Two more sections add what holds when runs are *)
(* staged once.                                                            *)
(***************************************************************************)
EXTENDS SnowflakeRuns, FiniteSetTheorems, FunctionTheorems, NumberLemmas

\* The versions of rows that can ever be.
Known == Keys \X (0 .. MaxChanges + 1)

LEMMA KnownRows == Known \subseteq Rows /\ IsFiniteSet(Known)
<1>1. IsFiniteSet(0 .. MaxChanges + 1) /\ IsFiniteSet(Keys)
  BY FS_Interval, StagingAssumption DEF StagingAssumption
<1>2. IsFiniteSet(Known)
  BY <1>1, FS_Product, Zenon DEF Known
<1>3. Known \subseteq Rows
  <2>1. 0 .. MaxChanges + 1 \subseteq Nat
    BY StagingAssumption, SMT DEF StagingAssumption
  <2> QED
    BY <2>1, SMT DEF Known, Rows
<1> QED
  BY <1>2, <1>3

StagingInv ==
    /\ clock \in 1 .. MaxChanges + 1
    /\ source \in [Datasets -> SUBSET Known]
    /\ attempt \in [Datasets -> [busy : BOOLEAN, left : SUBSET Known,
                                 parts : Nat, rows : SUBSET Known]]
    /\ files \in [Datasets -> [Runs -> Seq(SUBSET Known)]]
    /\ staged \in [Datasets -> [Runs -> [parts : Nat, rows : SUBSET Known]]]

\* A run without rows in RAW has none in its history.
LoadInv ==
    /\ loaded \in [Datasets -> [Runs -> SUBSET (Nat \X SUBSET Known)]]
    /\ raw \in [Datasets -> [Runs -> SUBSET Known]]
    /\ history \in [Datasets -> [Runs -> [files : Nat, rows : Nat, skipped : Nat]]]
    /\ completions \in Nat
    /\ completedAt = [d \in Datasets |-> completedAt[d]]
    /\ \A d \in Datasets :
         /\ Registered(d) \subseteq Runs
         /\ completedAt[d] \in [Registered(d) -> 0 .. completions]
    /\ partialCopies \in Nat /\ forgotten \in Nat
    /\ \A d \in Datasets, r \in Runs : raw[d][r] = {} => history[d][r].rows = 0

PastRegistration ==
    {"load_raw", "validate_snapshot_load", "dbt_run", "dbt_test", "success"}

\* What the control table says, for the task and the statement a run is at.
TableOf(t, p, r) ==
    /\ t \in PastRegistration => \A d \in Datasets : r \in Registered(d)
    /\ t = "register_runs" /\ p > 1 => r \in Registered("fx_rates")
    /\ t = "register_runs" /\ p > 2 => r \in Registered("payments")
    /\ t = "validate_snapshot_load" /\ p > 1 => r \in Completed("fx_rates")

\* A run that is not executing resumes its task at the first statement.
PosOf(r) == IF r = active THEN pos ELSE 1

RunInv ==
    /\ active \in 0 .. MaxRuns
    /\ task \in [Runs -> Tasks]
    /\ pos \in 1 .. 3
    /\ active = 0 => pos = 1
    /\ faults \in [DOMAIN MaxFaults -> Nat]
    /\ \A r \in Runs : TableOf(task[r], PosOf(r), r)

\* What dbt sees.
ServedInv ==
    /\ fact \subseteq Known /\ report \subseteq Known
    /\ PaymentsOnlyWithRates
    /\ \A r \in Completed("payments") : raw["payments"][r] # {}
    /\ fact # {} => Completed("payments") # {}

SInv == StagingInv /\ LoadInv /\ RunInv /\ ServedInv

-----------------------------------------------------------------------------
LEMMA InitSInv ==
    ASSUME Init
    PROVE  SInv
<1>1. Datasets = {"fx_rates", "payments"} /\ MaxChanges \in Nat /\ MaxRuns \in Nat
  BY StagingAssumption DEF Datasets, StagingAssumption
<1>2. \A k \in Keys : <<k, 1>> \in Known
  BY <1>1 DEF Known
<1>3. (CHOOSE k \in Keys : TRUE) \in Keys
  BY StagingAssumption DEF StagingAssumption
<1>4. StagingInv
  <2>1. source \in [Datasets -> SUBSET Known]
    BY <1>1, <1>2, <1>3 DEF Init, StagingInit
  <2>2. NoAttempt \in [busy : BOOLEAN, left : SUBSET Known, parts : Nat, rows : SUBSET Known]
    BY Zenon DEF NoAttempt
  <2>3. attempt \in [Datasets -> [busy : BOOLEAN, left : SUBSET Known,
                                 parts : Nat, rows : SUBSET Known]]
    BY <2>2, Zenon DEF Init, StagingInit
  <2>4. files \in [Datasets -> [Runs -> Seq(SUBSET Known)]]
    BY DEF Init, StagingInit
  <2>5. staged \in [Datasets -> [Runs -> [parts : Nat, rows : SUBSET Known]]]
    BY DEF Init, StagingInit, NotStaged
  <2>6. clock \in 1 .. MaxChanges + 1
    BY <1>1 DEF Init, StagingInit
  <2> QED
    BY <2>1, <2>3, <2>4, <2>5, <2>6, Zenon DEF StagingInv
<1>5. \A d \in Datasets : Registered(d) = {}
  BY DEF Init, LoadInit, Registered
<1>6. LoadInv
  <2>1. \A d \in Datasets : completedAt[d] \in [{} -> 0 .. completions]
    BY DEF Init, LoadInit
  <2> QED
    BY <1>1, <1>5, <2>1 DEF Init, LoadInit, LoadInv, NoHistory
<1>7. RunInv
  BY <1>1 DEF Init, RunInv, TableOf, PosOf, PastRegistration, Tasks
<1>8. ServedInv
  BY <1>1, <1>5 DEF Init, ServedInv, PaymentsOnlyWithRates, Completed
<1> QED
  BY <1>4, <1>6, <1>7, <1>8 DEF SInv
-----------------------------------------------------------------------------
(***************************************************************************)
(* What a step does to each of the three parts.                            *)
(***************************************************************************)
StagingMoves ==
    \/ \E k \in Keys : WritePayment(k)
    \/ \E d \in Datasets, r \in Runs :
         \/ StartAttempt(d, r) \/ PutPart(d, r) \/ FinishAttempt(d, r)
         \/ AbortAttempt(d)
    \/ \E r \in Runs : ClearAll(r)
    \/ UNCHANGED stagingVars

LoadMoves ==
    \/ \E d \in Datasets : Copy(d)
    \/ \E d \in Datasets, r \in Runs : Register(d, r) \/ ForgetHistory(d, r)
    \/ /\ ValidateSnapshotLoad
       /\ InTask("validate_snapshot_load")
       /\ Reconciles(staged[DatasetAt][active], history[DatasetAt][active])
       /\ Complete(DatasetAt, active)
       /\ UNCHANGED stagingVars
    \/ UNCHANGED loadVars

LEMMA Moves ==
    ASSUME RunInv, [Next]_vars
    PROVE  StagingMoves /\ LoadMoves
<1>1. CASE Operator
  BY <1>1 DEF Operator, TriggerRun, ClearFailed, ClearAll, StagingMoves, LoadMoves
<1>2. CASE Tasked
  <2>1. DatasetAt \in Datasets
    BY DEF DatasetAt, Datasets
  <2>2. active > 0 => active \in Runs
    BY StagingAssumption DEF RunInv, Runs, StagingAssumption
  <2>3. ASSUME NEW d \in Datasets, Stage(d) \/ FailStaging(d)
        PROVE  StagingMoves /\ LoadMoves
    BY <2>2, <2>3 DEF Stage, FailStaging, At, StagingMoves, LoadMoves
  <2>4. CASE AllStaged \/ RefuseSnapshot \/ BuildFact \/ BuildReport \/ DbtTest \/ FailTask
    BY <2>4
       DEF AllStaged, RefuseSnapshot, BuildFact, BuildReport, DbtTest, FailTask, StagingMoves,
           LoadMoves
  <2>5. CASE RegisterRuns \/ LoadRaw
    BY <2>1, <2>2, <2>5 DEF RegisterRuns, LoadRaw, TaskDone, InTask, StagingMoves, LoadMoves
  <2>6. CASE ValidateSnapshotLoad
    BY <2>6 DEF ValidateSnapshotLoad, TaskDone, StagingMoves, LoadMoves
  <2> QED
    BY <1>2, <2>3, <2>4, <2>5, <2>6 DEF Tasked
<1>3. CASE Around
  BY <1>3 DEF Around, LoadByHand, StagingMoves, LoadMoves
<1>4. CASE UNCHANGED vars
  BY <1>4 DEF vars, StagingMoves, LoadMoves
<1> QED
  BY <1>1, <1>2, <1>3, <1>4 DEF Next

-----------------------------------------------------------------------------
(***************************************************************************)
(* Staging.                                                                *)
(***************************************************************************)
AttemptType == [busy : BOOLEAN, left : SUBSET Known, parts : Nat, rows : SUBSET Known]

LEMMA ExceptInSeq ==
    ASSUME NEW S, NEW seq \in Seq(S), NEW n, NEW x \in S
    PROVE  [seq EXCEPT ![n] = x] \in Seq(S)
<1>1. /\ Len(seq) \in Nat
      /\ seq \in [1 .. Len(seq) -> S]
  OBVIOUS
<1>2. [seq EXCEPT ![n] = x] \in [1 .. Len(seq) -> S]
  BY <1>1, Zenon
<1>3. \A len \in Nat : \A f \in [1 .. len -> S] : f \in Seq(S)
  OBVIOUS
<1> QED
  BY <1>1, <1>2, <1>3, Zenon

LEMMA StagingStep ==
    ASSUME StagingInv, StagingMoves
    PROVE  StagingInv'
<1> USE DEF StagingInv
<1>1. ASSUME NEW k \in Keys, WritePayment(k)
      PROVE  StagingInv'
  <2>1. clock' = clock + 1 /\ clock \in 1 .. MaxChanges /\ MaxChanges \in Nat
    BY <1>1, StagingAssumption DEF WritePayment, StagingAssumption
  <2>2. <<k, clock'>> \in Known
    BY <2>1 DEF Known
  <2> DEFINE others == {row \in source["payments"] : row[1] # k}
  <2>3. others \subseteq Known /\ others \union {<<k, clock'>>} \subseteq Known
    BY <2>2 DEF Datasets
  <2>4. source' \in {[source EXCEPT !["payments"] = others \union {<<k, clock'>>}],
                    [source EXCEPT !["payments"] = others]}
    BY <1>1 DEF WritePayment
  <2> HIDE DEF others
  <2>5. source' \in [Datasets -> SUBSET Known]
    BY <2>3, <2>4
  <2> QED
    BY <1>1, <2>1, <2>5 DEF WritePayment
<1>2. ASSUME NEW d \in Datasets, NEW r \in Runs, StartAttempt(d, r)
      PROVE  StagingInv'
  <2>1. source[d] \subseteq Known
    OBVIOUS
  <2>2. [busy |-> TRUE, left |-> source[d], parts |-> 0, rows |-> {}] \in AttemptType
    BY <2>1, Zenon DEF AttemptType
  <2>3. attempt' \in [Datasets -> AttemptType]
    BY <1>2, <2>2, Zenon DEF StartAttempt, AttemptType
  <2> QED
    BY <1>2, <2>3, Zenon DEF StartAttempt, AttemptType
<1>3. ASSUME NEW d \in Datasets, NEW r \in Runs, PutPart(d, r)
      PROVE  StagingInv'
  <2>1. PICK body \in SUBSET attempt[d].left :
          /\ files' = [files EXCEPT ![d][r] = PutObject(@, attempt[d].parts + 1, body)]
          /\ attempt' = [attempt EXCEPT ![d] = [busy |-> TRUE, left |-> attempt[d].left \ body,
                                                parts |-> attempt[d].parts + 1,
                                                rows |-> attempt[d].rows \union body]]
    BY <1>3 DEF PutPart
  <2>2. attempt[d].left \subseteq Known /\ attempt[d].rows \subseteq Known
        /\ attempt[d].parts \in Nat
    BY Zenon
  <2>3. attempt[d].left \ body \subseteq Known /\ attempt[d].rows \union body \subseteq Known
        /\ attempt[d].parts + 1 \in Nat /\ body \subseteq Known
    BY <2>2
  <2>4. [busy |-> TRUE, left |-> attempt[d].left \ body, parts |-> attempt[d].parts + 1,
         rows |-> attempt[d].rows \union body] \in AttemptType
    BY <2>3, Zenon DEF AttemptType
  <2>5. attempt' \in [Datasets -> AttemptType]
    BY <2>1, <2>4, Zenon DEF AttemptType
  <2>6. files[d][r] \in Seq(SUBSET Known)
    BY Zenon
  <2>7. PutObject(files[d][r], attempt[d].parts + 1, body) \in Seq(SUBSET Known)
    <3> DEFINE n == attempt[d].parts + 1
    <3>1. CASE n <= Len(files[d][r])
      <4>1. [files[d][r] EXCEPT ![n] = body] \in Seq(SUBSET Known)
        BY <2>3, <2>6, ExceptInSeq, Zenon
      <4> QED
        BY <3>1, <4>1 DEF PutObject
    <3>2. CASE ~(n <= Len(files[d][r]))
      <4>1. Append(files[d][r], body) \in Seq(SUBSET Known)
        BY <2>3, <2>6
      <4> QED
        BY <3>2, <4>1 DEF PutObject
    <3> QED
      BY <3>1, <3>2
  <2>8. files' \in [Datasets -> [Runs -> Seq(SUBSET Known)]]
    BY <2>1, <2>7, Zenon
  <2> QED
    BY <1>3, <2>5, <2>8, Zenon DEF PutPart, AttemptType
<1>4. ASSUME NEW d \in Datasets, NEW r \in Runs, FinishAttempt(d, r)
      PROVE  StagingInv'
  <2>1. attempt[d].parts \in Nat /\ attempt[d].rows \in SUBSET Known
    BY Zenon
  <2>2. staged' \in [Datasets -> [Runs -> [parts : Nat, rows : SUBSET Known]]]
    BY <1>4, <2>1, Zenon DEF FinishAttempt
  <2>3. NoAttempt \in AttemptType
    BY Zenon DEF NoAttempt, AttemptType
  <2>4. attempt' \in [Datasets -> AttemptType]
    BY <1>4, <2>3, Zenon DEF FinishAttempt, AttemptType
  <2> QED
    BY <1>4, <2>2, <2>4, Zenon DEF FinishAttempt, AttemptType
<1>5. ASSUME NEW d \in Datasets, AbortAttempt(d)
      PROVE  StagingInv'
  <2>1. NoAttempt \in AttemptType
    BY Zenon DEF NoAttempt, AttemptType
  <2>2. attempt' \in [Datasets -> AttemptType]
    BY <1>5, <2>1, Zenon DEF AbortAttempt, AttemptType
  <2> QED
    BY <1>5, <2>2, Zenon DEF AbortAttempt, AttemptType
<1>6. ASSUME NEW r \in Runs, ClearAll(r)
      PROVE  StagingInv'
  <2>1. NotStaged \in [parts : Nat, rows : SUBSET Known]
    BY DEF NotStaged
  <2>2. staged' \in [Datasets -> [Runs -> [parts : Nat, rows : SUBSET Known]]]
    BY <1>6, <2>1, Zenon DEF ClearAll
  <2> QED
    BY <1>6, <2>2, Zenon DEF ClearAll
<1>7. ASSUME UNCHANGED stagingVars
      PROVE  StagingInv'
  BY <1>7, Zenon DEF stagingVars
<1> QED
  BY <1>1, <1>2, <1>3, <1>4, <1>5, <1>6, <1>7 DEF StagingMoves
-----------------------------------------------------------------------------
(***************************************************************************)
(* COPY.                                                                   *)
(***************************************************************************)
PartsOf(d, got, r) == {p \in DOMAIN files[d][r] : <<r, p>> \in got}

RowsOf(d, got, r) == UNION {{p} \X files[d][r][p] : p \in PartsOf(d, got, r)}

LEMMA PartsAreFinite ==
    ASSUME StagingInv, NEW d \in Datasets, NEW got, NEW r \in Runs
    PROVE  /\ PartsOf(d, got, r) \subseteq Nat
           /\ \A p \in PartsOf(d, got, r) : files[d][r][p] \subseteq Known
           /\ IsFiniteSet(PartsOf(d, got, r))
           /\ Cardinality(PartsOf(d, got, r)) \in Nat
           /\ RowsOf(d, got, r) \subseteq Nat \X Known
           /\ Cardinality(RowsOf(d, got, r)) \in Nat
           /\ RowsOf(d, got, r) = {} => Cardinality(RowsOf(d, got, r)) = 0
<1>1. files[d][r] \in Seq(SUBSET Known)
  BY Zenon DEF StagingInv
<1>2. /\ DOMAIN files[d][r] = 1 .. Len(files[d][r]) /\ Len(files[d][r]) \in Nat
      /\ \A p \in DOMAIN files[d][r] : files[d][r][p] \subseteq Known
  BY <1>1
<1>3. PartsOf(d, got, r) \subseteq 1 .. Len(files[d][r])
  BY <1>2 DEF PartsOf
<1>4. IsFiniteSet(1 .. Len(files[d][r]))
  BY <1>2, FS_Interval
<1>5. IsFiniteSet(PartsOf(d, got, r)) /\ Cardinality(PartsOf(d, got, r)) \in Nat
  BY <1>3, <1>4, FS_Subset, FS_CardinalityType
<1>6. \A p \in PartsOf(d, got, r) : files[d][r][p] \subseteq Known
  BY <1>2, <1>3
<1>7. RowsOf(d, got, r) \subseteq (1 .. Len(files[d][r])) \X Known
  <2>1. ASSUME NEW x \in RowsOf(d, got, r)
        PROVE  x \in (1 .. Len(files[d][r])) \X Known
    <3>1. PICK p \in PartsOf(d, got, r) : x \in {p} \X files[d][r][p]
      BY DEF RowsOf
    <3> QED
      BY <1>3, <1>6, <3>1
  <2> QED
    BY <2>1
<1>8. IsFiniteSet((1 .. Len(files[d][r])) \X Known)
  BY <1>4, KnownRows, FS_Product
<1>9. IsFiniteSet(RowsOf(d, got, r)) /\ Cardinality(RowsOf(d, got, r)) \in Nat
  BY <1>7, <1>8, FS_Subset, FS_CardinalityType
<1> QED
  BY <1>2, <1>3, <1>5, <1>6, <1>7, <1>9, FS_EmptySet

\* What Load does, run by run.
LEMMA LoadByRun ==
    ASSUME StagingInv, LoadInv, NEW d \in Datasets, NEW got, NEW skipped,
           Load(d, got, skipped)
    PROVE  /\ loaded' = [loaded EXCEPT ![d] = [r \in Runs |->
                           {l \in loaded[d][r] : l[1] \notin PartsOf(d, got, r)}
                             \union {<<p, files[d][r][p]>> : p \in PartsOf(d, got, r)}]]
           /\ raw' = [raw EXCEPT ![d] = [r \in Runs |->
                        raw[d][r] \union {pair[2] : pair \in RowsOf(d, got, r)}]]
           /\ history' = [history EXCEPT ![d] = [r \in Runs |->
                 [files   |-> history[d][r].files + Cardinality(PartsOf(d, got, r))
                                + Cardinality(PartsOf(d, skipped, r)),
                  rows    |-> history[d][r].rows + Cardinality(RowsOf(d, got, r)),
                  skipped |-> history[d][r].skipped + Cardinality(PartsOf(d, skipped, r))]]]
  BY DEF Load, PartsOf, RowsOf

LEMMA LoadStepInv ==
    ASSUME StagingInv, LoadInv, NEW d \in Datasets, NEW got, NEW skipped,
           Load(d, got, skipped), partialCopies' \in Nat
    PROVE  LoadInv'
<1> DEFINE Lo(r) == {l \in loaded[d][r] : l[1] \notin PartsOf(d, got, r)}
                      \union {<<p, files[d][r][p]>> : p \in PartsOf(d, got, r)}
           Ra(r) == raw[d][r] \union {pair[2] : pair \in RowsOf(d, got, r)}
           Hi(r) == [files   |-> history[d][r].files + Cardinality(PartsOf(d, got, r))
                                   + Cardinality(PartsOf(d, skipped, r)),
                     rows    |-> history[d][r].rows + Cardinality(RowsOf(d, got, r)),
                     skipped |-> history[d][r].skipped + Cardinality(PartsOf(d, skipped, r))]
<1>1. /\ loaded' = [loaded EXCEPT ![d] = [r \in Runs |-> Lo(r)]]
      /\ raw' = [raw EXCEPT ![d] = [r \in Runs |-> Ra(r)]]
      /\ history' = [history EXCEPT ![d] = [r \in Runs |-> Hi(r)]]
  BY LoadByRun
<1>2. /\ loaded \in [Datasets -> [Runs -> SUBSET (Nat \X SUBSET Known)]]
      /\ raw \in [Datasets -> [Runs -> SUBSET Known]]
      /\ history \in [Datasets -> [Runs -> [files : Nat, rows : Nat, skipped : Nat]]]
      /\ \A e \in Datasets, r \in Runs : raw[e][r] = {} => history[e][r].rows = 0
  BY DEF LoadInv
<1>3. ASSUME NEW r \in Runs
      PROVE  /\ Lo(r) \in SUBSET (Nat \X SUBSET Known)
             /\ Ra(r) \in SUBSET Known
             /\ Hi(r) \in [files : Nat, rows : Nat, skipped : Nat]
             /\ Ra(r) = {} => Hi(r).rows = 0
  <2>1. /\ loaded[d][r] \subseteq Nat \X SUBSET Known
        /\ raw[d][r] \subseteq Known
        /\ history[d][r] \in [files : Nat, rows : Nat, skipped : Nat]
    <3>1. loaded[d] \in [Runs -> SUBSET (Nat \X SUBSET Known)]
      BY <1>2, Zenon
    <3>4. loaded[d][r] \in SUBSET (Nat \X SUBSET Known)
      BY <3>1, Zenon
    <3>2. raw[d][r] \in SUBSET Known
      BY <1>2, Zenon
    <3>3. history[d][r] \in [files : Nat, rows : Nat, skipped : Nat]
      BY <1>2, Zenon
    <3> QED
      BY <3>4, <3>2, <3>3, Zenon
  <2>2. Lo(r) \in SUBSET (Nat \X SUBSET Known)
    BY <2>1, PartsAreFinite
  <2>3. Ra(r) \in SUBSET Known
    BY <2>1, PartsAreFinite
  <2>4. history[d][r].files \in Nat /\ history[d][r].rows \in Nat /\ history[d][r].skipped \in Nat
    BY <2>1
  <2>5. Hi(r) \in [files : Nat, rows : Nat, skipped : Nat]
    BY <2>4, PartsAreFinite
  <2>6. ASSUME Ra(r) = {} PROVE Hi(r).rows = 0
    <3>1. raw[d][r] = {} /\ RowsOf(d, got, r) = {}
      BY <2>6
    <3>2. history[d][r].rows = 0 /\ Cardinality(RowsOf(d, got, r)) = 0
      BY <1>2, <3>1, PartsAreFinite
    <3> QED
      BY <3>2
  <2> QED
    BY <2>2, <2>3, <2>5, <2>6
<1> HIDE DEF Lo, Ra, Hi
<1>4. /\ loaded' \in [Datasets -> [Runs -> SUBSET (Nat \X SUBSET Known)]]
      /\ raw' \in [Datasets -> [Runs -> SUBSET Known]]
      /\ history' \in [Datasets -> [Runs -> [files : Nat, rows : Nat, skipped : Nat]]]
  BY <1>1, <1>2, <1>3, Zenon
<1>5. ASSUME NEW e \in Datasets, NEW r \in Runs, raw'[e][r] = {}
      PROVE  history'[e][r].rows = 0
  <2>1. CASE e = d
    <3>1. raw'[d][r] = Ra(r) /\ history'[d][r] = Hi(r)
      BY <1>1, <1>2, Zenon
    <3> QED
      BY <1>3, <1>5, <2>1, <3>1
  <2>2. CASE e # d
    <3>1. raw'[e][r] = raw[e][r] /\ history'[e][r] = history[e][r]
      BY <1>1, <1>2, <2>2, Zenon
    <3> QED
      BY <1>2, <1>5, <3>1
  <2> QED
    BY <2>1, <2>2
<1>6. UNCHANGED <<completedAt, completions, forgotten>>
  BY DEF Load
<1> QED
  BY <1>4, <1>5, <1>6 DEF LoadInv, Registered

\* The control table and RAW only grow, and a run is completed only by
\* ValidateSnapshotLoad.
Grows ==
    /\ \A d \in Datasets :
         Registered(d) \subseteq Registered(d)' /\ Completed(d) \subseteq Completed(d)'
    /\ \A d \in Datasets, r \in Runs : raw[d][r] \subseteq raw'[d][r]

LEMMA CopyStep ==
    ASSUME StagingInv, LoadInv, NEW d \in Datasets, Copy(d)
    PROVE  LoadInv' /\ Grows /\ UNCHANGED completedAt
<1>1. PICK got, skipped : Load(d, got, skipped)
  BY DEF Copy
<1>2. partialCopies' \in Nat /\ UNCHANGED completedAt
  <2>1. partialCopies' \in {partialCopies, partialCopies + 1}
    BY DEF Copy
  <2>2. partialCopies \in Nat
    BY DEF LoadInv
  <2>3. UNCHANGED completedAt
    BY <1>1, Zenon DEF Load
  <2> QED
    BY <2>1, <2>2, <2>3
<1>3. LoadInv'
  BY <1>1, <1>2, LoadStepInv
<1>4. ASSUME NEW e \in Datasets, NEW r \in Runs
      PROVE  raw[e][r] \subseteq raw'[e][r]
  <2> DEFINE Ra(s) == raw[d][s] \union {pair[2] : pair \in RowsOf(d, got, s)}
  <2>1. raw' = [raw EXCEPT ![d] = [s \in Runs |-> Ra(s)]]
    BY <1>1, LoadByRun
  <2>2. raw[d][r] \subseteq Ra(r)
    OBVIOUS
  <2> HIDE DEF Ra
  <2> QED
    BY <2>1, <2>2 DEF LoadInv
<1> QED
  BY <1>2, <1>3, <1>4 DEF Grows, Registered, Completed
-----------------------------------------------------------------------------
(***************************************************************************)
(* The control table.                                                      *)
(***************************************************************************)
\* In this layer only the table of the dataset at hand changes.
LEMMA TableStep ==
    ASSUME LoadInv, NEW d \in Datasets, NEW new, NEW n \in Nat, completions <= n,
           completedAt' = [completedAt EXCEPT ![d] = new], completions' = n,
           DOMAIN new \subseteq Runs, new \in [DOMAIN new -> 0 .. n],
           \A r \in Registered(d) :
             r \in DOMAIN new /\ (completedAt[d][r] > 0 => new[r] > 0),
           UNCHANGED <<loaded, raw, history, partialCopies, forgotten>>
    PROVE  LoadInv' /\ Grows
<1>1. completedAt = [e \in Datasets |-> completedAt[e]] /\ completions \in Nat
  BY DEF LoadInv
<1>2. completedAt' = [e \in Datasets |-> IF e = d THEN new ELSE completedAt[e]]
  BY <1>1, Zenon
<1> HIDE DEF LoadInv
<1>3. ASSUME NEW e \in Datasets
      PROVE  /\ Registered(e)' \subseteq Runs
             /\ completedAt'[e] \in [Registered(e)' -> 0 .. completions']
             /\ Registered(e) \subseteq Registered(e)'
             /\ Completed(e) \subseteq Completed(e)'
  <2>1. CASE e = d
    <3>1. completedAt'[e] = new
      BY <1>2, <2>1
    <3> QED
      BY <2>1, <3>1 DEF Registered, Completed
  <2>2. CASE e # d
    <3>1. completedAt'[e] = completedAt[e]
      BY <1>2, <2>2
    <3>2. Registered(e) \subseteq Runs /\ completedAt[e] \in [Registered(e) -> 0 .. completions]
      BY DEF LoadInv
    <3>3. completedAt[e] \in [Registered(e) -> 0 .. n]
      BY <1>1, <3>2
    <3> QED
      BY <3>1, <3>2, <3>3 DEF Registered, Completed
  <2> QED
    BY <2>1, <2>2
<1>4. completedAt' = [e \in Datasets |-> completedAt'[e]]
  BY <1>2
<1>5. LoadInv'
  BY <1>3, <1>4 DEF LoadInv
<1> QED
  BY <1>3, <1>5 DEF Grows

LEMMA RegisterStep ==
    ASSUME LoadInv, NEW d \in Datasets, NEW r \in Runs, Register(d, r)
    PROVE  /\ LoadInv' /\ Grows /\ r \in Registered(d)'
           /\ UNCHANGED raw /\ \A e \in Datasets : Completed(e)' = Completed(e)
<1> DEFINE new == [s \in Registered(d) \union {r} |->
                     IF s \in Registered(d) THEN completedAt[d][s] ELSE 0]
<1>1. /\ completedAt' = [completedAt EXCEPT ![d] = new]
      /\ UNCHANGED <<loaded, raw, history, completions, partialCopies, forgotten>>
  BY DEF Register
<1>2. /\ Registered(d) \subseteq Runs /\ completions \in Nat
      /\ completedAt[d] \in [Registered(d) -> 0 .. completions]
      /\ completedAt = [e \in Datasets |-> completedAt[e]]
  BY DEF LoadInv
<1>3. /\ DOMAIN new = Registered(d) \union {r}
      /\ new \in [DOMAIN new -> 0 .. completions]
      /\ \A s \in Registered(d) : new[s] = completedAt[d][s]
      /\ r \notin Registered(d) => new[r] = 0
  BY <1>2
<1> HIDE DEF new
<1>4. LoadInv' /\ Grows
  BY <1>1, <1>2, <1>3, TableStep
<1>5. completedAt'[d] = new /\ \A e \in Datasets : e # d => completedAt'[e] = completedAt[e]
  BY <1>1, <1>2
<1>6. \A e \in Datasets : Completed(e)' = Completed(e)
  BY <1>2, <1>3, <1>5 DEF Completed, Registered
<1> QED
  BY <1>1, <1>3, <1>4, <1>5, <1>6 DEF Registered

LEMMA CompleteStep ==
    ASSUME LoadInv, NEW d \in Datasets, NEW r \in Runs, Complete(d, r)
    PROVE  /\ LoadInv' /\ Grows
           /\ UNCHANGED raw
           /\ r \in Registered(d) => r \in Completed(d)'
           /\ Completed(d)' \subseteq Completed(d) \union {r}
           /\ \A e \in Datasets : e # d => Completed(e)' = Completed(e)
<1>1. /\ Registered(d) \subseteq Runs /\ completions \in Nat
      /\ completedAt[d] \in [Registered(d) -> 0 .. completions]
      /\ completedAt = [e \in Datasets |-> completedAt[e]]
  BY DEF LoadInv
<1>2. CASE r \in Registered(d) \ Completed(d)
  <2> DEFINE new == [completedAt[d] EXCEPT ![r] = completions + 1]
  <2>1. /\ completedAt' = [completedAt EXCEPT ![d] = new]
        /\ completions' = completions + 1
        /\ UNCHANGED <<loaded, raw, history, partialCopies, forgotten>>
    BY <1>2 DEF Complete
  <2>2. /\ DOMAIN new = Registered(d)
        /\ new \in [DOMAIN new -> 0 .. completions + 1]
        /\ \A s \in Registered(d) : s # r => new[s] = completedAt[d][s]
        /\ new[r] > 0
    BY <1>1, <1>2
  <2> HIDE DEF new
  <2>3. LoadInv' /\ Grows
    BY <1>1, <2>1, <2>2, TableStep
  <2>4. completedAt'[d] = new /\ \A e \in Datasets : e # d => completedAt'[e] = completedAt[e]
    BY <1>1, <2>1
  <2> QED
    BY <1>1, <1>2, <2>1, <2>2, <2>3, <2>4 DEF Completed, Registered
<1>3. CASE r \notin Registered(d) \ Completed(d)
  <2>1. UNCHANGED loadVars
    BY <1>3 DEF Complete, loadVars
  <2> QED
    BY <1>3, <2>1 DEF LoadInv, Grows, Registered, Completed, loadVars
<1> QED
  BY <1>2, <1>3

LEMMA ForgetStep ==
    ASSUME LoadInv, NEW d \in Datasets, NEW r \in Runs, ForgetHistory(d, r)
    PROVE  LoadInv' /\ Grows /\ UNCHANGED <<raw, completedAt>>
<1>1. /\ history' = [history EXCEPT ![d][r] = NoHistory]
      /\ forgotten' = forgotten + 1
      /\ UNCHANGED <<loaded, raw, completedAt, completions, partialCopies>>
  BY DEF ForgetHistory
<1>2. history' \in [Datasets -> [Runs -> [files : Nat, rows : Nat, skipped : Nat]]]
  <2>1. NoHistory \in [files : Nat, rows : Nat, skipped : Nat]
    BY DEF NoHistory
  <2> QED
    BY <1>1, <2>1, Zenon DEF LoadInv
<1>3. ASSUME NEW e \in Datasets, NEW s \in Runs, raw'[e][s] = {}
      PROVE  history'[e][s].rows = 0
  <2>1. CASE e = d /\ s = r
    BY <1>1, <2>1 DEF LoadInv, NoHistory
  <2>2. CASE ~(e = d /\ s = r)
    BY <1>1, <1>3, <2>2 DEF LoadInv
  <2> QED
    BY <2>1, <2>2
<1> QED
  BY <1>1, <1>2, <1>3 DEF LoadInv, Grows, Registered, Completed
LEMMA DatasetsAre == Datasets = {"fx_rates", "payments"} /\ DatasetAt \in Datasets
  BY DEF Datasets, DatasetAt

LEMMA ActiveRun ==
    ASSUME RunInv, active > 0
    PROVE  active \in Runs
  BY StagingAssumption DEF RunInv, Runs, StagingAssumption

LEMMA LoadStep ==
    ASSUME StagingInv, LoadInv, RunInv, LoadMoves
    PROVE  LoadInv' /\ Grows
<1>1. CASE UNCHANGED loadVars
  BY <1>1 DEF LoadInv, Grows, Registered, Completed, loadVars
<1>2. ASSUME InTask("validate_snapshot_load"), Complete(DatasetAt, active)
      PROVE  LoadInv' /\ Grows
  BY <1>2, DatasetsAre, ActiveRun, CompleteStep DEF InTask
<1> QED
  BY <1>1, <1>2, CopyStep, RegisterStep, ForgetStep DEF LoadMoves

-----------------------------------------------------------------------------
(***************************************************************************)
(* The DAG run.                                                            *)
(***************************************************************************)
LEMMA TableGrows ==
    ASSUME Grows, NEW t, NEW p, NEW r, TableOf(t, p, r)
    PROVE  TableOf(t, p, r)'
  BY DatasetsAre DEF TableOf, Grows
RunMoves(r) ==
    \/ task'[r] = task[r] /\ (PosOf(r)' = PosOf(r) \/ PosOf(r)' = 1)
    \/ task'[r] \in {"stage", "register_runs"} /\ PosOf(r)' = 1
    \/ task[r] = "register_runs" /\ PosOf(r) = 3 /\ task'[r] = "load_raw" /\ PosOf(r)' = 1
    \/ /\ task[r] \in PastRegistration /\ task'[r] \in PastRegistration
       /\ PosOf(r)' = 1
    \/ /\ r = active /\ task'[r] = task[r] /\ task[r] \in {"load_raw", "dbt_run"}
    \/ /\ r = active /\ pos < 3 /\ task[r] = "register_runs" /\ task'[r] = task[r]
       /\ PosOf(r)' = pos + 1 /\ PosOf(r) = pos
       /\ Register(DatasetAt, r)
    \/ /\ r = active /\ pos < 3 /\ task[r] = "validate_snapshot_load" /\ task'[r] = task[r]
       /\ PosOf(r)' = pos + 1 /\ PosOf(r) = pos
       /\ Complete(DatasetAt, r)

DagTypeOK ==
    /\ active \in 0 .. MaxRuns
    /\ task \in [Runs -> Tasks]
    /\ pos \in 1 .. 3
    /\ active = 0 => pos = 1

\* The ways in which a task ends, goes on and is left.
LEMMA TaskEnds ==
    ASSUME RunInv, active > 0, NEW next \in Tasks, GoTo(next)
    PROVE  /\ DagTypeOK'
           /\ task'[active] = next
           /\ \A r \in Runs : r # active => task'[r] = task[r]
           /\ \A r \in Runs : PosOf(r)' = 1
<1>1. MaxRuns \in Nat /\ active \in Runs
  BY ActiveRun, StagingAssumption DEF StagingAssumption
<1> QED
  BY <1>1 DEF RunInv, GoTo, DagTypeOK, PosOf

LEMMA TaskGoesOn ==
    ASSUME RunInv, active > 0, pos < 3, NextStatement
    PROVE  /\ DagTypeOK'
           /\ UNCHANGED <<active, task>>
           /\ PosOf(active) = pos /\ PosOf(active)' = pos + 1
           /\ \A r \in Runs : r # active => PosOf(r)' = PosOf(r)
  BY DEF RunInv, NextStatement, DagTypeOK, PosOf

LEMMA TaskIsLeft ==
    ASSUME RunInv, UNCHANGED task, pos' = 1 \/ UNCHANGED <<pos, active>>,
           active' \in {active, 0}
    PROVE  DagTypeOK' /\ \A r \in Runs : RunMoves(r)
<1>1. MaxRuns \in Nat
  BY StagingAssumption DEF StagingAssumption
<1> QED
  BY <1>1 DEF RunInv, DagTypeOK, PosOf, RunMoves

LEMMA DagStep ==
    ASSUME RunInv, [Next]_vars
    PROVE  DagTypeOK' /\ \A r \in Runs : RunMoves(r)
<1> DEFINE Goal == DagTypeOK' /\ \A r \in Runs : RunMoves(r)
<1>0. MaxRuns \in Nat /\ (active > 0 => active \in Runs)
  BY ActiveRun, StagingAssumption DEF StagingAssumption
<1>1. CASE Operator
  <2>1. ASSUME NEW r \in Runs, TriggerRun(r) PROVE Goal
    BY <1>0, <2>1 DEF TriggerRun, Tasks, Runs, RunMoves, RunInv, PosOf, DagTypeOK
  <2>2. ASSUME NEW r \in Runs, ClearFailed(r) PROVE Goal
    BY <1>0, <2>2 DEF ClearFailed, Tasks, Runs, RunMoves, RunInv, PosOf, DagTypeOK
  <2>3. ASSUME NEW r \in Runs, ClearAll(r) PROVE Goal
    BY <1>0, <2>3 DEF ClearAll, Tasks, Runs, RunMoves, RunInv, PosOf, DagTypeOK
  <2> QED
    BY <1>1, <2>1, <2>2, <2>3, Zenon DEF Operator
<1>2. CASE UNCHANGED dagVars
  BY <1>2, TaskIsLeft DEF dagVars
<1>3. CASE Around
  BY <1>2, <1>3 DEF Around, LoadByHand
<1>4. ASSUME NEW d \in Datasets, FailStaging(d)
      PROVE  Goal
  BY <1>4, TaskIsLeft DEF FailStaging, At, RunInv
<1>5. ASSUME NEW d \in Datasets, Stage(d)
      PROVE  Goal
  BY <1>2, <1>5 DEF Stage
<1>6. CASE AllStaged
  BY <1>6, TaskEnds DEF AllStaged, At, Tasks, RunMoves
<1>7. ASSUME NEW t, NEW next \in Tasks, TaskDone(t, next),
             \/ t = "register_runs" /\ next = "load_raw"
             \/ t \in PastRegistration /\ next \in PastRegistration
      PROVE  Goal
  <2>1. /\ active > 0 /\ task[active] = t /\ pos = 3 /\ GoTo(next)
    BY <1>7 DEF TaskDone, At
  <2>2. PosOf(active) = 3
    BY <2>1 DEF PosOf
  <2> QED
    BY <1>7, <2>1, <2>2, TaskEnds DEF RunMoves
<1>8. ASSUME NEW t, InTask(t), NextStatement,
             \/ t = "register_runs" /\ Register(DatasetAt, active)
             \/ t = "load_raw"
             \/ t = "validate_snapshot_load" /\ Complete(DatasetAt, active)
      PROVE  Goal
  <2>1. active > 0 /\ task[active] = t /\ pos < 3
    BY <1>8 DEF InTask
  <2> QED
    BY <1>8, <2>1, TaskGoesOn DEF RunMoves
<1>9. CASE RegisterRuns
  BY <1>7, <1>8, <1>9 DEF RegisterRuns, Tasks
<1>10. CASE LoadRaw
  BY <1>7, <1>8, <1>10 DEF LoadRaw, Tasks, PastRegistration
<1>11. CASE ValidateSnapshotLoad
  BY <1>7, <1>8, <1>11 DEF ValidateSnapshotLoad, Tasks, PastRegistration
<1>12. CASE RefuseSnapshot
  BY <1>12, TaskIsLeft DEF RefuseSnapshot, InTask
<1>13. CASE BuildFact
  <2>1. active > 0 /\ task[active] = "dbt_run" /\ pos < 3 /\ NextStatement
    BY <1>13 DEF BuildFact, At
  <2> QED
    BY <2>1, TaskGoesOn DEF RunMoves
<1>14. CASE BuildReport
  BY <1>14, TaskEnds DEF BuildReport, At, Tasks, RunMoves, PastRegistration
<1>15. CASE DbtTest
  <2>1. active > 0 /\ task[active] = "dbt_test" /\ pos = 1
    BY <1>15 DEF DbtTest, At
  <2>2. CASE GoTo("success")
    BY <2>1, <2>2, TaskEnds DEF Tasks, RunMoves, PastRegistration
  <2>3. CASE active' = 0 /\ UNCHANGED <<task, pos>>
    BY <2>1, <2>3, TaskIsLeft
  <2> QED
    BY <1>15, <2>2, <2>3 DEF DbtTest
<1>16. CASE FailTask
  BY <1>16, TaskIsLeft DEF FailTask
<1> QED
  BY <1>1, <1>2, <1>3, <1>4, <1>5, <1>6, <1>9, <1>10, <1>11, <1>12, <1>13, <1>14, <1>15, <1>16
     DEF Next, Tasked, vars

LEMMA FaultsStep ==
    ASSUME RunInv, [Next]_vars
    PROVE  faults' \in [DOMAIN MaxFaults -> Nat]
<1>1. (\E kind : Fault(kind)) \/ UNCHANGED faults
  BY DEF Next, vars, Operator, TriggerRun, ClearFailed, ClearAll, Tasked, Stage, FailStaging,
         AllStaged, RegisterRuns, LoadRaw, ValidateSnapshotLoad, TaskDone, RefuseSnapshot,
         BuildFact, BuildReport, DbtTest, FailTask, Around, LoadByHand, NoFault
<1> QED
  BY <1>1 DEF Fault, RunInv

LEMMA RunStep ==
    ASSUME LoadInv, Grows, RunInv, [Next]_vars
    PROVE  RunInv'
<1>1. ASSUME NEW r \in Runs
      PROVE  TableOf(task[r], PosOf(r), r)'
  <2>1. PICK t, p, u, q : t = task[r] /\ p = PosOf(r) /\ u = task'[r] /\ q = PosOf(r)'
    OBVIOUS
  <2>2. RunMoves(r) /\ TableOf(t, p, r)
    BY <2>1, DagStep DEF RunInv
  <2>3. TableOf(t, p, r)'
    BY <2>2, TableGrows
  <2>4. p \in 1 .. 3
    BY <2>1 DEF RunInv, PosOf
  <2>5. TableOf(u, q, r)'
    <3>1. CASE r = active /\ pos < 3 /\ t = "register_runs" /\ Register(DatasetAt, r)
                 /\ u = t /\ p = pos /\ q = p + 1
      BY <2>3, <2>4, <3>1, DatasetsAre, RegisterStep DEF TableOf, DatasetAt, PastRegistration
    <3>2. CASE r = active /\ pos < 3 /\ t = "validate_snapshot_load" /\ Complete(DatasetAt, r)
                 /\ u = t /\ p = pos /\ q = p + 1
      BY <2>2, <2>3, <2>4, <3>2, DatasetsAre, CompleteStep DEF TableOf, DatasetAt, PastRegistration
    <3> QED
      BY <2>1, <2>2, <2>3, <2>4, <3>1, <3>2, DatasetsAre DEF RunMoves, TableOf, PastRegistration
  <2> QED
    BY <2>1, <2>5
<1> QED
  BY <1>1, DagStep, FaultsStep DEF DagTypeOK, RunInv
-----------------------------------------------------------------------------
(***************************************************************************)
(* What dbt sees.                                                          *)
(***************************************************************************)
\* reconcile_snapshot accepts only a run with rows in RAW.
LEMMA ReconciledHasRows ==
    ASSUME StagingInv, LoadInv, NEW d \in Datasets, NEW r \in Runs,
           Reconciles(staged[d][r], history[d][r])
    PROVE  raw[d][r] # {}
<1>1. staged[d][r].rows \subseteq Known /\ staged[d][r].rows # {}
  BY Zenon DEF StagingInv, Reconciles
<1>2. /\ Cardinality(staged[d][r].rows) \in Nat
      /\ Cardinality(staged[d][r].rows) # 0
  BY <1>1, KnownRows, FS_Subset, FS_CardinalityType, FS_EmptySet
<1>3. history[d][r].rows >= Cardinality(staged[d][r].rows)
  BY DEF Reconciles
<1>4. history[d][r] \in [files : Nat, rows : Nat, skipped : Nat]
  BY DEF LoadInv
<1>5. history[d][r].rows # 0
  BY <1>2, <1>3, <1>4
<1> QED
  BY <1>5 DEF LoadInv

\* A run that becomes complete has its rates, and its payments in RAW.
LEMMA CompletedStep ==
    ASSUME SInv, LoadMoves
    PROVE  /\ \A r \in Completed("payments")' \ Completed("payments") :
                r \in Runs /\ r \in Completed("fx_rates") /\ raw["payments"][r] # {}
<1> USE DEF SInv
<1>1. CASE \A e \in Datasets : Completed(e)' = Completed(e)
  BY <1>1, DatasetsAre
<1>2. ASSUME InTask("validate_snapshot_load"), Complete(DatasetAt, active),
             Reconciles(staged[DatasetAt][active], history[DatasetAt][active]),
             NEW r \in Completed("payments")' \ Completed("payments")
      PROVE  r \in Runs /\ r \in Completed("fx_rates") /\ raw["payments"][r] # {}
  <2>1. active \in Runs /\ active > 0 /\ task[active] = "validate_snapshot_load" /\ pos < 3
    BY <1>2, ActiveRun DEF InTask
  <2>2. DatasetAt = "payments" /\ r = active
    BY <1>2, <2>1, DatasetsAre, CompleteStep
  <2>3. PosOf(active) > 1
    BY <2>2, <2>1 DEF PosOf, DatasetAt, RunInv
  <2>4. r \in Completed("fx_rates")
    BY <2>1, <2>2, <2>3 DEF RunInv, TableOf
  <2> QED
    BY <1>2, <2>1, <2>2, <2>4, DatasetsAre, ReconciledHasRows
<1>3. CASE UNCHANGED completedAt
  BY <1>1, <1>3 DEF Completed, Registered
<1>4. CASE UNCHANGED loadVars
  BY <1>3, <1>4 DEF loadVars
<1>5. ASSUME NEW d \in Datasets, NEW r \in Runs, Register(d, r)
      PROVE  \A e \in Datasets : Completed(e)' = Completed(e)
  BY <1>5, RegisterStep
<1> QED
  BY <1>1, <1>2, <1>3, <1>4, <1>5, CopyStep, ForgetStep DEF LoadMoves

LEMMA LatestVersionsExist ==
    ASSUME NEW R \in SUBSET Known
    PROVE  /\ LatestVersions(R) \subseteq R
           /\ R # {} => LatestVersions(R) # {}
<1>1. ASSUME R # {} PROVE LatestVersions(R) # {}
  <2>1. PICK row \in R : TRUE
    BY <1>1
  <2> DEFINE T == {v \in 0 .. MaxChanges + 1 : <<row[1], v>> \in R}
  <2>2. MaxChanges + 1 \in Nat
    BY StagingAssumption DEF StagingAssumption
  <2>3. \A x \in R : x = <<x[1], x[2]>> /\ x[2] \in 0 .. MaxChanges + 1
    BY DEF Known
  <2>4. row[2] \in T
    BY <2>1, <2>3
  <2>5. T \subseteq 0 .. MaxChanges + 1 /\ T # {}
    BY <2>4
  <2>6. \A x \in R : x[1] = row[1] => x[2] \in T
    BY <2>3
  <2>7. \A v \in T : <<row[1], v>> \in R
    OBVIOUS
  <2> HIDE DEF T
  <2>8. PICK v \in T : \A w \in T : w <= v
    BY <2>2, <2>5, BoundedMax
  <2>9. <<row[1], v>> \in LatestVersions(R)
    BY <2>6, <2>7, <2>8 DEF LatestVersions
  <2> QED
    BY <2>9
<1> QED
  BY <1>1 DEF LatestVersions

\* There is a newest complete run as soon as there is a complete one.
LEMMA NewestExists ==
    ASSUME LoadInv, Completed("payments") # {}
    PROVE  NewestComplete # {}
<1>1. /\ completions \in Nat
      /\ completedAt["payments"] \in [Registered("payments") -> 0 .. completions]
  BY DatasetsAre DEF LoadInv
<1> DEFINE T == {completedAt["payments"][r] : r \in Completed("payments")}
<1>2. T \subseteq 0 .. completions /\ T # {}
  BY <1>1 DEF Completed
<1>3. PICK n \in T : \A m \in T : m <= n
  BY <1>1, <1>2, BoundedMax
<1> QED
  BY <1>3 DEF NewestComplete

LEMMA StgPaymentsKnown ==
    ASSUME LoadInv
    PROVE  /\ StgPayments \subseteq Known
           /\ StgPayments # {} => Completed("payments") # {}
           /\ (\A r \in Completed("payments") : raw["payments"][r] # {}) =>
                (NewestComplete # {} => StgPayments # {})
<1> DEFINE R == UNION {raw["payments"][r] : r \in NewestComplete}
<1>1. NewestComplete \subseteq Completed("payments") /\ Completed("payments") \subseteq Runs
  BY DatasetsAre DEF NewestComplete, Completed, LoadInv
<1>2. R \subseteq Known
  BY <1>1, DatasetsAre DEF LoadInv
<1>3. NewestComplete = {} => R = {}
  OBVIOUS
<1>4. (\A r \in Completed("payments") : raw["payments"][r] # {}) =>
        (NewestComplete # {} => R # {})
  BY <1>1
<1>5. StgPayments = LatestVersions(R)
  BY DEF StgPayments
<1> HIDE DEF R
<1>6. StgPayments \subseteq R /\ (R # {} => StgPayments # {})
  BY <1>2, <1>5, LatestVersionsExist
<1> QED
  BY <1>1, <1>2, <1>3, <1>4, <1>6

LEMMA FactMoves ==
    ASSUME [Next]_vars
    PROVE  /\ fact' = fact \/ fact' = StgPayments
           /\ report' = report \/ report' = fact
  BY DEF Next, vars, dbtVars, Operator, TriggerRun, ClearFailed, ClearAll, Tasked, Stage,
         FailStaging, AllStaged, RegisterRuns, LoadRaw, ValidateSnapshotLoad, TaskDone,
         RefuseSnapshot, BuildFact, BuildReport, DbtTest, FailTask, Around, LoadByHand

LEMMA ServedStep ==
    ASSUME SInv, LoadMoves, Grows, [Next]_vars
    PROVE  ServedInv'
<1> USE DEF SInv
<1>1. StgPayments \subseteq Known /\ (StgPayments # {} => Completed("payments") # {})
  BY StgPaymentsKnown
<1>2. Completed("payments") \subseteq Completed("payments")'
      /\ Completed("fx_rates") \subseteq Completed("fx_rates")'
  BY DatasetsAre DEF Grows
<1>3. Completed("payments") \subseteq Runs
  BY DatasetsAre DEF Completed, LoadInv
<1>4. \A r \in Runs : raw["payments"][r] \subseteq raw'["payments"][r]
  BY DatasetsAre DEF Grows
<1>5. Completed("payments")' \subseteq Completed("fx_rates")'
  BY <1>2, CompletedStep DEF ServedInv, PaymentsOnlyWithRates
<1>6. \A r \in Completed("payments")' : raw'["payments"][r] # {}
  BY <1>3, <1>4, CompletedStep DEF ServedInv
<1> QED
  BY <1>1, <1>2, <1>5, <1>6, FactMoves DEF ServedInv, PaymentsOnlyWithRates

LEMMA NextSInv ==
    ASSUME SInv, [Next]_vars
    PROVE  SInv'
<1>1. StagingMoves /\ LoadMoves
  BY Moves DEF SInv
<1>2. StagingInv'
  BY <1>1, StagingStep DEF SInv
<1>3. LoadInv' /\ Grows
  BY <1>1, LoadStep DEF SInv
<1>4. RunInv'
  BY <1>3, RunStep DEF SInv
<1>5. ServedInv'
  BY <1>1, <1>3, ServedStep
<1> QED
  BY <1>2, <1>3, <1>4, <1>5 DEF SInv

LEMMA RunsInvariant == Spec => []SInv
  BY InitSInv, NextSInv, PTL DEF Spec

\* Functions to functions into S are functions to functions into a wider T.
LEMMA WiderValues ==
    ASSUME NEW D, NEW R, NEW S, NEW T, S \subseteq T, NEW f \in [D -> [R -> S]]
    PROVE  f \in [D -> [R -> T]]
<1>1. \A d \in D : f[d] \in [R -> S]
  OBVIOUS
<1>2. \A d \in D : f[d] \in [R -> T]
  BY <1>1
<1> QED
  BY <1>2

LEMMA SInvTyped ==
    ASSUME SInv
    PROVE  TypeOK
<1> USE DEF SInv
<1>1. StagingTypeOK
  <2>1. SUBSET Known \subseteq SUBSET Rows
    BY KnownRows
  <2>2. AttemptType \subseteq [busy : BOOLEAN, left : SUBSET Rows, parts : Nat, rows : SUBSET Rows]
    <3>1. SUFFICES ASSUME NEW a \in AttemptType
                   PROVE  a \in [busy : BOOLEAN, left : SUBSET Rows, parts : Nat, rows : SUBSET Rows]
      OBVIOUS
    <3>2. /\ a = [busy |-> a.busy, left |-> a.left, parts |-> a.parts, rows |-> a.rows]
          /\ a.busy \in BOOLEAN /\ a.left \in SUBSET Known
          /\ a.parts \in Nat /\ a.rows \in SUBSET Known
      BY Zenon DEF AttemptType
    <3>3. a.left \in SUBSET Rows /\ a.rows \in SUBSET Rows
      BY <2>1, <3>2, Zenon
    <3> QED
      BY <3>2, <3>3, Zenon
  <2>3. [parts : Nat, rows : SUBSET Known] \subseteq [parts : Nat, rows : SUBSET Rows]
    BY <2>1
  <2>4. Seq(SUBSET Known) \subseteq Seq(SUBSET Rows)
    BY <2>1
  <2>5. source \in [Datasets -> SUBSET Rows] /\ clock \in Nat
    BY <2>1 DEF StagingInv
  <2>6. attempt \in [Datasets -> [busy : BOOLEAN, left : SUBSET Rows,
                                  parts : Nat, rows : SUBSET Rows]]
    BY <2>2, Zenon DEF StagingInv, AttemptType
  <2>7. files \in [Datasets -> [Runs -> Seq(SUBSET Rows)]]
    <3>1. files \in [Datasets -> [Runs -> Seq(SUBSET Known)]]
      BY DEF StagingInv
    <3> QED
      BY <2>4, <3>1, WiderValues
  <2>8. staged \in [Datasets -> [Runs -> [parts : Nat, rows : SUBSET Rows]]]
    <3>1. staged \in [Datasets -> [Runs -> [parts : Nat, rows : SUBSET Known]]]
      BY DEF StagingInv
    <3> QED
      BY <2>3, <3>1, WiderValues
  <2> QED
    BY <2>5, <2>6, <2>7, <2>8, Zenon DEF StagingTypeOK
<1>2. LoadTypeOK
  <2>1. SUBSET (Nat \X SUBSET Known) \subseteq SUBSET (Nat \X SUBSET Rows)
    BY KnownRows
  <2>2. loaded \in [Datasets -> [Runs -> SUBSET (Nat \X SUBSET Rows)]]
    <3> DEFINE A == SUBSET (Nat \X SUBSET Known)
               B == SUBSET (Nat \X SUBSET Rows)
    <3>1. loaded \in [Datasets -> [Runs -> A]] /\ A \subseteq B
      BY <2>1 DEF LoadInv
    <3> HIDE DEF A, B
    <3>2. loaded \in [Datasets -> [Runs -> B]]
      BY <3>1
    <3> QED
      BY <3>2 DEF B
  <2>3. raw \in [Datasets -> [Runs -> SUBSET Rows]]
    BY KnownRows DEF LoadInv
  <2> QED
    BY <2>2, <2>3 DEF LoadInv, LoadTypeOK, Registered
<1>3. fact \subseteq Rows /\ report \subseteq Rows
  BY KnownRows DEF ServedInv
<1> QED
  BY <1>1, <1>2, <1>3 DEF TypeOK, RunInv

(***************************************************************************)
(* Type correctness.                                                       *)
(***************************************************************************)
THEOREM SnowflakeTypeCorrect == Spec => []TypeOK
  BY RunsInvariant, SInvTyped, PTL

(***************************************************************************)
(* A run's payments are never complete without its rates.                  *)
(***************************************************************************)
THEOREM PaymentsComeWithRates == Spec => []PaymentsOnlyWithRates
<1>1. SInv => PaymentsOnlyWithRates
  BY DEF SInv, ServedInv
<1> QED
  BY <1>1, RunsInvariant, PTL

(***************************************************************************)
(* As soon as a run is complete dbt sees payments, whatever COPY left out  *)
(* and whatever was staged, cleared and forgotten.                         *)
(***************************************************************************)
THEOREM SnapshotsAreNeverEmpty == Spec => []NeverEmptied
<1>1. SInv => NeverEmptied
  BY StgPaymentsKnown DEF SInv, ServedInv, NeverEmptied
<1> QED
  BY <1>1, RunsInvariant, PTL

(***************************************************************************)
(* A fact that has payments is never replaced by an empty one.             *)
(***************************************************************************)
THEOREM FactIsNeverEmptied == Spec => FactNeverEmptied
<1>1. ASSUME SInv, [Next]_vars
      PROVE  fact # {} => fact' # {}
  BY <1>1, FactMoves, NewestExists, StgPaymentsKnown DEF SInv, ServedInv
<1>2. SInv /\ [Next]_vars => [fact # {} => fact' # {}]_vars
  BY <1>1
<1> QED
  BY <1>2, RunsInvariant, PTL DEF Spec, FactNeverEmptied
-----------------------------------------------------------------------------
(***************************************************************************)
(* Runs that are staged once: no staging attempt dies after it has written *)
(* a part and no run is cleared as a whole.  Whatever else happens -       *)
(* attempts that fail to read the source and are retried, COPYs that load  *)
(* some files only, by the run or by hand, a history that is forgotten,    *)
(* tasks that fail, are retried and cleared - reconcile_snapshot then lets *)
(* only fully loaded runs through, and nothing is added to a complete one. *)
(* (When parts are written again neither is so: a part that was left over  *)
(* or replaced counts in the history as well.)                             *)
(***************************************************************************)
StagedOnce == MaxStagingFails = 0 /\ MaxReruns = 0

PastStage == {"register_runs"} \union PastRegistration

Whole(d, r) == {<<p, files[d][r][p]>> : p \in DOMAIN files[d][r]}

WrittenRows(d, r) == UNION {files[d][r][p] : p \in DOMAIN files[d][r]}

\* The parts are those of the one attempt.
OneAttempt(d, r) ==
    /\ r = active /\ attempt[d].busy =>
         /\ staged[d][r] = NotStaged
         /\ attempt[d].parts = Len(files[d][r])
         /\ attempt[d].rows = WrittenRows(d, r)
    /\ staged[d][r] = NotStaged /\ ~(r = active /\ attempt[d].busy) => files[d][r] = <<>>
    /\ staged[d][r] # NotStaged =>
         /\ staged[d][r].parts = Len(files[d][r])
         /\ staged[d][r].rows = WrittenRows(d, r)
    /\ task[r] \in PastStage => staged[d][r] # NotStaged

AttemptsInv ==
    /\ \A d \in Datasets : attempt[d].busy => active > 0 /\ task[active] = "stage"
    /\ \A d \in Datasets, r \in Runs : OneAttempt(d, r)

StageMove(d) ==
    /\ active \in Runs /\ task[active] = "stage"
    /\ StartAttempt(d, active) \/ PutPart(d, active) \/ FinishAttempt(d, active)
    /\ UNCHANGED dagVars

\* An attempt ends before it has written anything.
EarlyEnd(d) ==
    /\ active \in Runs /\ task[active] = "stage"
    /\ attempt[d].busy /\ attempt[d].parts = 0
    /\ attempt' = [attempt EXCEPT ![d] = NoAttempt]
    /\ UNCHANGED <<source, clock, files, staged, task, loadVars>>
    /\ \/ active' = active
       \/ active' = 0 /\ \A e \in Datasets \ {d} : ~attempt[e].busy

AllAreStaged(r) == \A d \in Datasets : staged[d][r] # NotStaged

BetweenTasks ==
    /\ active = 0 \/ task[active] # "stage" \/ AllAreStaged(active)
    /\ \A s \in Runs : task'[s] \in PastStage =>
         task[s] \in PastStage \/ (s = active /\ AllAreStaged(s))

OtherMove ==
    /\ UNCHANGED <<attempt, files, staged>>
    /\ UNCHANGED dagVars \/ BetweenTasks

LEMMA NoRestaging ==
    ASSUME RunInv, StagedOnce
    PROVE  ~Fault("staging") /\ ~Fault("rerun")
  BY DEF RunInv, StagedOnce, Fault, MaxFaults

LEMMA StagedOnceMoves ==
    ASSUME StagingInv, RunInv, StagedOnce, [Next]_vars
    PROVE  (\E d \in Datasets : StageMove(d) \/ EarlyEnd(d)) \/ OtherMove
<1>1. CASE Operator
  <2>1. \A r \in Runs : ~ClearAll(r)
    BY NoRestaging DEF ClearAll
  <2>2. ASSUME NEW r \in Runs, TriggerRun(r) PROVE OtherMove
    BY <2>2 DEF TriggerRun, OtherMove, BetweenTasks, AllAreStaged, stagingVars, RunInv, PastStage, PastRegistration
  <2>3. ASSUME NEW r \in Runs, ClearFailed(r) PROVE OtherMove
    BY <2>3 DEF ClearFailed, OtherMove, BetweenTasks, AllAreStaged, stagingVars
  <2> QED
    BY <1>1, <2>1, <2>2, <2>3 DEF Operator
<1>2. CASE UNCHANGED <<attempt, files, staged, dagVars>>
  BY <1>2 DEF OtherMove, dagVars
<1>3. CASE Around
  BY <1>2, <1>3 DEF Around, LoadByHand, WritePayment, stagingVars
<1>4. ASSUME NEW d \in Datasets, FailStaging(d) PROVE EarlyEnd(d)
  <2>1. ~(attempt[d].parts > 0)
    BY <1>4, NoRestaging DEF FailStaging
  <2>2. attempt[d].parts \in Nat
    <3>1. attempt[d] \in [busy : BOOLEAN, left : SUBSET Known, parts : Nat, rows : SUBSET Known]
      BY Zenon DEF StagingInv
    <3> QED
      BY <3>1
  <2>3. attempt[d].parts = 0
    BY <2>1, <2>2
  <2> QED
    BY <1>4, <2>3, ActiveRun DEF FailStaging, AbortAttempt, At, EarlyEnd
<1>5. ASSUME NEW d \in Datasets, Stage(d) PROVE StageMove(d)
  BY <1>5, ActiveRun DEF Stage, At, StageMove
<1>6. CASE AllStaged
  BY <1>6 DEF AllStaged, At, GoTo, OtherMove, BetweenTasks, AllAreStaged, stagingVars, RunInv
<1>7. CASE RegisterRuns \/ LoadRaw \/ ValidateSnapshotLoad \/ RefuseSnapshot
  BY <1>7
     DEF RegisterRuns, LoadRaw, ValidateSnapshotLoad, RefuseSnapshot, InTask, TaskDone, At, GoTo,
         NextStatement, OtherMove, BetweenTasks, AllAreStaged, stagingVars, RunInv, PastStage, PastRegistration
<1>8. CASE BuildFact \/ BuildReport \/ DbtTest \/ FailTask
  BY <1>8
     DEF BuildFact, BuildReport, DbtTest, FailTask, At, GoTo, NextStatement, OtherMove,
         BetweenTasks, AllAreStaged, stagingVars, RunInv, PastStage, PastRegistration
<1> QED
  BY <1>1, <1>2, <1>3, <1>4, <1>5, <1>6, <1>7, <1>8 DEF Next, Tasked, vars, stagingVars
\* What StageMove(d) does to d and the active run, and to nothing else.
StagesOne(d) ==
    /\ \A e \in Datasets, r \in Runs : ~(e = d /\ r = active) =>
         files'[e][r] = files[e][r] /\ staged'[e][r] = staged[e][r]
    /\ \A e \in Datasets : e # d => attempt'[e] = attempt[e]
    /\ staged[d][active] = NotStaged \/ attempt[d].busy
    /\ \/ /\ staged[d][active] = NotStaged /\ ~attempt[d].busy
          /\ files'[d][active] = files[d][active] /\ staged'[d][active] = NotStaged
          /\ attempt'[d].busy /\ attempt'[d].parts = 0 /\ attempt'[d].rows = {}
       \/ \E body \in SUBSET Known :
          /\ attempt[d].busy
          /\ files'[d][active] = PutObject(files[d][active], attempt[d].parts + 1, body)
          /\ staged'[d][active] = staged[d][active]
          /\ attempt'[d].busy /\ attempt'[d].parts = attempt[d].parts + 1
          /\ attempt'[d].rows = attempt[d].rows \union body
       \/ /\ attempt[d].busy /\ attempt[d].parts > 0
          /\ files'[d][active] = files[d][active]
          /\ staged'[d][active] = [parts |-> attempt[d].parts, rows |-> attempt[d].rows]
          /\ ~attempt'[d].busy

LEMMA StageMoveByPart ==
    ASSUME StagingInv, NEW d \in Datasets, StageMove(d)
    PROVE  StagesOne(d)
<1>1. active \in Runs
  BY DEF StageMove
<1>2. /\ attempt \in [Datasets -> [busy : BOOLEAN, left : SUBSET Known,
                                  parts : Nat, rows : SUBSET Known]]
      /\ files \in [Datasets -> [Runs -> Seq(SUBSET Known)]]
      /\ staged \in [Datasets -> [Runs -> [parts : Nat, rows : SUBSET Known]]]
  BY Zenon DEF StagingInv
<1>3. attempt[d].left \subseteq Known
  BY <1>2, Zenon
<1>4. CASE StartAttempt(d, active)
  <2>1. /\ attempt' = [attempt EXCEPT ![d] = [busy |-> TRUE, left |-> source[d],
                                              parts |-> 0, rows |-> {}]]
        /\ staged[d][active] = NotStaged /\ ~attempt[d].busy
        /\ UNCHANGED <<files, staged>>
    BY <1>4 DEF StartAttempt
  <2>2. /\ attempt'[d] = [busy |-> TRUE, left |-> source[d], parts |-> 0, rows |-> {}]
        /\ \A e \in Datasets : e # d => attempt'[e] = attempt[e]
    BY <1>2, <2>1, Zenon
  <2>3. attempt'[d].busy /\ attempt'[d].parts = 0 /\ attempt'[d].rows = {}
    BY <2>2
  <2> QED
    BY <2>1, <2>2, <2>3, Zenon DEF StagesOne
<1>5. CASE PutPart(d, active)
  <2>1. PICK body \in SUBSET attempt[d].left :
          /\ files' = [files EXCEPT ![d][active] = PutObject(@, attempt[d].parts + 1, body)]
          /\ attempt' = [attempt EXCEPT ![d] = [busy |-> TRUE, left |-> attempt[d].left \ body,
                                                parts |-> attempt[d].parts + 1,
                                                rows |-> attempt[d].rows \union body]]
    BY <1>5 DEF PutPart
  <2>2. attempt[d].busy /\ UNCHANGED staged
    BY <1>5, Zenon DEF PutPart
  <2>3. /\ attempt'[d] = [busy |-> TRUE, left |-> attempt[d].left \ body,
                          parts |-> attempt[d].parts + 1,
                          rows |-> attempt[d].rows \union body]
        /\ \A e \in Datasets : e # d => attempt'[e] = attempt[e]
    BY <1>2, <2>1, Zenon
  <2>4. /\ attempt'[d].busy /\ attempt'[d].parts = attempt[d].parts + 1
        /\ attempt'[d].rows = attempt[d].rows \union body
    BY <2>3
  <2>5. /\ files'[d][active] = PutObject(files[d][active], attempt[d].parts + 1, body)
        /\ \A e \in Datasets, r \in Runs : ~(e = d /\ r = active) => files'[e][r] = files[e][r]
    BY <1>1, <1>2, <2>1
  <2>6. body \in SUBSET Known
    BY <1>3
  <2> QED
    BY <2>2, <2>3, <2>4, <2>5, <2>6, Zenon DEF StagesOne
<1>6. CASE FinishAttempt(d, active)
  <2>1. /\ attempt[d].busy /\ attempt[d].parts > 0
        /\ staged' = [staged EXCEPT ![d][active] = [parts |-> attempt[d].parts,
                                                    rows |-> attempt[d].rows]]
        /\ attempt' = [attempt EXCEPT ![d] = NoAttempt]
        /\ UNCHANGED files
    BY <1>6, Zenon DEF FinishAttempt
  <2>2. attempt'[d] = NoAttempt /\ \A e \in Datasets : e # d => attempt'[e] = attempt[e]
    BY <1>2, <2>1, Zenon
  <2>3. ~attempt'[d].busy
    BY <2>2 DEF NoAttempt
  <2>4. /\ staged'[d][active] = [parts |-> attempt[d].parts, rows |-> attempt[d].rows]
        /\ \A e \in Datasets, r \in Runs : ~(e = d /\ r = active) => staged'[e][r] = staged[e][r]
    BY <1>1, <1>2, <2>1
  <2> QED
    BY <2>1, <2>2, <2>3, <2>4, Zenon DEF StagesOne
<1> QED
  BY <1>4, <1>5, <1>6 DEF StageMove

\* Files are only added to, and only by an attempt of a run not yet staged.
FilesGrow ==
    \A d \in Datasets, r \in Runs :
      \/ files'[d][r] = files[d][r]
      \/ /\ staged[d][r] = NotStaged
         /\ \E body \in SUBSET Known : files'[d][r] = Append(files[d][r], body)

StagedStays ==
    \A d \in Datasets, r \in Runs : staged[d][r] # NotStaged => staged'[d][r] = staged[d][r]

LEMMA AttemptsStep ==
    ASSUME StagingInv, RunInv, AttemptsInv, StagedOnce, [Next]_vars
    PROVE  AttemptsInv' /\ FilesGrow /\ StagedStays
<1>1. CASE OtherMove
  <2>1. FilesGrow /\ StagedStays
    BY <1>1 DEF OtherMove, FilesGrow, StagedStays
  <2>2. CASE UNCHANGED dagVars
    BY <1>1, <2>1, <2>2 DEF OtherMove, dagVars, AttemptsInv, OneAttempt, WrittenRows
  <2>3. CASE BetweenTasks
    <3>1. UNCHANGED <<attempt, files, staged>>
      BY <1>1 DEF OtherMove
    <3>2. \A d \in Datasets : ~attempt[d].busy
      BY <2>3, ActiveRun DEF BetweenTasks, AllAreStaged, AttemptsInv, OneAttempt
    <3> QED
      BY <2>1, <2>3, <3>1, <3>2 DEF BetweenTasks, AllAreStaged, AttemptsInv, OneAttempt, WrittenRows
  <2> QED
    BY <1>1, <2>1, <2>2, <2>3 DEF OtherMove
<1>2. ASSUME NEW d \in Datasets, StageMove(d)
      PROVE  AttemptsInv' /\ FilesGrow /\ StagedStays
  <2>1. /\ active \in Runs /\ task[active] = "stage" /\ active > 0
        /\ UNCHANGED <<active, task, pos>>
    BY <1>2 DEF StageMove, dagVars, Runs
  <2>2. StagesOne(d) /\ OneAttempt(d, active)
    BY <1>2, <2>1, StageMoveByPart DEF AttemptsInv
  <2>3. files[d][active] \in Seq(SUBSET Known)
    BY <2>1 DEF StagingInv
  <2>4. /\ OneAttempt(d, active)'
        /\ \/ files'[d][active] = files[d][active]
           \/ /\ staged[d][active] = NotStaged
              /\ \E body \in SUBSET Known : files'[d][active] = Append(files[d][active], body)
        /\ staged[d][active] # NotStaged => staged'[d][active] = staged[d][active]
    <3> DEFINE F == files[d][active]
    <3>0. task'[active] \notin PastStage
      BY <2>1 DEF PastStage, PastRegistration
    <3>1. CASE /\ staged[d][active] = NotStaged /\ ~attempt[d].busy
               /\ files'[d][active] = F /\ staged'[d][active] = NotStaged
               /\ attempt'[d].busy /\ attempt'[d].parts = 0 /\ attempt'[d].rows = {}
      <4>1. F = <<>>
        BY <2>2, <3>1 DEF OneAttempt
      <4>2. Len(F) = 0 /\ WrittenRows(d, active)' = {}
        BY <2>1, <3>1, <4>1 DEF WrittenRows
      <4> QED
        BY <2>1, <3>0, <3>1, <4>2 DEF OneAttempt
    <3>2. ASSUME NEW body \in SUBSET Known,
                 attempt[d].busy,
                 files'[d][active] = PutObject(F, attempt[d].parts + 1, body),
                 staged'[d][active] = staged[d][active],
                 attempt'[d].busy, attempt'[d].parts = attempt[d].parts + 1,
                 attempt'[d].rows = attempt[d].rows \union body
          PROVE  /\ OneAttempt(d, active)'
                 /\ staged[d][active] = NotStaged
                 /\ files'[d][active] = Append(F, body)
      <4>1. /\ staged[d][active] = NotStaged /\ attempt[d].parts = Len(F)
            /\ attempt[d].rows = WrittenRows(d, active)
        BY <2>2, <3>2 DEF OneAttempt
      <4>2. files'[d][active] = Append(F, body)
        BY <2>3, <3>2, <4>1 DEF PutObject
      <4>3. /\ Len(Append(F, body)) = Len(F) + 1
            /\ DOMAIN Append(F, body) = DOMAIN F \union {Len(F) + 1}
            /\ \A p \in DOMAIN F : Append(F, body)[p] = F[p]
            /\ Append(F, body)[Len(F) + 1] = body
        BY <2>3
      <4>4. WrittenRows(d, active)' = WrittenRows(d, active) \union body
        BY <2>1, <4>2, <4>3 DEF WrittenRows
      <4> QED
        BY <2>1, <3>0, <3>2, <4>1, <4>2, <4>3, <4>4 DEF OneAttempt
    <3>3. CASE /\ attempt[d].busy /\ attempt[d].parts > 0
               /\ files'[d][active] = F
               /\ staged'[d][active] = [parts |-> attempt[d].parts, rows |-> attempt[d].rows]
               /\ ~attempt'[d].busy
      <4>1. /\ staged[d][active] = NotStaged /\ attempt[d].parts = Len(F)
            /\ attempt[d].rows = WrittenRows(d, active)
        BY <2>2, <3>3 DEF OneAttempt
      <4>2. WrittenRows(d, active)' = WrittenRows(d, active)
        BY <2>1, <3>3 DEF WrittenRows
      <4>3. staged'[d][active] # NotStaged
        BY <2>3, <3>3, <4>1 DEF NotStaged
      <4> QED
        BY <2>1, <3>0, <3>3, <4>1, <4>2, <4>3 DEF OneAttempt
    <3> HIDE DEF F
    <3> QED
      BY <2>2, <3>1, <3>2, <3>3 DEF StagesOne, F
  <2>5. ASSUME NEW e \in Datasets, NEW r \in Runs, ~(e = d /\ r = active)
        PROVE  /\ OneAttempt(e, r)'
               /\ files'[e][r] = files[e][r] /\ staged'[e][r] = staged[e][r]
    <3>1. files'[e][r] = files[e][r] /\ staged'[e][r] = staged[e][r]
      BY <2>2, <2>5 DEF StagesOne
    <3>2. r = active => attempt'[e] = attempt[e]
      BY <2>2, <2>5 DEF StagesOne
    <3>3. OneAttempt(e, r)
      BY DEF AttemptsInv
    <3>4. WrittenRows(e, r)' = WrittenRows(e, r)
      BY <3>1 DEF WrittenRows
    <3> QED
      BY <2>1, <3>1, <3>2, <3>3, <3>4 DEF OneAttempt
  <2>6. \A e \in Datasets, r \in Runs : OneAttempt(e, r)'
    BY <2>4, <2>5, <2>1
  <2>7. FilesGrow /\ StagedStays
    BY <2>4, <2>5 DEF FilesGrow, StagedStays
  <2> QED
    BY <2>1, <2>6, <2>7 DEF AttemptsInv
<1>3. ASSUME NEW d \in Datasets, EarlyEnd(d)
      PROVE  AttemptsInv' /\ FilesGrow /\ StagedStays
  <2>1. /\ active \in Runs /\ task[active] = "stage" /\ attempt[d].busy /\ attempt[d].parts = 0
        /\ UNCHANGED <<files, staged, task>> /\ 0 \notin Runs
    BY <1>3 DEF EarlyEnd, Runs
  <2>2. ~attempt'[d].busy /\ \A e \in Datasets : e # d => attempt'[e] = attempt[e]
    <3>1. attempt' = [attempt EXCEPT ![d] = NoAttempt]
      BY <1>3 DEF EarlyEnd
    <3>2. attempt'[d] = NoAttempt /\ \A e \in Datasets : e # d => attempt'[e] = attempt[e]
      BY <3>1, Zenon DEF StagingInv
    <3> QED
      BY <3>2 DEF NoAttempt
  <2>3. active' = active \/ (active' = 0 /\ \A e \in Datasets : ~attempt'[e].busy)
    BY <1>3, <2>2 DEF EarlyEnd
  <2>4. files[d][active] = <<>>
    <3>1. files[d][active] \in Seq(SUBSET Known)
      BY <2>1 DEF StagingInv
    <3>2. Len(files[d][active]) = 0
      BY <2>1 DEF AttemptsInv, OneAttempt
    <3> QED
      BY <3>1, <3>2
  <2>5. \A e \in Datasets, r \in Runs : WrittenRows(e, r)' = WrittenRows(e, r)
    BY <2>1 DEF WrittenRows
  <2>6. ASSUME NEW e \in Datasets, NEW r \in Runs PROVE OneAttempt(e, r)'
    <3>1. OneAttempt(e, r)
      BY DEF AttemptsInv
    <3>2. CASE e = d
      <4>1. staged[e][r] = NotStaged => files[e][r] = <<>>
        BY <2>4, <3>1, <3>2 DEF OneAttempt
      <4> QED
        BY <2>1, <2>2, <2>5, <3>1, <3>2, <4>1 DEF OneAttempt
    <3>3. CASE e # d
      <4>1. attempt'[e] = attempt[e] /\ (active' = active \/ ~attempt[e].busy)
        BY <2>2, <2>3, <3>3
      <4> QED
        BY <2>1, <2>5, <3>1, <4>1 DEF OneAttempt
    <3> QED
      BY <3>2, <3>3
  <2>7. FilesGrow /\ StagedStays
    BY <2>1 DEF FilesGrow, StagedStays
  <2>8. \A e \in Datasets : attempt'[e].busy => active' > 0 /\ task'[active'] = "stage"
    BY <2>1, <2>2, <2>3 DEF Runs
  <2> QED
    BY <2>6, <2>7, <2>8 DEF AttemptsInv
<1> QED
  BY <1>1, <1>2, <1>3, StagedOnceMoves
-----------------------------------------------------------------------------
(***************************************************************************)
(* What has been loaded of a run that is staged once.                      *)
(***************************************************************************)
LoadedOnce(d, r) ==
    /\ loaded[d][r] \subseteq Whole(d, r)
    /\ history[d][r].files <= Cardinality(loaded[d][r]) + history[d][r].skipped
    /\ \A l \in loaded[d][r] : l[2] \subseteq raw[d][r]
    /\ r \in Completed(d) => staged[d][r] # NotStaged /\ loaded[d][r] = Whole(d, r)

LoadedInv == \A d \in Datasets, r \in Runs : LoadedOnce(d, r)

\* Parts with their content are as many as the parts.
LEMMA TaggedCardinality ==
    ASSUME NEW f, NEW P, IsFiniteSet(P)
    PROVE  /\ IsFiniteSet({<<p, f[p]>> : p \in P})
           /\ Cardinality({<<p, f[p]>> : p \in P}) = Cardinality(P)
<1> DEFINE T == {<<p, f[p]>> : p \in P}
           g == [p \in P |-> <<p, f[p]>>]
<1>1. g \in [P -> T] /\ \A a, b \in P : g[a] = g[b] => a = b
  OBVIOUS
<1>2. \A t \in T : \E p \in P : g[p] = t
  OBVIOUS
<1> HIDE DEF g, T
<1>3. g \in Bijection(P, T)
  BY <1>1, <1>2, Fun_IsBij
<1>4. ExistsBijection(P, T)
  BY <1>3 DEF ExistsBijection
<1> QED
  BY <1>4, FS_Bijection DEF T

LEMMA WholeIsFinite ==
    ASSUME StagingInv, NEW d \in Datasets, NEW r \in Runs
    PROVE  /\ IsFiniteSet(Whole(d, r))
           /\ Cardinality(Whole(d, r)) = Len(files[d][r])
           /\ Len(files[d][r]) \in Nat
<1>1. files[d][r] \in Seq(SUBSET Known)
  BY Zenon DEF StagingInv
<1>2. DOMAIN files[d][r] = 1 .. Len(files[d][r]) /\ Len(files[d][r]) \in Nat
  BY <1>1
<1>3. IsFiniteSet(DOMAIN files[d][r]) /\ Cardinality(DOMAIN files[d][r]) = Len(files[d][r])
  BY <1>2, FS_Interval
<1> QED
  BY <1>2, <1>3, TaggedCardinality DEF Whole

LEMMA LoadedIsFinite ==
    ASSUME StagingInv, NEW d \in Datasets, NEW r \in Runs, LoadedOnce(d, r)
    PROVE  IsFiniteSet(loaded[d][r]) /\ Cardinality(loaded[d][r]) \in Nat
  BY WholeIsFinite, FS_Subset, FS_CardinalityType DEF LoadedOnce

\* As many files in the history as were staged are all that were staged.
LEMMA ReconciledIsWhole ==
    ASSUME StagingInv, LoadInv, NEW d \in Datasets, NEW r \in Runs,
           OneAttempt(d, r), LoadedOnce(d, r), staged[d][r] # NotStaged,
           Reconciles(staged[d][r], history[d][r])
    PROVE  loaded[d][r] = Whole(d, r) /\ staged[d][r].rows \subseteq raw[d][r]
<1>1. staged[d][r].parts = Len(files[d][r]) /\ staged[d][r].rows = WrittenRows(d, r)
  BY DEF OneAttempt
<1>2. history[d][r].files >= Len(files[d][r])
  BY <1>1 DEF Reconciles
<1>3. /\ IsFiniteSet(Whole(d, r)) /\ Cardinality(Whole(d, r)) = Len(files[d][r])
      /\ Len(files[d][r]) \in Nat
  BY WholeIsFinite
<1>4. /\ loaded[d][r] \in SUBSET Whole(d, r)
      /\ history[d][r].files <= Cardinality(loaded[d][r]) + history[d][r].skipped
      /\ history[d][r].skipped = 0
  BY DEF LoadedOnce, Reconciles
<1>5. Cardinality(loaded[d][r]) <= Cardinality(Whole(d, r)) /\ Cardinality(loaded[d][r]) \in Nat
  BY <1>3, <1>4, FS_Subset, LoadedIsFinite
<1>6. history[d][r].files \in Nat
  BY DEF LoadInv
<1>7. Cardinality(Whole(d, r)) = Cardinality(loaded[d][r])
  BY <1>2, <1>3, <1>4, <1>5, <1>6
<1>8. loaded[d][r] = Whole(d, r)
  BY <1>3, <1>4, <1>7, FS_Subset
<1>9. WrittenRows(d, r) \subseteq raw[d][r]
  <2>1. \A p \in DOMAIN files[d][r] : <<p, files[d][r][p]>> \in loaded[d][r]
    BY <1>8 DEF Whole
  <2>2. \A p \in DOMAIN files[d][r] : files[d][r][p] \subseteq raw[d][r]
    BY <2>1 DEF LoadedOnce
  <2> QED
    BY <2>2 DEF WrittenRows
<1> QED
  BY <1>1, <1>8, <1>9

\* A COPY takes only parts that were not loaded, each of them once.
LEMMA LoadsOnce ==
    ASSUME StagingInv, LoadInv, LoadedInv, NEW d \in Datasets,
           NEW got \in SUBSET Pending(d), NEW skipped, Load(d, got, skipped), NEW r \in Runs
    PROVE  /\ loaded[d][r] \subseteq loaded'[d][r]
           /\ loaded'[d][r] \subseteq Whole(d, r)
           /\ history'[d][r].files <= Cardinality(loaded'[d][r]) + history'[d][r].skipped
           /\ \A l \in loaded'[d][r] : l[2] \subseteq raw'[d][r]
           /\ loaded[d][r] = Whole(d, r) => raw'[d][r] = raw[d][r]
<1> DEFINE P == PartsOf(d, got, r)
           Q == PartsOf(d, skipped, r)
           F == files[d][r]
           New == {<<p, F[p]>> : p \in P}
<1>1. /\ loaded \in [Datasets -> [Runs -> SUBSET (Nat \X SUBSET Known)]]
      /\ raw \in [Datasets -> [Runs -> SUBSET Known]]
      /\ history \in [Datasets -> [Runs -> [files : Nat, rows : Nat, skipped : Nat]]]
  BY DEF LoadInv
<1>2. /\ loaded'[d][r] = {l \in loaded[d][r] : l[1] \notin P} \union New
      /\ raw'[d][r] = raw[d][r] \union {pair[2] : pair \in RowsOf(d, got, r)}
      /\ history'[d][r].files = history[d][r].files + Cardinality(P) + Cardinality(Q)
      /\ history'[d][r].skipped = history[d][r].skipped + Cardinality(Q)
  BY <1>1, LoadByRun
<1>3. P \subseteq DOMAIN F /\ \A p \in P : <<p, F[p]>> \notin loaded[d][r]
  <2>1. \A p \in P : p \in DOMAIN F /\ <<r, p>> \in Pending(d)
    BY DEF PartsOf
  <2> QED
    BY <2>1 DEF Pending
<1>4. LoadedOnce(d, r)
  BY DEF LoadedInv
<1>5. \A l \in loaded[d][r] : l[1] \notin P
  BY <1>3, <1>4 DEF LoadedOnce, Whole
<1>6. loaded'[d][r] = loaded[d][r] \union New
  BY <1>2, <1>5
<1>7. New \subseteq Whole(d, r)
  BY <1>3 DEF Whole
<1>8. loaded[d][r] \intersect New = {}
  BY <1>3
<1>9. IsFiniteSet(P) /\ Cardinality(P) \in Nat /\ Cardinality(Q) \in Nat
  BY PartsAreFinite
<1>10. IsFiniteSet(New) /\ Cardinality(New) = Cardinality(P)
  BY <1>9, TaggedCardinality
<1>11. IsFiniteSet(loaded[d][r]) /\ Cardinality(loaded[d][r]) \in Nat
  BY <1>4, LoadedIsFinite
<1>12. Cardinality(loaded[d][r] \union New)
         = Cardinality(loaded[d][r]) + Cardinality(New) - Cardinality(loaded[d][r] \intersect New)
  BY <1>10, <1>11, FS_Union
<1>13. Cardinality(loaded'[d][r]) = Cardinality(loaded[d][r]) + Cardinality(P)
  <2>1. Cardinality(loaded[d][r] \intersect New) = 0
    BY <1>8, FS_EmptySet
  <2> HIDE DEF New, P
  <2> QED
    BY <1>6, <1>9, <1>10, <1>11, <1>12, <2>1
<1>14. history'[d][r].files <= Cardinality(loaded'[d][r]) + history'[d][r].skipped
  <2>1. /\ history[d][r].files \in Nat /\ history[d][r].skipped \in Nat
        /\ history[d][r].files <= Cardinality(loaded[d][r]) + history[d][r].skipped
    BY <1>1, <1>4 DEF LoadedOnce
  <2> HIDE DEF P, Q
  <2> QED
    BY <1>2, <1>9, <1>11, <1>13, <2>1
<1>15. \A p \in P : F[p] \subseteq raw'[d][r]
  <2>1. ASSUME NEW p \in P, NEW x \in F[p] PROVE x \in raw'[d][r]
    <3>1. <<p, x>> \in RowsOf(d, got, r)
      BY <2>1 DEF RowsOf
    <3> QED
      BY <1>2, <3>1
  <2> QED
    BY <2>1
<1>16. \A l \in loaded'[d][r] : l[2] \subseteq raw'[d][r]
  BY <1>2, <1>4, <1>6, <1>15 DEF LoadedOnce
<1>17. ASSUME loaded[d][r] = Whole(d, r) PROVE raw'[d][r] = raw[d][r]
  <2>1. P = {}
    BY <1>3, <1>17 DEF Whole
  <2> QED
    BY <1>2, <2>1 DEF RowsOf
<1> QED
  BY <1>4, <1>6, <1>7, <1>14, <1>16, <1>17 DEF LoadedOnce
LEMMA StagesOrLoads ==
    ASSUME [Next]_vars
    PROVE  UNCHANGED loadVars \/ UNCHANGED stagingVars
<1>1. CASE Operator
  BY <1>1 DEF Operator, TriggerRun, ClearFailed, ClearAll
<1>2. CASE Tasked
  BY <1>2
     DEF Tasked, Stage, FailStaging, AllStaged, RegisterRuns, LoadRaw, ValidateSnapshotLoad,
         TaskDone, RefuseSnapshot, BuildFact, BuildReport, DbtTest, FailTask
<1>3. CASE Around
  BY <1>3 DEF Around, LoadByHand
<1> QED
  BY <1>1, <1>2, <1>3 DEF Next, vars

\* Newly complete runs are loaded in full.
LEMMA CompletedIsWhole ==
    ASSUME SInv, AttemptsInv, LoadedInv, LoadMoves,
           NEW d \in Datasets, NEW r \in Completed(d)' \ Completed(d)
    PROVE  /\ r \in Runs /\ UNCHANGED stagingVars
           /\ UNCHANGED <<loaded, raw, history>>
           /\ staged[d][r] # NotStaged
           /\ loaded[d][r] = Whole(d, r)
           /\ staged[d][r].rows \subseteq raw[d][r]
<1> USE DEF SInv
<1>1. /\ InTask("validate_snapshot_load")
      /\ Reconciles(staged[DatasetAt][active], history[DatasetAt][active])
      /\ Complete(DatasetAt, active)
      /\ UNCHANGED stagingVars
  <2>1. Completed(d)' # Completed(d)
    OBVIOUS
  <2>2. ASSUME UNCHANGED completedAt PROVE FALSE
    BY <2>1, <2>2 DEF Completed, Registered
  <2>3. ASSUME NEW e \in Datasets, NEW s \in Runs, Register(e, s) PROVE FALSE
    BY <2>1, <2>3, RegisterStep
  <2>4. ~UNCHANGED loadVars
    BY <2>2 DEF loadVars
  <2> QED
    BY <2>2, <2>3, <2>4, CopyStep, ForgetStep DEF LoadMoves
<1>2. active \in Runs /\ active > 0 /\ task[active] = "validate_snapshot_load"
  BY <1>1, ActiveRun DEF InTask
<1>3. d = DatasetAt /\ r = active
  BY <1>1, <1>2, DatasetsAre, CompleteStep
<1>4. OneAttempt(d, r) /\ LoadedOnce(d, r) /\ staged[d][r] # NotStaged
  BY <1>2, <1>3 DEF AttemptsInv, LoadedInv, OneAttempt, PastStage, PastRegistration
<1>5. UNCHANGED <<loaded, raw, history>>
  BY <1>1 DEF Complete
<1> QED
  BY <1>1, <1>2, <1>3, <1>4, <1>5, ReconciledIsWhole

\* Of a run that is complete, RAW does not change any more.
LEMMA LoadedStep ==
    ASSUME SInv, AttemptsInv, LoadedInv, StagedOnce, [Next]_vars
    PROVE  /\ LoadedInv'
           /\ \A d \in Datasets : \A r \in Completed(d) : raw'[d][r] = raw[d][r]
<1> USE DEF SInv
<1>1. LoadMoves
  BY Moves
<1>2. FilesGrow /\ StagedStays
  BY AttemptsStep
<1>3. \A d \in Datasets : Completed(d) \subseteq Runs
  BY DEF LoadInv, Completed
<1>4. CASE UNCHANGED loadVars
  <2>1. UNCHANGED <<loaded, raw, history, completedAt>>
    BY <1>4 DEF loadVars
  <2>2. ASSUME NEW d \in Datasets, NEW r \in Runs
        PROVE  LoadedOnce(d, r)'
    <3>1. LoadedOnce(d, r)
      BY DEF LoadedInv
    <3>2. r \in Completed(d)' <=> r \in Completed(d)
      BY <2>1 DEF Completed, Registered
    <3>3. CASE files'[d][r] = files[d][r]
      <4>1. Whole(d, r)' = Whole(d, r)
        BY <3>3 DEF Whole
      <4> QED
        BY <1>2, <2>1, <3>1, <3>2, <4>1 DEF LoadedOnce, StagedStays
    <3>4. CASE staged[d][r] = NotStaged
      <4>1. r \notin Completed(d)
        BY <3>1, <3>4 DEF LoadedOnce
      <4>2. files[d][r] \in Seq(SUBSET Known)
        BY Zenon DEF StagingInv
      <4>3. Whole(d, r) \subseteq Whole(d, r)'
        <5>1. CASE files'[d][r] = files[d][r]
          BY <5>1 DEF Whole
        <5>2. ASSUME NEW body \in SUBSET Known, files'[d][r] = Append(files[d][r], body)
              PROVE  Whole(d, r) \subseteq Whole(d, r)'
          <6>1. \A p \in DOMAIN files[d][r] :
                  p \in DOMAIN files'[d][r] /\ files'[d][r][p] = files[d][r][p]
            BY <4>2, <5>2
          <6> QED
            BY <6>1 DEF Whole
        <5> QED
          BY <1>2, <5>1, <5>2 DEF FilesGrow
      <4> QED
        BY <2>1, <3>1, <3>2, <4>1, <4>3 DEF LoadedOnce
    <3> QED
      BY <1>2, <3>3, <3>4 DEF FilesGrow
  <2> QED
    BY <2>1, <2>2 DEF LoadedInv
<1>5. CASE UNCHANGED stagingVars
  <2>1. UNCHANGED <<files, staged>>
    BY <1>5 DEF stagingVars
  <2>2. \A d \in Datasets, r \in Runs : Whole(d, r)' = Whole(d, r)
    BY <2>1 DEF Whole
  <2>3. ASSUME NEW d \in Datasets, NEW r \in Completed(d)' \ Completed(d)
        PROVE  staged[d][r] # NotStaged /\ loaded'[d][r] = Whole(d, r)
    BY <1>1, <2>3, CompletedIsWhole
  \* It is enough to look at what was loaded.
  <2> DEFINE Kept(d, r) ==
        /\ loaded[d][r] \subseteq loaded'[d][r]
        /\ loaded'[d][r] \subseteq Whole(d, r)
        /\ history'[d][r].files <= Cardinality(loaded'[d][r]) + history'[d][r].skipped
        /\ \A l \in loaded'[d][r] : l[2] \subseteq raw'[d][r]
        /\ loaded[d][r] = Whole(d, r) => raw'[d][r] = raw[d][r]
  <2>4. ASSUME \A d \in Datasets, r \in Runs : Kept(d, r)
        PROVE  /\ LoadedInv'
               /\ \A d \in Datasets : \A r \in Completed(d) : raw'[d][r] = raw[d][r]
    <3>1. ASSUME NEW d \in Datasets, NEW r \in Runs
          PROVE  /\ LoadedOnce(d, r)'
                 /\ r \in Completed(d) => raw'[d][r] = raw[d][r]
      <4>1. Kept(d, r) /\ LoadedOnce(d, r)
        BY <2>4 DEF LoadedInv
      <4>2. r \in Completed(d)' => staged[d][r] # NotStaged /\ loaded'[d][r] = Whole(d, r)
        BY <2>3, <4>1 DEF LoadedOnce
      <4> QED
        BY <2>1, <2>2, <4>1, <4>2 DEF LoadedOnce
    <3> QED
      BY <1>3, <3>1 DEF LoadedInv
  <2>5. ASSUME UNCHANGED <<loaded, raw>>, NEW d \in Datasets, NEW r \in Runs,
               history'[d][r] = history[d][r] \/ history'[d][r] = NoHistory
        PROVE  Kept(d, r)
    <3>1. LoadedOnce(d, r) /\ Cardinality(loaded[d][r]) \in Nat
      BY LoadedIsFinite DEF LoadedInv
    <3> QED
      BY <2>5, <3>1 DEF LoadedOnce, NoHistory
  <2>6. ASSUME UNCHANGED <<loaded, raw, history>>
        PROVE  \A d \in Datasets, r \in Runs : Kept(d, r)
    BY <2>5, <2>6
  <2>7. ASSUME NEW d \in Datasets, Copy(d)
        PROVE  \A e \in Datasets, r \in Runs : Kept(e, r)
    <3>1. PICK got \in SUBSET Pending(d), skipped \in SUBSET Pending(d) : Load(d, got, skipped)
      BY <2>7 DEF Copy
    <3>2. \A r \in Runs : Kept(d, r)
      BY <3>1, LoadsOnce
    <3>3. ASSUME NEW e \in Datasets, NEW r \in Runs, e # d
          PROVE  Kept(e, r)
      <4>1. /\ loaded'[e][r] = loaded[e][r] /\ raw'[e][r] = raw[e][r]
            /\ history'[e][r] = history[e][r]
        BY <3>1, <3>3, LoadByRun DEF LoadInv
      <4>2. LoadedOnce(e, r)
        BY DEF LoadedInv
      <4> QED
        BY <4>1, <4>2 DEF LoadedOnce
    <3> QED
      BY <3>2, <3>3
  <2>8. ASSUME NEW d \in Datasets, NEW r \in Runs, ForgetHistory(d, r)
        PROVE  \A e \in Datasets, s \in Runs : Kept(e, s)
    <3>1. /\ UNCHANGED <<loaded, raw>>
          /\ history' = [history EXCEPT ![d][r] = NoHistory]
      BY <2>8 DEF ForgetHistory
    <3>2. \A e \in Datasets, s \in Runs :
            history'[e][s] = history[e][s] \/ history'[e][s] = NoHistory
      BY <3>1 DEF LoadInv
    <3> QED
      BY <2>5, <3>1, <3>2
  <2> HIDE DEF Kept
  <2>9. \A d \in Datasets, r \in Runs : Kept(d, r)
    <3>1. ASSUME NEW d \in Datasets, NEW r \in Runs, Register(d, r)
          PROVE  UNCHANGED <<loaded, raw, history>>
      BY <3>1 DEF Register
    <3>2. ASSUME Complete(DatasetAt, active)
          PROVE  UNCHANGED <<loaded, raw, history>>
      BY <3>2 DEF Complete
    <3>3. ASSUME UNCHANGED loadVars
          PROVE  UNCHANGED <<loaded, raw, history>>
      BY <3>3 DEF loadVars
    <3> QED
      BY <1>1, <2>6, <2>7, <2>8, <3>1, <3>2, <3>3 DEF LoadMoves
  <2> QED
    BY <2>4, <2>9
<1> QED
  BY <1>4, <1>5, StagesOrLoads
LEMMA InitOnce ==
    ASSUME Init
    PROVE  AttemptsInv /\ LoadedInv
<1>1. \A d \in Datasets : ~attempt[d].busy
  BY DEF Init, StagingInit, NoAttempt
<1>2. AttemptsInv
  BY <1>1 DEF Init, StagingInit, AttemptsInv, OneAttempt, PastStage, PastRegistration
<1>3. \A d \in Datasets : Completed(d) = {}
  BY DEF Init, LoadInit, Completed, Registered
<1>4. LoadedInv
  BY <1>3, FS_EmptySet DEF Init, LoadInit, LoadedInv, LoadedOnce, NoHistory
<1> QED
  BY <1>2, <1>4

LEMMA StagedOnceInvariant ==
    ASSUME StagedOnce
    PROVE  Spec => [](SInv /\ AttemptsInv /\ LoadedInv)
<1>1. Init => SInv /\ AttemptsInv /\ LoadedInv
  BY InitSInv, InitOnce
<1>2. SInv /\ AttemptsInv /\ LoadedInv /\ [Next]_vars => (SInv /\ AttemptsInv /\ LoadedInv)'
  BY NextSInv, AttemptsStep, LoadedStep DEF SInv
<1> QED
  BY <1>1, <1>2, PTL DEF Spec

(***************************************************************************)
(* reconcile_snapshot keeps its promise for runs that are staged once:     *)
(* whatever COPYs leave out, whoever issues them, and whatever fails, is   *)
(* cleared or forgotten, a run is completed only when RAW has every row    *)
(* its staging wrote.                                                      *)
(***************************************************************************)
THEOREM ReconciledRunsAreLoaded ==
    ASSUME StagedOnce
    PROVE  Spec => OnlyLoadedRunsComplete
<1>1. ASSUME SInv /\ AttemptsInv /\ LoadedInv, [Next]_vars
      PROVE  \A d \in Datasets : \A r \in Completed(d)' \ Completed(d) :
               staged[d][r].rows \subseteq raw[d][r]
  BY <1>1, Moves, CompletedIsWhole DEF SInv
<1>2. SInv /\ AttemptsInv /\ LoadedInv /\ [Next]_vars =>
        [\A d \in Datasets : \A r \in Completed(d)' \ Completed(d) :
           staged[d][r].rows \subseteq raw[d][r]]_vars
  BY <1>1
<1> QED
  BY <1>2, StagedOnceInvariant, PTL DEF Spec, OnlyLoadedRunsComplete

\* What dbt sees depends on the complete runs alone.
LEMMA SnapshotKept ==
    ASSUME SInv, AttemptsInv, LoadedInv, StagedOnce, [Next]_vars, completions' = completions
    PROVE  StgPayments' = StgPayments /\ NewestComplete' = NewestComplete
<1> USE DEF SInv
<1>1. \A r \in Completed("payments") : raw'["payments"][r] = raw["payments"][r]
  BY LoadedStep, DatasetsAre
<1>2. /\ completions \in Nat
      /\ \A d \in Datasets : completedAt[d] \in [Registered(d) -> 0 .. completions]
      /\ completedAt = [d \in Datasets |-> completedAt[d]]
  BY DEF LoadInv
<1>3. /\ Completed("payments")' = Completed("payments")
      /\ \A r \in Completed("payments") : completedAt'["payments"][r] = completedAt["payments"][r]
  <2>1. CASE UNCHANGED completedAt
    BY <2>1 DEF Completed, Registered
  <2>2. ASSUME NEW d \in Datasets, NEW s \in Runs, Register(d, s)
        PROVE  /\ Completed("payments")' = Completed("payments")
               /\ \A r \in Completed("payments") :
                    completedAt'["payments"][r] = completedAt["payments"][r]
    <3>1. Completed("payments")' = Completed("payments")
      BY <2>2, RegisterStep, DatasetsAre
    <3>2. \A r \in Registered("payments") :
            completedAt'["payments"][r] = completedAt["payments"][r]
      BY <1>2, <2>2, DatasetsAre DEF Register
    <3> QED
      BY <3>1, <3>2 DEF Completed
  <2>3. ASSUME Complete(DatasetAt, active)
        PROVE  UNCHANGED completedAt
    BY <1>2, <2>3 DEF Complete
  <2>4. LoadMoves
    BY Moves
  <2> QED
    BY <2>1, <2>2, <2>3, <2>4, CopyStep, ForgetStep DEF LoadMoves, loadVars
<1>4. NewestComplete' = NewestComplete
  BY <1>3 DEF NewestComplete
<1>5. NewestComplete \subseteq Completed("payments")
  BY DEF NewestComplete
<1>6. UNION {raw'["payments"][r] : r \in NewestComplete}
        = UNION {raw["payments"][r] : r \in NewestComplete}
  BY <1>1, <1>5
<1> QED
  BY <1>4, <1>6 DEF StgPayments, LatestVersions

(***************************************************************************)
(* For runs that are staged once, what dbt sees changes only when a run is *)
(* completed: nothing that is loaded for a run still under way, by the run *)
(* or by hand, shows.                                                      *)
(***************************************************************************)
THEOREM SnapshotStands ==
    ASSUME StagedOnce
    PROVE  Spec => SnapshotStandsUntilNextCompletes
<1>1. ASSUME SInv /\ AttemptsInv /\ LoadedInv, [Next]_vars
      PROVE  StgPayments' # StgPayments => completions' > completions
  <2>1. completions' = completions \/ completions' = completions + 1
    <3>1. LoadMoves
      BY <1>1, Moves DEF SInv
    <3> QED
      BY <3>1 DEF LoadMoves, Copy, Load, Register, ForgetHistory, Complete, loadVars
  <2>2. completions \in Nat
    BY <1>1 DEF SInv, LoadInv
  <2> QED
    BY <1>1, <2>1, <2>2, SnapshotKept
<1>2. SInv /\ AttemptsInv /\ LoadedInv /\ [Next]_vars =>
        [StgPayments' # StgPayments => completions' > completions]_vars
  BY <1>1
<1> QED
  BY <1>2, StagedOnceInvariant, PTL DEF Spec, SnapshotStandsUntilNextCompletes
-----------------------------------------------------------------------------
(***************************************************************************)
(* What runs that are staged once publish.  The newest complete run has    *)
(* in RAW what it read and nothing else, so that is what dbt sees, and     *)
(* what the fact holds from the moment it is built until another run is    *)
(* complete.  As long as no failed run has been cleared, runs complete in  *)
(* the order in which they read the source, so that the run dbt works for  *)
(* is the newest and what it read is not older than what the fact has.     *)
(* (A cleared run that completes after a later one is the newest with      *)
(* older payments.)                                                        *)
(***************************************************************************)
Uncleared == faults["clear"] = 0

IsDone(t, p) ==
    t \in {"dbt_run", "dbt_test", "success"} \/ (t = "validate_snapshot_load" /\ p > 2)

CompletedLater(r, s) == completedAt["payments"][r] < completedAt["payments"][s]

\* Runs are triggered in their order and complete one after the other.
OrderInv ==
    /\ \A r, s \in Runs : r < s /\ task[s] # "none" => task[r] # "none"
    /\ \A r \in Runs : task[r] = "none" =>
         r \notin Completed("payments") /\ staged["payments"][r] = NotStaged
    /\ \A r \in Runs : IsDone(task[r], PosOf(r)) => r \in Completed("payments")
    /\ \A r, s \in Completed("payments") : r # s => CompletedLater(r, s) \/ CompletedLater(s, r)

\* ... in their order, too, when none is cleared.
InOrder ==
    Uncleared =>
      /\ \A s \in Runs : active > 0 /\ s > active => task[s] = "none"
      /\ \A r, s \in Completed("payments") : r < s => CompletedLater(r, s)

Single(rows) == \A x, y \in rows : x[1] = y[1] => x = y

Advances(old, new) == \A x \in old, y \in new : x[1] = y[1] => x[2] <= y[2]

UpToClock(rows) == \A row \in rows : row[2] <= clock

\* What was read is a state of the source that is not newer than the present one.
ReadsInv ==
    /\ Single(source["payments"]) /\ UpToClock(source["payments"])
    /\ \A r \in Runs : Single(Extract(r)) /\ UpToClock(Extract(r))
                        /\ Advances(Extract(r), source["payments"])
    /\ UpToClock(fact) /\ Advances(fact, source["payments"])
    /\ Uncleared /\ active > 0 => Advances(fact, Extract(active))

RawInv == \A r \in Runs : raw["payments"][r] \subseteq WrittenRows("payments", r)

\* Once built, the fact is what dbt sees until another run is complete, and so
\* is the report of a newest run at dbt_test.
PublishedInv ==
    /\ active > 0 /\ task[active] = "dbt_run" /\ pos > 1 => fact = StgPayments
    /\ \A r \in NewestComplete : task[r] = "dbt_test" => fact = StgPayments /\ report = fact

PubInv == OrderInv /\ InOrder /\ ReadsInv /\ RawInv /\ PublishedInv

-----------------------------------------------------------------------------
\* What a step does to the run that executes.
ActiveMove ==
    /\ active' \in {active, 0}
    /\ \/ UNCHANGED task
       \/ /\ active > 0 /\ task[active] # "none"
          /\ \E next \in Tasks \ {"none"} : task' = [task EXCEPT ![active] = next]

LEMMA DagMoves ==
    ASSUME RunInv, StagedOnce, [Next]_vars
    PROVE  (\E r \in Runs : TriggerRun(r) \/ ClearFailed(r)) \/ ActiveMove
<1>1. ~Fault("rerun")
  BY NoRestaging
<1>2. CASE Operator
  BY <1>1, <1>2 DEF Operator, ClearAll
<1>3. ASSUME UNCHANGED dagVars PROVE ActiveMove
  BY <1>3 DEF dagVars, ActiveMove
<1>4. CASE Around
  BY <1>3, <1>4 DEF Around, LoadByHand
<1>5. ASSUME NEW d \in Datasets, Stage(d) \/ FailStaging(d) PROVE ActiveMove
  <2>1. CASE Stage(d)
    BY <1>3, <2>1 DEF Stage
  <2>2. CASE FailStaging(d)
    BY <2>2 DEF FailStaging, ActiveMove
  <2> QED
    BY <1>5, <2>1, <2>2
<1>6. ASSUME NEW t, NEW next, TaskDone(t, next), t # "none", next \in Tasks \ {"none"}
      PROVE  ActiveMove
  BY <1>6 DEF TaskDone, At, GoTo, ActiveMove
<1>7. CASE AllStaged
  BY <1>7 DEF AllStaged, At, GoTo, ActiveMove, Tasks
<1>8. CASE RegisterRuns \/ LoadRaw \/ ValidateSnapshotLoad
  BY <1>6, <1>8
     DEF RegisterRuns, LoadRaw, ValidateSnapshotLoad, NextStatement, ActiveMove, Tasks
<1>9. CASE RefuseSnapshot \/ BuildFact \/ FailTask
  BY <1>9 DEF RefuseSnapshot, BuildFact, FailTask, NextStatement, ActiveMove
<1>10. CASE BuildReport \/ DbtTest
  BY <1>10 DEF BuildReport, DbtTest, At, GoTo, ActiveMove, Tasks
<1> QED
  BY <1>2, <1>3, <1>4, <1>5, <1>7, <1>8, <1>9, <1>10 DEF Next, Tasked, vars

\* A run is past its completion only after it.
LEMMA DoneStep ==
    ASSUME RunInv, StagedOnce, [Next]_vars, NEW r \in Runs, IsDone(task'[r], PosOf(r)')
    PROVE  \/ IsDone(task[r], PosOf(r))
           \/ /\ r = active /\ task[r] = "validate_snapshot_load"
              /\ Complete("payments", r)
<1> DEFINE Goal == \/ IsDone(task[r], PosOf(r))
                   \/ /\ r = active /\ task[r] = "validate_snapshot_load"
                      /\ Complete("payments", r)
<1>0. task \in [Runs -> Tasks] /\ pos \in 1 .. 3 /\ active \in 0 .. MaxRuns
      /\ (active = 0 => pos = 1) /\ PosOf(r) \in 1 .. 3
  BY DEF RunInv, PosOf
<1>1. ~Fault("rerun")
  BY NoRestaging
<1>2. CASE Operator
  <2>1. PICK s \in Runs : TriggerRun(s) \/ ClearFailed(s)
    BY <1>1, <1>2 DEF Operator, ClearAll
  <2>2. CASE TriggerRun(s)
    BY <1>0, <2>2 DEF TriggerRun, IsDone, PosOf
  <2>3. CASE ClearFailed(s)
    BY <1>0, <2>3 DEF ClearFailed, IsDone, PosOf
  <2> QED
    BY <2>1, <2>2, <2>3
<1>3. CASE UNCHANGED task /\ (pos' = 1 \/ UNCHANGED <<pos, active>>)
  BY <1>0, <1>3 DEF IsDone, PosOf
<1>4. CASE UNCHANGED dagVars \/ Around
  BY <1>3, <1>4 DEF dagVars, Around, LoadByHand
<1>5. ASSUME NEW d \in Datasets, Stage(d) \/ FailStaging(d) PROVE Goal
  BY <1>3, <1>5 DEF Stage, FailStaging, At, dagVars
<1>6. ASSUME NEW next, GoTo(next), active > 0, IsDone(next, 1) => IsDone(task[active], pos)
      PROVE  Goal
  BY <1>0, <1>6 DEF GoTo, IsDone, PosOf
<1>7. ASSUME active > 0, pos < 3, NextStatement,
             \/ task[active] \notin {"validate_snapshot_load"}
             \/ Complete(DatasetAt, active) /\ task[active] = "validate_snapshot_load"
      PROVE  Goal
  <2>1. UNCHANGED <<active, task>> /\ pos' = pos + 1
    BY <1>7 DEF NextStatement
  <2>2. CASE r # active \/ task[r] \notin {"validate_snapshot_load"}
    BY <1>0, <2>1, <2>2 DEF IsDone, PosOf
  <2>3. CASE r = active /\ task[r] = "validate_snapshot_load"
    BY <1>0, <1>7, <2>1, <2>3 DEF IsDone, PosOf, DatasetAt
  <2> QED
    BY <2>2, <2>3
<1>8. CASE AllStaged
  BY <1>6, <1>8 DEF AllStaged, At, IsDone
<1>9. CASE RegisterRuns
  BY <1>6, <1>7, <1>9 DEF RegisterRuns, TaskDone, At, InTask, IsDone
<1>10. CASE LoadRaw
  BY <1>6, <1>7, <1>10 DEF LoadRaw, TaskDone, At, InTask, IsDone
<1>11. CASE ValidateSnapshotLoad
  BY <1>6, <1>7, <1>11 DEF ValidateSnapshotLoad, TaskDone, At, InTask, IsDone
<1>12. CASE RefuseSnapshot \/ FailTask
  BY <1>3, <1>12 DEF RefuseSnapshot, FailTask
<1>13. CASE BuildFact
  BY <1>7, <1>13 DEF BuildFact, At
<1>14. CASE BuildReport
  BY <1>6, <1>14 DEF BuildReport, At, IsDone
<1>15. CASE DbtTest
  BY <1>3, <1>6, <1>15, <1>0 DEF DbtTest, At, IsDone
<1> HIDE DEF Goal
<1> QED
  BY <1>2, <1>4, <1>5, <1>8, <1>9, <1>10, <1>11, <1>12, <1>13, <1>14, <1>15
     DEF Next, Tasked, vars, Goal

\* Only the run that executes is completed, as the newest.
Completes ==
    /\ active \in Runs /\ task[active] = "validate_snapshot_load"
    /\ Completed("payments")' = Completed("payments") \union {active}
    /\ completedAt'["payments"][active] = completions + 1

LEMMA CompletionStep ==
    ASSUME SInv, LoadMoves
    PROVE  /\ \A r \in Completed("payments") :
                completedAt'["payments"][r] = completedAt["payments"][r]
           /\ Completed("payments")' = Completed("payments")
                \/ (active \notin Completed("payments") /\ Completes)
<1> USE DEF SInv
<1> DEFINE Goal == /\ \A r \in Completed("payments") :
                        completedAt'["payments"][r] = completedAt["payments"][r]
                   /\ Completed("payments")' = Completed("payments")
                        \/ (active \notin Completed("payments") /\ Completes)
<1>1. /\ completions \in Nat
      /\ \A d \in Datasets : completedAt[d] \in [Registered(d) -> 0 .. completions]
      /\ completedAt = [d \in Datasets |-> completedAt[d]]
  BY DEF LoadInv
<1>2. CASE UNCHANGED completedAt
  BY <1>2 DEF Completed, Registered
<1>3. ASSUME NEW d \in Datasets, NEW s \in Runs, Register(d, s)
      PROVE  Goal
  <2>1. Completed("payments")' = Completed("payments")
    BY <1>3, RegisterStep, DatasetsAre
  <2>2. \A r \in Registered("payments") :
          completedAt'["payments"][r] = completedAt["payments"][r]
    BY <1>1, <1>3, DatasetsAre DEF Register
  <2> QED
    BY <2>1, <2>2 DEF Completed
<1>4. ASSUME InTask("validate_snapshot_load"), Complete(DatasetAt, active)
      PROVE  Goal
  <2>1. active \in Runs /\ task[active] = "validate_snapshot_load"
    BY <1>4, ActiveRun DEF InTask
  <2>2. CASE active \in Registered(DatasetAt) \ Completed(DatasetAt) /\ DatasetAt = "payments"
    <3>1. /\ completedAt' = [completedAt EXCEPT !["payments"][active] = completions + 1]
      BY <1>4, <2>2 DEF Complete
    <3>2. /\ completedAt'["payments"] = [completedAt["payments"] EXCEPT ![active] = completions + 1]
      BY <1>1, <3>1, DatasetsAre
    <3>3. /\ Registered("payments")' = Registered("payments")
          /\ completedAt'["payments"][active] = completions + 1
          /\ \A s \in Registered("payments") : s # active =>
               completedAt'["payments"][s] = completedAt["payments"][s]
      BY <1>1, <2>2, <3>2, DatasetsAre DEF Registered
    <3>4. active \in Registered("payments") /\ active \notin Completed("payments")
          /\ completedAt'["payments"][active] > 0
      BY <1>1, <2>2, <3>3
    <3>5. Completed("payments")' = Completed("payments") \union {active}
      BY <3>3, <3>4 DEF Completed
    <3> QED
      <4>2. \A r \in Completed("payments") :
              completedAt'["payments"][r] = completedAt["payments"][r]
        BY <3>3, <3>4 DEF Completed
      <4> QED
        BY <2>1, <3>3, <3>4, <3>5, <4>2 DEF Completes
  <2>3. CASE DatasetAt # "payments"
    <3>1. completedAt'["payments"] = completedAt["payments"]
      BY <1>1, <1>4, <2>3, DatasetsAre DEF Complete
    <3> QED
      BY <3>1 DEF Completed, Registered
  <2>4. CASE active \notin Registered(DatasetAt) \ Completed(DatasetAt)
    BY <1>2, <1>4, <2>4 DEF Complete
  <2> QED
    BY <2>2, <2>3, <2>4
<1> HIDE DEF Goal
<1> QED
  BY <1>2, <1>3, <1>4, CopyStep, ForgetStep DEF LoadMoves, loadVars, Goal

LEMMA ServesTheSame ==
    ASSUME SInv, AttemptsInv, LoadedInv, StagedOnce, [Next]_vars
    PROVE  \/ NewestComplete' = NewestComplete /\ StgPayments' = StgPayments
           \/ /\ active \in Runs /\ task[active] = "validate_snapshot_load"
              /\ NewestComplete' = {active}
<1> USE DEF SInv
<1>1. /\ \A r \in Completed("payments") :
           completedAt'["payments"][r] = completedAt["payments"][r]
      /\ Completed("payments")' = Completed("payments")
           \/ (active \notin Completed("payments") /\ Completes)
  BY Moves, CompletionStep
<1>2. \A r \in Completed("payments") : raw'["payments"][r] = raw["payments"][r]
  BY LoadedStep, DatasetsAre
<1>3. CASE Completed("payments")' = Completed("payments")
  <2>1. NewestComplete' = NewestComplete
    BY <1>1, <1>3 DEF NewestComplete
  <2>2. NewestComplete \subseteq Completed("payments")
    BY DEF NewestComplete
  <2>3. UNION {raw'["payments"][r] : r \in NewestComplete}
          = UNION {raw["payments"][r] : r \in NewestComplete}
    BY <1>2, <2>2
  <2> QED
    BY <2>1, <2>3 DEF StgPayments, LatestVersions
<1>4. CASE active \notin Completed("payments") /\ Completes
  <2>1. /\ completions \in Nat
        /\ \A r \in Completed("payments") :
             completedAt["payments"][r] \in Int /\ completedAt["payments"][r] <= completions
    BY DatasetsAre DEF LoadInv, Completed
  <2>2. /\ Completed("payments")' = Completed("payments") \union {active}
        /\ completedAt'["payments"][active] = completions + 1
    BY <1>4 DEF Completes
  <2>3. \A r \in Completed("payments") :
          completedAt'["payments"][r] \in Int /\ completedAt'["payments"][r] <= completions
    BY <1>1, <2>1
  <2>4. NewestComplete' = {active}
    BY <2>1, <2>2, <2>3 DEF NewestComplete
  <2> QED
    BY <1>4, <2>4 DEF Completes
<1> QED
  BY <1>1, <1>3, <1>4

\* Faults only become more; a run is cleared when those of that kind do.
LEMMA ClearStep ==
    ASSUME RunInv, [Next]_vars
    PROVE  \/ faults'["clear"] = faults["clear"]
           \/ /\ faults'["clear"] = faults["clear"] + 1 /\ faults["clear"] \in Nat
              /\ \E r \in Runs : ClearFailed(r)
<1>1. faults \in [DOMAIN MaxFaults -> Nat]
      /\ DOMAIN MaxFaults = {"staging", "fail", "clear", "rerun", "manual"}
  BY DEF RunInv, MaxFaults
<1>2. ASSUME NEW kind \in {"staging", "fail", "rerun", "manual"}, Fault(kind)
      PROVE  faults'["clear"] = faults["clear"]
  BY <1>1, <1>2 DEF Fault
<1>3. CASE Operator
  <2>1. ASSUME NEW r \in Runs, ClearFailed(r)
        PROVE  faults'["clear"] = faults["clear"] + 1 /\ faults["clear"] \in Nat
    BY <1>1, <2>1 DEF ClearFailed, Fault
  <2> QED
    BY <1>2, <1>3, <2>1 DEF Operator, TriggerRun, ClearAll
<1>4. CASE Tasked
  BY <1>2, <1>4 DEF Tasked, Stage, FailStaging, AllStaged, RegisterRuns, LoadRaw,
       ValidateSnapshotLoad, TaskDone, RefuseSnapshot, BuildFact, BuildReport, DbtTest, FailTask,
       NoFault
<1>5. CASE Around
  BY <1>2, <1>5 DEF Around, LoadByHand, NoFault
<1> QED
  BY <1>3, <1>4, <1>5 DEF Next, vars

LEMMA UnclearedStep ==
    ASSUME RunInv, StagedOnce, [Next]_vars, Uncleared'
    PROVE  Uncleared /\ ((\E r \in Runs : TriggerRun(r)) \/ ActiveMove)
<1>1. faults'["clear"] = faults["clear"]
  BY ClearStep DEF Uncleared
<1>2. \A r \in Runs : ~ClearFailed(r)
  BY <1>1 DEF ClearFailed, Fault, RunInv, MaxFaults
<1> QED
  BY <1>1, <1>2, DagMoves DEF Uncleared

LEMMA OrderStep ==
    ASSUME SInv, AttemptsInv, OrderInv, InOrder, StagedOnce, [Next]_vars
    PROVE  OrderInv' /\ InOrder'
<1> USE DEF SInv
<1>1. /\ LoadMoves
      /\ (\E r \in Runs : TriggerRun(r) \/ ClearFailed(r)) \/ ActiveMove
  BY Moves, DagMoves
<1>2. /\ task \in [Runs -> Tasks] /\ active \in 0 .. MaxRuns
      /\ Runs \subseteq Nat /\ (active > 0 => active \in Runs)
      /\ Completed("payments") \subseteq Runs
      /\ \A r \in Runs : active \in Nat /\ r \in Nat
  BY ActiveRun, DatasetsAre DEF RunInv, LoadInv, Completed, Runs
<1> DEFINE TaskOrder ==
             /\ \A r, s \in Runs : r < s /\ task'[s] # "none" => task'[r] # "none"
             /\ \A r \in Runs : task'[r] = "none" => task[r] = "none"
           NoneAfter ==
             \A s \in Runs : active' > 0 /\ s > active' => task'[s] = "none"
           Goal == TaskOrder /\ (Uncleared' => NoneAfter)
<1>3. Goal
  <2>1. ASSUME NEW r \in Runs, TriggerRun(r)
        PROVE  TaskOrder /\ NoneAfter
    <3>1. /\ active = 0 /\ active' = r /\ task[r] = "none"
          /\ \A s \in Runs : s < r => task[s] # "none"
          /\ task'[r] = "stage" /\ \A s \in Runs : s # r => task'[s] = task[s]
      BY <1>2, <2>1 DEF TriggerRun, Runs
    <3> QED
      BY <1>2, <3>1 DEF OrderInv
  <2>2. ASSUME ActiveMove, NEW next, next # "none",
               UNCHANGED task \/ (active > 0 /\ task[active] # "none"
                                  /\ task' = [task EXCEPT ![active] = next])
        PROVE  Goal
    <3>1. TaskOrder
      BY <1>2, <2>2 DEF OrderInv
    <3>2. ASSUME Uncleared PROVE NoneAfter
      BY <1>2, <2>2, <3>2 DEF ActiveMove, InOrder
    <3> QED
      BY <3>1, <3>2, UnclearedStep
  <2>3. ASSUME NEW r \in Runs, ClearFailed(r)
        PROVE  Goal
    <3>1. UNCHANGED task
      BY <2>3 DEF ClearFailed
    <3>2. ~Uncleared'
      BY <2>3 DEF ClearFailed, Fault, RunInv, MaxFaults, Uncleared
    <3> QED
      BY <3>1, <3>2 DEF OrderInv
  <2>4. CASE ActiveMove
    BY <2>2, <2>4 DEF ActiveMove
  <2> HIDE DEF Goal
  <2> QED
    BY <1>1, <2>1, <2>3, <2>4 DEF Goal
<1>4. /\ \A r \in Completed("payments") :
           completedAt'["payments"][r] = completedAt["payments"][r]
      /\ Completed("payments")' = Completed("payments")
           \/ (active \notin Completed("payments") /\ Completes)
  BY <1>1, CompletionStep
<1>5. ASSUME NEW r \in Runs, task'[r] = "none"
      PROVE  r \notin Completed("payments")' /\ staged'["payments"][r] = NotStaged
  <2>1. task[r] = "none"
    BY <1>3, <1>5
  <2>2. r \notin Completed("payments") /\ staged["payments"][r] = NotStaged
    BY <2>1 DEF OrderInv
  <2>3. r \notin Completed("payments")'
    BY <1>4, <2>1, <2>2 DEF Completes
  <2>4. staged'["payments"][r] = NotStaged
    <3>1. ASSUME NEW d \in Datasets, StageMove(d)
          PROVE  staged'["payments"][r] = staged["payments"][r]
      <4>1. r # active /\ StagesOne(d)
        BY <2>1, <3>1, StageMoveByPart DEF StageMove
      <4> QED
        BY <4>1, DatasetsAre DEF StagesOne
    <3> QED
      BY <2>2, <3>1, StagedOnceMoves DEF OtherMove, EarlyEnd
  <2> QED
    BY <2>3, <2>4
<1>6. /\ completions \in Nat
      /\ \A q \in Completed("payments") :
           completedAt["payments"][q] \in Int /\ completedAt["payments"][q] <= completions
  BY DatasetsAre DEF LoadInv, Completed
\* Whatever completes is the latest.
<1>7. ASSUME NEW r \in Completed("payments")', NEW s \in Completed("payments")', r # s
      PROVE  \/ /\ r \in Completed("payments") /\ s \in Completed("payments")
                /\ (CompletedLater(r, s)' <=> CompletedLater(r, s))
                /\ (CompletedLater(s, r)' <=> CompletedLater(s, r))
             \/ r \in Completed("payments") /\ s = active /\ Completes /\ CompletedLater(r, s)'
             \/ s \in Completed("payments") /\ r = active /\ Completes /\ CompletedLater(s, r)'
  <2>1. CASE r \in Completed("payments") /\ s \in Completed("payments")
    BY <1>4, <2>1 DEF CompletedLater
  <2>2. CASE r \in Completed("payments") /\ s \notin Completed("payments")
    <3>1. Completes /\ s = active
      BY <1>4, <1>7, <2>2 DEF Completes
    <3> QED
      BY <1>4, <1>6, <2>2, <3>1 DEF CompletedLater, Completes
  <2>3. CASE s \in Completed("payments") /\ r \notin Completed("payments")
    <3>1. Completes /\ r = active
      BY <1>4, <1>7, <2>3 DEF Completes
    <3> QED
      BY <1>4, <1>6, <2>3, <3>1 DEF CompletedLater, Completes
  <2> QED
    BY <1>4, <1>7, <2>1, <2>2, <2>3 DEF Completes
<1>8. ASSUME NEW r \in Completed("payments")', NEW s \in Completed("payments")', r # s
      PROVE  CompletedLater(r, s)' \/ CompletedLater(s, r)'
  <2>1. CASE r \in Completed("payments") /\ s \in Completed("payments")
    <3>1. CompletedLater(r, s) \/ CompletedLater(s, r)
      BY <1>8, <2>1 DEF OrderInv
    <3>2. /\ completedAt'["payments"][r] = completedAt["payments"][r]
          /\ completedAt'["payments"][s] = completedAt["payments"][s]
      BY <1>4, <2>1
    <3> QED
      BY <3>1, <3>2 DEF CompletedLater
  <2> QED
    BY <1>7, <1>8, <2>1, Zenon
<1>9. ASSUME Uncleared', NEW r \in Completed("payments")', NEW s \in Completed("payments")', r < s
      PROVE  CompletedLater(r, s)'
  <2>0. Completed("payments")' \subseteq Nat
    BY <1>2, <1>4 DEF Completes
  <2>1. Uncleared /\ r # s
    BY <1>9, <2>0, UnclearedStep
  <2>2. CASE s \in Completed("payments") /\ r = active /\ Completes
    <3>1. s > active /\ active > 0 /\ s \in Runs
      BY <1>2, <1>9, <2>2 DEF Runs, Completes
    <3> QED
      BY <2>1, <2>2, <3>1 DEF InOrder, OrderInv
  <2> QED
    BY <1>7, <1>9, <2>1, <2>2 DEF InOrder
<1>10. ASSUME NEW r \in Runs, IsDone(task'[r], PosOf(r)')
       PROVE  r \in Completed("payments")'
  <2>1. CASE IsDone(task[r], PosOf(r))
    BY <1>4, <2>1 DEF OrderInv, Completes
  <2>2. CASE r = active /\ task[r] = "validate_snapshot_load" /\ Complete("payments", r)
    BY <2>2, CompleteStep, DatasetsAre DEF RunInv, TableOf, PastRegistration
  <2> QED
    BY <1>10, <2>1, <2>2, DoneStep
<1>11. \A r \in Runs : IsDone(task[r], PosOf(r))' => IsDone(task'[r], PosOf(r)')
  BY DEF IsDone
<1>12. OrderInv'
  BY <1>3, <1>5, <1>8, <1>10, <1>11 DEF OrderInv
<1>13. InOrder'
  BY <1>3, <1>9 DEF InOrder
<1> QED
  BY <1>12, <1>13

\* COPY takes its rows from the files.
LEMMA RawStep ==
    ASSUME SInv, AttemptsInv, RawInv, StagedOnce, [Next]_vars
    PROVE  RawInv'
<1> USE DEF SInv
<1>1. CASE UNCHANGED loadVars
  <2>1. FilesGrow
    BY AttemptsStep
  <2>2. ASSUME NEW r \in Runs
        PROVE  WrittenRows("payments", r) \subseteq WrittenRows("payments", r)'
    <3>1. CASE files'["payments"][r] = files["payments"][r]
      BY <3>1 DEF WrittenRows
    <3>2. ASSUME NEW body, files'["payments"][r] = Append(files["payments"][r], body)
          PROVE  WrittenRows("payments", r) \subseteq WrittenRows("payments", r)'
      <4>1. files["payments"][r] \in Seq(SUBSET Known)
        BY DatasetsAre, Zenon DEF StagingInv
      <4>2. \A p \in DOMAIN files["payments"][r] :
              p \in DOMAIN files'["payments"][r]
              /\ files'["payments"][r][p] = files["payments"][r][p]
        BY <3>2, <4>1
      <4> QED
        BY <4>2 DEF WrittenRows
    <3> QED
      BY <2>1, <3>1, <3>2, DatasetsAre DEF FilesGrow
  <2>3. UNCHANGED raw
    BY <1>1 DEF loadVars
  <2> QED
    BY <2>2, <2>3 DEF RawInv
<1>2. CASE UNCHANGED stagingVars
  <2>1. \A r \in Runs : WrittenRows("payments", r)' = WrittenRows("payments", r)
    BY <1>2 DEF stagingVars, WrittenRows
  <2>2. CASE UNCHANGED raw
    BY <2>1, <2>2 DEF RawInv
  <2>3. ASSUME NEW d \in Datasets, NEW got, NEW skipped, Load(d, got, skipped)
        PROVE  RawInv'
    <3>1. raw' = [raw EXCEPT ![d] = [r \in Runs |->
                    raw[d][r] \union {pair[2] : pair \in RowsOf(d, got, r)}]]
      BY <2>3, LoadByRun
    <3>2. raw \in [Datasets -> [Runs -> SUBSET Known]]
      BY DEF LoadInv
    <3>3. ASSUME NEW r \in Runs, d = "payments"
          PROVE  raw'["payments"][r] \subseteq WrittenRows("payments", r)
      <4>1. raw'["payments"][r]
              = raw["payments"][r] \union {pair[2] : pair \in RowsOf("payments", got, r)}
        BY <3>1, <3>2, <3>3
      <4>2. \A pair \in RowsOf("payments", got, r) : pair[2] \in WrittenRows("payments", r)
        <5>1. SUFFICES ASSUME NEW p \in PartsOf("payments", got, r),
                              NEW pair \in {p} \X files["payments"][r][p]
                       PROVE  pair[2] \in WrittenRows("payments", r)
          BY DEF RowsOf
        <5>2. p \in DOMAIN files["payments"][r] /\ pair[2] \in files["payments"][r][p]
          BY <5>1 DEF PartsOf
        <5> QED
          BY <5>2 DEF WrittenRows
      <4> QED
        BY <4>1, <4>2 DEF RawInv
    <3>4. ASSUME d # "payments"
          PROVE  raw'["payments"] = raw["payments"]
      BY <3>1, <3>2, <3>4, DatasetsAre
    <3> QED
      BY <2>1, <3>3, <3>4 DEF RawInv
  <2>4. LoadMoves
    BY Moves
  <2> QED
    BY <2>2, <2>3, <2>4 DEF LoadMoves, Copy, Register, ForgetHistory, Complete, loadVars
<1> QED
  BY <1>1, <1>2, StagesOrLoads

-----------------------------------------------------------------------------
\* dbt sees what the newest complete run has read.
LEMMA StgIsExtract ==
    ASSUME SInv, AttemptsInv, LoadedInv, OrderInv, ReadsInv, RawInv,
           NEW r \in NewestComplete
    PROVE  /\ r \in Runs
           /\ Extract(r) = staged["payments"][r].rows
           /\ StgPayments = Extract(r)
           /\ StgPayments # {}
<1> USE DEF SInv
<1>1. /\ r \in Completed("payments") /\ r \in Runs
      /\ Completed("payments") \subseteq Runs
      /\ \A s \in Completed("payments") : completedAt["payments"][s] \in Int
  BY DatasetsAre DEF NewestComplete, Completed, LoadInv
<1>2. /\ OneAttempt("payments", r) /\ LoadedOnce("payments", r)
      /\ staged["payments"][r] # NotStaged
  BY <1>1, DatasetsAre DEF AttemptsInv, LoadedInv, LoadedOnce
<1>3. Extract(r) = staged["payments"][r].rows
  BY <1>2 DEF Extract, OneAttempt
<1>4. NewestComplete = {r}
  <2>1. ASSUME NEW s \in NewestComplete, s # r PROVE FALSE
    <3>1. s \in Completed("payments") /\ completedAt["payments"][s] = completedAt["payments"][r]
      BY <1>1, <2>1 DEF NewestComplete
    <3> QED
      BY <1>1, <2>1, <3>1 DEF OrderInv, CompletedLater
  <2> QED
    BY <2>1
<1>5. raw["payments"][r] = staged["payments"][r].rows
  <2>2. staged["payments"][r].rows = WrittenRows("payments", r)
    BY <1>2 DEF OneAttempt
  <2>3. \A p \in DOMAIN files["payments"][r] :
          <<p, files["payments"][r][p]>> \in loaded["payments"][r]
    BY <1>1, <1>2 DEF LoadedOnce, Whole
  <2>4. \A p \in DOMAIN files["payments"][r] :
          files["payments"][r][p] \subseteq raw["payments"][r]
    BY <1>2, <2>3 DEF LoadedOnce
  <2>5. WrittenRows("payments", r) \subseteq raw["payments"][r]
    BY <2>4 DEF WrittenRows
  <2> QED
    BY <1>1, <2>2, <2>5 DEF RawInv
<1> DEFINE R == Extract(r)
<1>6. StgPayments = LatestVersions(R)
  BY <1>3, <1>4, <1>5 DEF StgPayments
<1>7. R \subseteq Known /\ Single(R)
  BY <1>1, <1>3, DatasetsAre DEF ReadsInv, StagingInv
<1>8. LatestVersions(R) = R
  <2>1. \A x \in R : x[2] \in Int
    BY <1>7 DEF Known
  <2> HIDE DEF R
  <2>2. \A x, y \in R : y[1] = x[1] => y[2] <= x[2]
    BY <1>7, <2>1 DEF Single
  <2> QED
    BY <2>2 DEF LatestVersions
<1>9. StgPayments # {}
  BY StgPaymentsKnown DEF ServedInv
<1> QED
  BY <1>1, <1>3, <1>6, <1>8, <1>9

\* A run that dbt works for is complete; as long as none has been cleared it is
\* the newest.
LEMMA NewestAtDbt ==
    ASSUME SInv, OrderInv, active > 0, task[active] \in {"dbt_run", "dbt_test"}
    PROVE  /\ NewestComplete # {}
           /\ InOrder /\ Uncleared => active \in NewestComplete
<1> USE DEF SInv
<1>1. active \in Runs
  BY ActiveRun
<1>2. active \in Completed("payments")
  BY <1>1 DEF OrderInv, IsDone
<1>3. NewestComplete # {}
  BY <1>2, NewestExists
<1>4. ASSUME InOrder, Uncleared PROVE active \in NewestComplete
  <2>1. /\ Completed("payments") \subseteq Runs /\ Runs \subseteq Nat
        /\ \A r \in Completed("payments") : completedAt["payments"][r] \in Int
    BY DatasetsAre DEF LoadInv, Completed, Runs
  <2>2. ASSUME NEW r \in Completed("payments") PROVE r <= active
    <3>1. r \in Runs /\ task[r] # "none" /\ r \in Nat /\ active \in Nat
      BY <1>1, <2>1 DEF OrderInv
    <3>2. ~(r > active)
      BY <1>4, <3>1 DEF InOrder
    <3> QED
      BY <3>1, <3>2
  <2>3. ASSUME NEW r \in Completed("payments"), r # active
        PROVE  CompletedLater(r, active)
    <3>1. r \in Int /\ active \in Int /\ r <= active
      BY <1>1, <2>1, <2>2 DEF Runs
    <3>2. r < active
      BY <2>3, <3>1, SMT
    <3> QED
      BY <1>2, <1>4, <2>3, <3>2 DEF InOrder
  <2> QED
    BY <1>2, <2>1, <2>3 DEF NewestComplete, CompletedLater
<1> QED
  BY <1>3, <1>4

-----------------------------------------------------------------------------
(***************************************************************************)
(* What runs read.                                                         *)
(***************************************************************************)
ReadsStay == \A r \in Runs : Extract(r)' = Extract(r)

ReadMove ==
    /\ active \in Runs /\ task[active] = "stage"
    /\ Extract(active)' = source["payments"]
    /\ \A r \in Runs : r # active => Extract(r)' = Extract(r)
    /\ UNCHANGED <<source, clock, active, task>>

\* An attempt that ends early has read nothing.
NoRead ==
    /\ active \in Runs
    /\ \A r \in Runs : Extract(r)' = IF r = active THEN {} ELSE Extract(r)
    /\ UNCHANGED <<source, clock, task>>
    /\ active' \in {active, 0}

LEMMA EarlyEndReads ==
    ASSUME StagingInv, AttemptsInv, NEW d \in Datasets, EarlyEnd(d)
    PROVE  NoRead \/ (ReadsStay /\ UNCHANGED <<source, clock>>)
<1>1. /\ active \in Runs /\ attempt[d].busy
      /\ UNCHANGED <<source, clock, staged, task>> /\ active' \in {active, 0}
      /\ attempt' = [attempt EXCEPT ![d] = NoAttempt]
      /\ active' = 0 => \A e \in Datasets \ {d} : ~attempt[e].busy
      /\ 0 \notin Runs
  BY DEF EarlyEnd, Runs
<1>2. attempt \in [Datasets -> AttemptType] /\ ~NoAttempt.busy
  BY DEF StagingInv, AttemptType, NoAttempt
<1>3. \A r \in Runs : r # active => Extract(r)' = Extract(r)
  BY <1>1 DEF Extract
<1>4. CASE d = "payments"
  <2>1. ~attempt'["payments"].busy
    BY <1>1, <1>2, <1>4
  <2>2. OneAttempt("payments", active)
    BY <1>1, DatasetsAre DEF AttemptsInv
  <2>3. staged["payments"][active].rows = {}
    BY <1>1, <1>4, <2>2 DEF OneAttempt, NotStaged
  <2>4. \A r \in Runs : r = active => Extract(r)' = {}
    BY <1>1, <2>1, <2>3 DEF Extract
  <2> QED
    BY <1>1, <1>3, <2>4 DEF NoRead
<1>5. CASE d # "payments"
  <2>1. attempt'["payments"] = attempt["payments"]
    BY <1>1, <1>2, <1>5, DatasetsAre
  <2>2. active' # active => ~attempt["payments"].busy
    BY <1>1, <1>5, DatasetsAre
  <2>3. \A r \in Runs : r = active => Extract(r)' = Extract(r)
    BY <1>1, <2>1, <2>2 DEF Extract
  <2> QED
    BY <1>1, <1>3, <2>3 DEF ReadsStay
<1> QED
  BY <1>4, <1>5

LEMMA StageMoveReads ==
    ASSUME StagingInv, AttemptsInv, NEW d \in Datasets, StageMove(d)
    PROVE  ReadMove \/ ReadsStay
<1>1. /\ active \in Runs /\ task[active] = "stage" /\ UNCHANGED <<active, task>>
      /\ StagesOne(d)
  BY StageMoveByPart DEF StageMove, dagVars
<1>2. UNCHANGED <<source, clock>>
  BY DEF StageMove, StartAttempt, PutPart, FinishAttempt
<1>3. CASE d # "payments"
  <2>1. /\ attempt'["payments"] = attempt["payments"]
        /\ \A r \in Runs : staged'["payments"][r] = staged["payments"][r]
    BY <1>1, <1>3, DatasetsAre DEF StagesOne
  <2> QED
    BY <1>1, <2>1 DEF ReadsStay, Extract
<1>4. CASE d = "payments"
  <2>1. \A r \in Runs : r # active => Extract(r)' = Extract(r)
    BY <1>1, <1>4, DatasetsAre DEF StagesOne, Extract
  <2>2. attempt \in [Datasets -> AttemptType] /\ "payments" \in Datasets
    BY DatasetsAre DEF StagingInv, AttemptType
  <2>3. CASE StartAttempt("payments", active)
    <3>1. attempt'["payments"] = [busy |-> TRUE, left |-> source["payments"],
                                  parts |-> 0, rows |-> {}]
      BY <2>2, <2>3, Zenon DEF StartAttempt
    <3>2. attempt'["payments"].busy /\ attempt'["payments"].left = source["payments"]
          /\ attempt'["payments"].rows = {}
      BY <3>1
    <3>3. Extract(active)' = source["payments"]
      BY <1>1, <3>2 DEF Extract
    <3> QED
      BY <1>1, <1>2, <2>1, <3>3 DEF ReadMove
  <2>4. CASE PutPart("payments", active)
    <3>1. PICK body \in SUBSET attempt["payments"].left :
            attempt' = [attempt EXCEPT !["payments"] =
                          [busy |-> TRUE, left |-> attempt["payments"].left \ body,
                           parts |-> attempt["payments"].parts + 1,
                           rows |-> attempt["payments"].rows \union body]]
      BY <2>4 DEF PutPart
    <3>2. attempt["payments"].busy
      BY <2>4, Zenon DEF PutPart
    <3>3. attempt'["payments"] = [busy |-> TRUE, left |-> attempt["payments"].left \ body,
                                  parts |-> attempt["payments"].parts + 1,
                                  rows |-> attempt["payments"].rows \union body]
      BY <2>2, <3>1, Zenon
    <3>4. /\ attempt'["payments"].busy
          /\ attempt'["payments"].left = attempt["payments"].left \ body
          /\ attempt'["payments"].rows = attempt["payments"].rows \union body
      BY <3>3
    <3>5. Extract(active)' = Extract(active)
      BY <1>1, <3>2, <3>4 DEF Extract
    <3> QED
      BY <1>1, <2>1, <3>5 DEF ReadsStay
  <2>5. CASE FinishAttempt("payments", active)
    <3>1. /\ attempt["payments"].busy /\ attempt["payments"].left = {}
          /\ staged' = [staged EXCEPT !["payments"][active] =
                          [parts |-> attempt["payments"].parts, rows |-> attempt["payments"].rows]]
          /\ attempt' = [attempt EXCEPT !["payments"] = NoAttempt]
      BY <2>5, Zenon DEF FinishAttempt
    <3>2. attempt'["payments"] = NoAttempt
      BY <2>2, <3>1, Zenon
    <3>3. ~attempt'["payments"].busy
      BY <3>2 DEF NoAttempt
    <3>4. staged'["payments"][active].rows = attempt["payments"].rows
      BY <1>1, <2>2, <3>1 DEF StagingInv
    <3>5. Extract(active)' = Extract(active)
      BY <1>1, <3>1, <3>3, <3>4 DEF Extract
    <3> QED
      BY <1>1, <2>1, <3>5 DEF ReadsStay
  <2> QED
    BY <1>4, <2>3, <2>4, <2>5 DEF StageMove
<1> QED
  BY <1>3, <1>4

LEMMA ReadMoves ==
    ASSUME SInv, AttemptsInv, StagedOnce, [Next]_vars
    PROVE  \/ ReadMove
           \/ NoRead
           \/ ReadsStay /\ UNCHANGED <<source, clock>>
           \/ ReadsStay /\ \E k \in Keys : WritePayment(k)
<1> USE DEF SInv
<1>1. UNCHANGED <<source, clock>> \/ \E k \in Keys : WritePayment(k)
  <2>1. StagingMoves
    BY Moves
  <2> QED
    BY <2>1 DEF StagingMoves, StartAttempt, PutPart, FinishAttempt, AbortAttempt, ClearAll,
                stagingVars
<1>2. CASE OtherMove
  <2>1. UNCHANGED <<attempt, staged>>
    BY <1>2 DEF OtherMove
  <2>2. ASSUME UNCHANGED dagVars PROVE ReadsStay
    BY <2>1, <2>2 DEF dagVars, ReadsStay, Extract
  <2>3. ASSUME BetweenTasks PROVE ReadsStay
    <3>1. ~attempt["payments"].busy
      BY <2>3, ActiveRun, DatasetsAre DEF BetweenTasks, AllAreStaged, AttemptsInv, OneAttempt
    <3> QED
      BY <2>1, <3>1 DEF ReadsStay, Extract
  <2>4. ReadsStay
    BY <1>2, <2>2, <2>3 DEF OtherMove
  <2> QED
    BY <1>1, <2>4
<1>3. ASSUME NEW d \in Datasets, StageMove(d)
      PROVE  (ReadMove \/ ReadsStay) /\ UNCHANGED <<source, clock>>
  <2>1. UNCHANGED <<source, clock>>
    BY <1>3 DEF StageMove, StartAttempt, PutPart, FinishAttempt
  <2> QED
    BY <1>3, <2>1, StageMoveReads
<1> QED
  BY <1>2, <1>3, EarlyEndReads, StagedOnceMoves

LEMMA FactSteps ==
    ASSUME [Next]_vars
    PROVE  BuildFact \/ BuildReport \/ UNCHANGED dbtVars
  BY DEF Next, vars, dbtVars, Operator, TriggerRun, ClearFailed, ClearAll, Tasked, Stage,
         FailStaging, AllStaged, RegisterRuns, LoadRaw, ValidateSnapshotLoad, TaskDone,
         RefuseSnapshot, DbtTest, FailTask, Around, LoadByHand

\* A change of the source has a version of its own.
LEMMA WriteAdvances ==
    ASSUME StagingInv, NEW k \in Keys, WritePayment(k),
           NEW old \in SUBSET Known, UpToClock(old), Advances(old, source["payments"])
    PROVE  Advances(old, source'["payments"])
<1>1. clock' = clock + 1 /\ clock \in Int
  BY DEF WritePayment, StagingInv
<1>2. \A y \in source'["payments"] : y \in source["payments"] \/ y = <<k, clock'>>
  BY DatasetsAre DEF WritePayment, StagingInv
<1>3. \A x \in old : x[2] \in Int /\ x[2] <= clock
  BY DEF Known, UpToClock
<1> QED
  BY <1>1, <1>2, <1>3 DEF Advances

LEMMA WriteKeeps ==
    ASSUME StagingInv, NEW k \in Keys, WritePayment(k),
           Single(source["payments"]), UpToClock(source["payments"])
    PROVE  Single(source'["payments"]) /\ UpToClock(source["payments"])'
<1>1. clock' = clock + 1 /\ clock \in Int
  BY DEF WritePayment, StagingInv
<1>2. \A y \in source'["payments"] :
        (y \in source["payments"] /\ y[1] # k) \/ y = <<k, clock'>>
  BY DatasetsAre DEF WritePayment, StagingInv
<1>3. \A x \in source["payments"] : x[2] \in Int /\ x[2] <= clock
  BY DatasetsAre DEF StagingInv, Known, UpToClock
<1>4. Single(source'["payments"])
  BY <1>2 DEF Single
<1>5. \A y \in source'["payments"] : y[2] <= clock'
  BY <1>1, <1>2, <1>3
<1> QED
  BY <1>4, <1>5 DEF UpToClock

LEMMA ExtractsKnown ==
    ASSUME StagingInv, NEW r \in Runs
    PROVE  Extract(r) \subseteq Known
<1>1. attempt["payments"] \in AttemptType
  BY DatasetsAre, Zenon DEF StagingInv, AttemptType
<1>2. attempt["payments"].left \subseteq Known /\ attempt["payments"].rows \subseteq Known
  BY <1>1, Zenon DEF AttemptType
<1>3. staged["payments"][r].rows \subseteq Known
  <2>1. staged["payments"][r] \in [parts : Nat, rows : SUBSET Known]
    BY DatasetsAre DEF StagingInv
  <2> QED
    BY <2>1, Zenon
<1> QED
  BY <1>2, <1>3 DEF Extract

LEMMA SingleAdvances ==
    ASSUME NEW R \in SUBSET Known, Single(R)
    PROVE  Advances(R, R)
<1>1. \A x \in R : x[2] \in Int
  BY DEF Known
<1> QED
  BY <1>1 DEF Single, Advances

LEMMA ReadsStep ==
    ASSUME SInv, AttemptsInv, LoadedInv, OrderInv, InOrder, ReadsInv, RawInv, StagedOnce,
           [Next]_vars
    PROVE  ReadsInv'
<1> USE DEF SInv
<1> DEFINE now == source'["payments"]
           Older(rows) == (\A row \in rows : row[2] <= clock') /\ Advances(rows, now)
<1>1. /\ source["payments"] \subseteq Known /\ fact \subseteq Known /\ clock \in Int
      /\ \A r \in Runs : Extract(r) \subseteq Known
  BY DatasetsAre, ExtractsKnown DEF StagingInv, ServedInv
<1>2. \/ ReadMove
      \/ NoRead
      \/ ReadsStay /\ UNCHANGED <<source, clock>>
      \/ ReadsStay /\ \E k \in Keys : WritePayment(k)
  BY ReadMoves
<1>3. Single(now) /\ \A row \in now : row[2] <= clock'
  <2>1. CASE UNCHANGED <<source, clock>>
    BY <2>1 DEF ReadsInv, UpToClock
  <2>2. ASSUME NEW k \in Keys, WritePayment(k)
        PROVE  Single(now) /\ \A row \in now : row[2] <= clock'
    BY <2>2, WriteKeeps DEF ReadsInv, UpToClock
  <2> QED
    BY <1>2, <2>1, <2>2 DEF ReadMove, NoRead
<1>4. ASSUME NEW old \in SUBSET Known, UpToClock(old), Advances(old, source["payments"])
      PROVE  Older(old)
  <2>1. CASE UNCHANGED <<source, clock>>
    BY <1>4, <2>1 DEF UpToClock
  <2>2. ASSUME NEW k \in Keys, WritePayment(k)
        PROVE  Older(old)
    <3>1. clock' = clock + 1 /\ \A x \in old : x[2] \in Int /\ x[2] <= clock
      BY <1>4, <2>2 DEF WritePayment, UpToClock, Known
    <3>2. \A x \in old : x[2] <= clock'
      BY <1>1, <3>1
    <3>3. Advances(old, now)
      BY <1>4, <2>2, WriteAdvances
    <3> QED
      BY <3>2, <3>3
  <2> QED
    BY <1>2, <2>1, <2>2 DEF ReadMove, NoRead
<1>5. now \subseteq Known /\ Older(now)
  <2>1. StagingMoves
    BY Moves
  <2>2. now \subseteq Known
    BY <2>1, StagingStep, DatasetsAre DEF StagingInv
  <2> QED
    BY <1>3, <2>2, SingleAdvances
<1>10. Single({}) /\ Older({})
  BY DEF Single, Advances
<1> HIDE DEF Older
<1>6. ASSUME NEW r \in Runs
      PROVE  \E rows : Extract(r)' = rows /\ Single(rows) /\ Older(rows)
  <2>1. Single(Extract(r)) /\ Older(Extract(r))
    BY <1>1, <1>4 DEF ReadsInv
  <2>2. CASE Extract(r)' = Extract(r)
    BY <2>1, <2>2
  <2>3. CASE ReadMove /\ r = active
    <3>1. Extract(r)' = now
      BY <2>3 DEF ReadMove
    <3> QED
      BY <1>3, <1>5, <3>1
  <2>4. CASE NoRead /\ r = active
    <3>1. Extract(r)' = {}
      BY <2>4 DEF NoRead
    <3> QED
      BY <1>10, <3>1
  <2> QED
    BY <1>2, <2>2, <2>3, <2>4 DEF ReadMove, NoRead, ReadsStay
<1>7. CASE BuildFact
  <2>1. /\ active > 0 /\ task[active] = "dbt_run" /\ fact' = StgPayments
        /\ UNCHANGED <<active, source, clock, attempt, staged>>
    BY <1>7 DEF BuildFact, At, NextStatement, stagingVars
  <2>2. PICK n \in NewestComplete : InOrder /\ Uncleared => n = active
    BY <2>1, NewestAtDbt
  <2>3. n \in Runs /\ fact' = Extract(n) /\ Extract(n)' = Extract(n)
    BY <2>1, StgIsExtract DEF Extract
  <2>4. Advances(fact', Extract(n)) /\ Older(fact')
    BY <1>1, <1>4, <2>3, SingleAdvances DEF ReadsInv
  <2>5. Uncleared' => n = active
    BY <2>2, UnclearedStep
  <2>6. ASSUME Uncleared' PROVE Advances(fact', Extract(active)')
    <3>1. Extract(active)' = Extract(active)
      BY <2>1 DEF Extract
    <3> QED
      BY <2>4, <2>5, <2>6, <3>1
  <2> QED
    BY <1>3, <1>6, <2>1, <2>4, <2>6 DEF ReadsInv, UpToClock, Older
<1>8. CASE UNCHANGED fact
  <2>1. Older(fact)
    BY <1>1, <1>4 DEF ReadsInv
  <2>2. ASSUME Uncleared', active' > 0 PROVE Advances(fact, Extract(active)')
    <3>1. CASE active' = active
      <4>1. active \in Runs /\ Advances(fact, Extract(active))
        BY <2>2, <3>1, ActiveRun, UnclearedStep DEF ReadsInv
      <4>2. CASE Extract(active)' = Extract(active)
        BY <4>1, <4>2
      <4>3. CASE ReadMove
        BY <4>3 DEF ReadMove, ReadsInv
      <4>4. CASE NoRead
        <5>1. Extract(active)' = {}
          BY <3>1, <4>1, <4>4 DEF NoRead
        <5> QED
          BY <5>1 DEF Advances
      <4> QED
        BY <1>2, <3>1, <4>1, <4>2, <4>3, <4>4 DEF ReadsStay
    <3>2. ASSUME NEW r \in Runs, TriggerRun(r)
          PROVE  Extract(active)' = {}
      <4>1. /\ active = 0 /\ active' = r /\ task[r] = "none"
            /\ UNCHANGED <<attempt, staged>>
        BY <3>2 DEF TriggerRun, stagingVars
      <4>2. staged["payments"][r].rows = {} /\ ~attempt["payments"].busy
        BY <4>1, DatasetsAre DEF OrderInv, NotStaged, AttemptsInv
      <4> QED
        BY <4>1, <4>2 DEF Extract
    <3>3. (\E r \in Runs : TriggerRun(r)) \/ active' = active
      BY <2>2, UnclearedStep DEF ActiveMove, RunInv
    <3> QED
      BY <3>1, <3>2, <3>3 DEF Advances
  <2> QED
    BY <1>3, <1>6, <1>8, <2>1, <2>2 DEF ReadsInv, UpToClock, Older
<1> QED
  BY <1>7, <1>8, FactSteps DEF BuildReport, dbtVars

\* Who is past the building of the fact was so before, or has just built it.
LEMMA DbtStands ==
    ASSUME RunInv, StagedOnce, [Next]_vars, ~BuildFact, ~BuildReport,
           active' > 0, task'[active'] = "dbt_run", pos' > 1
    PROVE  UNCHANGED <<active, task, pos>>
<1> DEFINE Goal == UNCHANGED <<active, task, pos>>
<1>0. /\ task \in [Runs -> Tasks] /\ (active > 0 => active \in Runs) /\ pos \in 1 .. 3
      /\ active \in Nat /\ (active = 0 => pos = 1)
  BY ActiveRun DEF RunInv
<1>1. ~Fault("rerun")
  BY NoRestaging
<1>2. CASE Operator
  <2>1. PICK r \in Runs : TriggerRun(r) \/ ClearFailed(r)
    BY <1>1, <1>2 DEF Operator, ClearAll
  <2> QED
    BY <1>0, <2>1 DEF TriggerRun, ClearFailed
<1>3. ASSUME UNCHANGED dagVars PROVE Goal
  BY <1>3 DEF dagVars
<1>4. CASE Around
  BY <1>3, <1>4 DEF Around, LoadByHand
<1>5. ASSUME NEW d \in Datasets, Stage(d) \/ FailStaging(d) PROVE Goal
  <2>1. CASE Stage(d)
    BY <1>3, <2>1 DEF Stage
  <2>2. CASE FailStaging(d)
    BY <1>0, <2>2 DEF FailStaging, At
  <2> QED
    BY <1>5, <2>1, <2>2
<1>6. ASSUME active > 0, pos' = 1 PROVE Goal
  BY <1>0, <1>6
<1>7. ASSUME InTask("register_runs") \/ InTask("load_raw") \/ InTask("validate_snapshot_load"),
             NextStatement
      PROVE  Goal
  BY <1>0, <1>7 DEF InTask, NextStatement
<1>8. CASE AllStaged \/ RegisterRuns \/ LoadRaw \/ ValidateSnapshotLoad
  BY <1>6, <1>7, <1>8
     DEF AllStaged, RegisterRuns, LoadRaw, ValidateSnapshotLoad, TaskDone, At, GoTo
<1>9. CASE RefuseSnapshot
  BY <1>9 DEF RefuseSnapshot
<1>10. CASE DbtTest
  BY <1>0, <1>6, <1>10 DEF DbtTest, At, GoTo
<1>11. CASE FailTask
  BY <1>0, <1>11 DEF FailTask
<1> HIDE DEF Goal
<1> QED
  BY <1>2, <1>3, <1>4, <1>5, <1>8, <1>9, <1>10, <1>11 DEF Next, Tasked, vars, Goal

\* A run comes to dbt_test by building the report.
LEMMA TestsAfterReport ==
    ASSUME RunInv, [Next]_vars, NEW r \in Runs, task'[r] = "dbt_test", task[r] # "dbt_test"
    PROVE  BuildReport
<1>0. task \in [Runs -> Tasks]
  BY DEF RunInv
<1>1. task' # task
  OBVIOUS
<1>2. ASSUME NEW next, GoTo(next) PROVE next = "dbt_test"
  BY <1>0, <1>2 DEF GoTo
<1>3. CASE Operator
  BY <1>0, <1>1, <1>3 DEF Operator, TriggerRun, ClearFailed, ClearAll
<1>4. CASE Around
  BY <1>1, <1>4 DEF Around, LoadByHand, dagVars
<1>5. ASSUME NEW d \in Datasets, Stage(d) \/ FailStaging(d) PROVE FALSE
  BY <1>1, <1>5 DEF Stage, FailStaging, dagVars
<1>6. CASE AllStaged \/ RegisterRuns \/ LoadRaw \/ ValidateSnapshotLoad
  BY <1>1, <1>2, <1>6
     DEF AllStaged, RegisterRuns, LoadRaw, ValidateSnapshotLoad, TaskDone, NextStatement
<1>7. CASE RefuseSnapshot \/ BuildFact \/ FailTask
  BY <1>1, <1>7 DEF RefuseSnapshot, BuildFact, FailTask, NextStatement
<1>9. CASE DbtTest
  BY <1>1, <1>2, <1>9 DEF DbtTest, At
<1> QED
  BY <1>1, <1>3, <1>4, <1>5, <1>6, <1>7, <1>9 DEF Next, Tasked, vars, dagVars

\* The fact and the report stand until another run is the newest.
LEMMA PublishedStep ==
    ASSUME SInv, AttemptsInv, LoadedInv, PublishedInv, StagedOnce, [Next]_vars
    PROVE  PublishedInv'
<1> USE DEF SInv
<1>0. /\ task \in [Runs -> Tasks] /\ (active > 0 => active \in Runs) /\ pos \in 1 .. 3
      /\ NewestComplete \subseteq Runs
  BY ActiveRun, DatasetsAre DEF RunInv, LoadInv, NewestComplete, Completed
<1>1. CASE BuildFact
  <2>1. /\ fact' = StgPayments /\ UNCHANGED <<active, task, report>>
        /\ StgPayments' = StgPayments /\ NewestComplete' = NewestComplete
    BY <1>1 DEF BuildFact, NextStatement, loadVars, StgPayments, NewestComplete, Completed,
                Registered, LatestVersions
  <2> QED
    BY <2>1 DEF PublishedInv
<1>2. CASE BuildReport
  <2>1. /\ active > 0 /\ task[active] = "dbt_run" /\ pos = 2
        /\ report' = fact /\ fact' = fact
        /\ active' = active /\ task' = [task EXCEPT ![active] = "dbt_test"]
    BY <1>2 DEF BuildReport, At, GoTo
  <2>2. StgPayments' = StgPayments /\ NewestComplete' = NewestComplete
    BY <1>2 DEF BuildReport, loadVars, StgPayments, NewestComplete, Completed, Registered,
                LatestVersions
  <2>3. fact = StgPayments
    BY <2>1 DEF PublishedInv
  <2> QED
    BY <1>0, <2>1, <2>2, <2>3 DEF PublishedInv
<1>3. ASSUME ~BuildFact, ~BuildReport
      PROVE  PublishedInv'
  <2>1. fact' = fact /\ report' = report
    BY <1>3, FactSteps DEF dbtVars
  <2>2. ASSUME active' > 0, task'[active'] = "dbt_run", pos' > 1
        PROVE  fact' = StgPayments'
    <3>1. UNCHANGED <<active, task, pos>>
      BY <1>3, <2>2, DbtStands
    <3>2. StgPayments' = StgPayments
      BY <2>2, <3>1, ServesTheSame
    <3> QED
      BY <2>1, <2>2, <3>1, <3>2 DEF PublishedInv
  <2>3. ASSUME NEW r \in NewestComplete', task'[r] = "dbt_test"
        PROVE  fact' = StgPayments' /\ report' = fact'
    <3>1. ASSUME NewestComplete' = {active}, active \in Runs,
                 task[active] = "validate_snapshot_load"
          PROVE  FALSE
      BY <1>3, <2>3, <3>1, TestsAfterReport
    <3>2. NewestComplete' = NewestComplete /\ StgPayments' = StgPayments
      BY <3>1, ServesTheSame
    <3>3. r \in NewestComplete /\ task[r] = "dbt_test"
      BY <1>0, <1>3, <2>3, <3>2, TestsAfterReport
    <3> QED
      BY <2>1, <3>2, <3>3 DEF PublishedInv
  <2> QED
    BY <2>2, <2>3 DEF PublishedInv
<1> QED
  BY <1>1, <1>2, <1>3

LEMMA InitPubInv ==
    ASSUME Init
    PROVE  PubInv
<1>1. /\ source["payments"] = Keys \X {1} /\ clock = 1 /\ ~attempt["payments"].busy
      /\ \A r \in Runs : staged["payments"][r] = NotStaged /\ raw["payments"][r] = {}
      /\ \A r \in Runs : task[r] = "none"
      /\ completedAt["payments"] = <<>>
      /\ active = 0 /\ fact = {} /\ pos = 1
  BY DatasetsAre DEF Init, StagingInit, LoadInit, NoAttempt
<1>2. \A r \in Runs : Extract(r) = {}
  BY <1>1 DEF Extract, NotStaged
<1>3. Completed("payments") = {}
  BY <1>1 DEF Completed, Registered
<1>4. OrderInv
  BY <1>1, <1>3 DEF OrderInv, IsDone
<1>5. ReadsInv
  BY <1>1, <1>2 DEF ReadsInv, Single, UpToClock, Advances
<1>6. NewestComplete = {}
  BY <1>3 DEF NewestComplete
<1>7. RawInv /\ PublishedInv /\ InOrder
  BY <1>1, <1>3, <1>6 DEF RawInv, PublishedInv, InOrder
<1> QED
  BY <1>4, <1>5, <1>7 DEF PubInv

OnceInv == SInv /\ AttemptsInv /\ LoadedInv /\ PubInv

LEMMA PublicationInvariant ==
    ASSUME StagedOnce
    PROVE  Spec => []OnceInv
<1>1. Init => OnceInv
  BY InitSInv, InitOnce, InitPubInv DEF OnceInv
<1>2. OnceInv /\ [Next]_vars => OnceInv'
  <2>1. SUFFICES ASSUME OnceInv, [Next]_vars PROVE OnceInv'
    OBVIOUS
  <2>2. (SInv /\ AttemptsInv /\ LoadedInv)'
    BY <2>1, NextSInv, AttemptsStep, LoadedStep DEF OnceInv, SInv
  <2>3. PubInv'
    BY <2>1, OrderStep, ReadsStep, RawStep, PublishedStep DEF OnceInv, PubInv
  <2> QED
    BY <2>2, <2>3 DEF OnceInv
<1> QED
  BY <1>1, <1>2, PTL DEF Spec

LEMMA SuccessAfterTests ==
    ASSUME RunInv, [Next]_vars, NEW r \in Runs, task'[r] = "success", task[r] # "success"
    PROVE  r = active /\ active > 0 /\ task[active] = "dbt_test"
<1>0. task \in [Runs -> Tasks]
  BY DEF RunInv
<1>1. task' # task
  OBVIOUS
<1>2. ASSUME NEW next, GoTo(next) PROVE next = "success" /\ r = active
  BY <1>0, <1>2 DEF GoTo
<1>3. CASE Operator
  BY <1>0, <1>1, <1>3 DEF Operator, TriggerRun, ClearFailed, ClearAll
<1>4. CASE Around
  BY <1>1, <1>4 DEF Around, LoadByHand, dagVars
<1>5. ASSUME NEW d \in Datasets, Stage(d) \/ FailStaging(d) PROVE FALSE
  BY <1>1, <1>5 DEF Stage, FailStaging, dagVars
<1>6. CASE AllStaged \/ RegisterRuns \/ LoadRaw \/ ValidateSnapshotLoad
  BY <1>1, <1>2, <1>6
     DEF AllStaged, RegisterRuns, LoadRaw, ValidateSnapshotLoad, TaskDone, NextStatement
<1>7. CASE RefuseSnapshot \/ BuildFact \/ FailTask
  BY <1>1, <1>7 DEF RefuseSnapshot, BuildFact, FailTask, NextStatement
<1>8. CASE BuildReport
  BY <1>2, <1>8 DEF BuildReport
<1>9. CASE DbtTest
  BY <1>1, <1>2, <1>9 DEF DbtTest, At
<1> QED
  BY <1>1, <1>3, <1>4, <1>5, <1>6, <1>7, <1>8, <1>9 DEF Next, Tasked, vars, dagVars

(***************************************************************************)
(* A run that succeeds, and is the newest complete one, leaves in the fact *)
(* and the report all it read from the source and nothing else, for runs   *)
(* that are staged once: whatever COPYs leave out, whoever issues them,    *)
(* and whatever fails, is retried, cleared or forgotten.                   *)
(***************************************************************************)
THEOREM SuccessIsPublished ==
    ASSUME StagedOnce
    PROVE  Spec => SuccessPublishesTheExtract
<1>1. ASSUME OnceInv, [Next]_vars, NEW r \in NewestComplete,
             task'[r] = "success", task[r] # "success"
      PROVE  fact = staged["payments"][r].rows /\ report = fact
  <2>1. r \in Runs /\ StgPayments = staged["payments"][r].rows
    BY <1>1, StgIsExtract DEF OnceInv, PubInv
  <2>2. task[r] = "dbt_test"
    BY <1>1, <2>1, SuccessAfterTests DEF OnceInv, SInv
  <2> QED
    BY <1>1, <2>1, <2>2 DEF OnceInv, PubInv, PublishedInv
<1>2. OnceInv /\ [Next]_vars =>
        [\A r \in NewestComplete : task'[r] = "success" /\ task[r] # "success" =>
           fact = staged["payments"][r].rows /\ report = fact]_vars
  BY <1>1
<1> QED
  BY <1>2, PublicationInvariant, PTL DEF Spec, SuccessPublishesTheExtract

-----------------------------------------------------------------------------
(***************************************************************************)
(* The fact and the report implement SnapshotReport.                       *)
(***************************************************************************)
Reads == [r \in Runs |-> Extract(r)]

Cleared == faults["clear"] > 0

LEMMA ReportInit ==
    ASSUME Init
    PROVE  Report!Init
<1>1. /\ source["payments"] = Keys \X {1} /\ ~attempt["payments"].busy
      /\ \A r \in Runs : staged["payments"][r] = NotStaged
      /\ fact = {} /\ report = {} /\ ~(faults["clear"] > 0)
  BY DatasetsAre DEF Init, StagingInit, NoAttempt, MaxFaults
<1>2. Reads = [r \in Runs |-> {}]
  BY <1>1 DEF Reads, Extract, NotStaged
<1> QED
  BY <1>1, <1>2 DEF Report!Init, Reads

\* Once a run has been cleared it has been.
LEMMA ClearedStep ==
    ASSUME OnceInv, [Next]_vars
    PROVE  \/ Cleared' = Cleared
           \/ Cleared' = TRUE /\ \E r \in Runs : ClearFailed(r)
<1>1. faults["clear"] \in Nat
  BY DEF OnceInv, SInv, RunInv, MaxFaults
<1> QED
  BY <1>1, ClearStep DEF Cleared, OnceInv, SInv

LEMMA ReportStep ==
    ASSUME OnceInv, StagedOnce, [Next]_vars
    PROVE  [Report!Next]_(Report!vars)
<1> USE DEF OnceInv, PubInv
<1>1. ReadsStay => Reads' = Reads
  BY DEF ReadsStay, Reads
<1>2. CASE BuildFact
  <2>1. /\ active > 0 /\ task[active] = "dbt_run" /\ fact' = StgPayments
        /\ UNCHANGED <<active, source, attempt, staged, report, faults>>
    BY <1>2 DEF BuildFact, At, NextStatement, NoFault, stagingVars
  <2>2. PICK n \in NewestComplete : Uncleared => n = active
    BY <2>1, NewestAtDbt
  <2>3. /\ n \in Runs /\ Reads[n] # {} /\ fact' = Reads[n]
        /\ ~Cleared => Advances(fact, Reads[n])
    <3>1. n \in Runs /\ Extract(n) # {} /\ fact' = Extract(n)
      BY <2>1, StgIsExtract
    <3>2. ~Cleared => Uncleared
      BY DEF Cleared, Uncleared, SInv, RunInv, MaxFaults
    <3> QED
      BY <2>1, <2>2, <3>1, <3>2 DEF Reads, ReadsInv
  <2>4. Reads' = Reads /\ Cleared' = Cleared
    BY <2>1 DEF Reads, Extract, Cleared
  <2>5. ~Cleared => \A row \in Reads[n], old \in fact : row[1] = old[1] => row[2] >= old[2]
    <3>1. Reads[n] \subseteq Known /\ fact \subseteq Known
      BY <2>3, ExtractsKnown DEF Reads, SInv, ServedInv
    <3>2. \A row \in Known : row[2] \in Int
      BY DEF Known
    <3> QED
      BY <2>3, <3>1, <3>2 DEF Advances
  <2>6. Report!Publish(n)
    BY <2>1, <2>3, <2>4, <2>5 DEF Report!Publish, Report!Forward, Reads, Cleared
  <2> QED
    BY <2>3, <2>6 DEF Report!Next
<1>3. CASE BuildReport
  <2>1. /\ report' = fact /\ fact' = fact /\ active > 0 /\ task[active] = "dbt_run"
        /\ UNCHANGED <<source, active, attempt, staged, faults>>
    BY <1>3 DEF BuildReport, At, GoTo, NoFault, stagingVars
  <2>2. Reads' = Reads /\ Cleared' = Cleared
    BY <2>1 DEF Reads, Extract, Cleared
  <2>3. Report!Summarize
    BY <2>1, <2>2 DEF Report!Summarize, Reads, Cleared
  <2> QED
    BY <2>3 DEF Report!Next
<1>4. ASSUME NEW r \in Runs, ClearFailed(r)
      PROVE  [Report!Next]_(Report!vars)
  <2>1. UNCHANGED <<source, fact, report>> /\ active = 0 /\ UNCHANGED <<attempt, staged>>
    BY <1>4 DEF ClearFailed, stagingVars, dbtVars
  <2>2. ~attempt["payments"].busy
    BY <2>1, DatasetsAre DEF AttemptsInv
  <2>3. Reads' = Reads
    BY <2>1, <2>2 DEF Reads, Extract
  <2>4. CASE Cleared' = Cleared
    BY <2>1, <2>3, <2>4 DEF Report!vars, Reads, Cleared
  <2>5. CASE Cleared' = TRUE
    <3>1. Report!Clear
      BY <2>1, <2>3, <2>5 DEF Report!Clear, Reads, Cleared
    <3> QED
      BY <3>1 DEF Report!Next
  <2> QED
    BY <2>4, <2>5, ClearedStep
<1>5. ASSUME UNCHANGED dbtVars, \A r \in Runs : ~ClearFailed(r)
      PROVE  [Report!Next]_(Report!vars)
  <2>1. fact' = fact /\ report' = report /\ Cleared' = Cleared
    BY <1>5, ClearedStep DEF dbtVars
  <2>2. CASE ReadMove
    <3>1. /\ active \in Runs /\ UNCHANGED <<source, active>>
          /\ Extract(active)' = source["payments"]
          /\ \A r \in Runs : r # active => Extract(r)' = Extract(r)
      BY <2>2 DEF ReadMove
    <3>2. \A r \in Runs : Extract(r)' = IF r = active THEN source["payments"] ELSE Extract(r)
      BY <3>1
    <3>3. Reads' = [Reads EXCEPT ![active] = source["payments"]]
      BY <3>1, <3>2 DEF Reads
    <3>4. Report!ReadTable(active)
      BY <2>1, <3>1, <3>3 DEF Report!ReadTable, Reads, Cleared
    <3> QED
      BY <3>1, <3>4 DEF Report!Next
  <2>3. CASE NoRead
    <3>1. /\ active \in Runs /\ UNCHANGED source
          /\ \A r \in Runs : Extract(r)' = IF r = active THEN {} ELSE Extract(r)
      BY <2>3, Zenon DEF NoRead
    <3>2. Reads' = [Reads EXCEPT ![active] = {}]
      BY <3>1 DEF Reads
    <3>3. Report!Abandon(active)
      BY <2>1, <3>1, <3>2 DEF Report!Abandon, Reads, Cleared
    <3> QED
      BY <3>1, <3>3 DEF Report!Next
  <2>4. CASE ReadsStay
    <3>1. CASE source'["payments"] = source["payments"]
      BY <1>1, <2>1, <2>4, <3>1 DEF Report!vars, Reads, Cleared
    <3>2. CASE source'["payments"] # source["payments"]
      <4>1. Report!Change
        BY <1>1, <2>1, <2>4, <3>2 DEF Report!Change, Reads, Cleared
      <4> QED
        BY <4>1 DEF Report!Next
    <3> QED
      BY <3>1, <3>2
  <2> QED
    BY <2>2, <2>3, <2>4, ReadMoves
<1> QED
  BY <1>2, <1>3, <1>4, <1>5, FactSteps

(***************************************************************************)
(* The Snowflake branch implements SnapshotReport, for runs that are       *)
(* staged once: what is published is one whole state of the source, as     *)
(* some run read it, and not older than what it replaces unless a failed   *)
(* run has been cleared.                                                   *)
(***************************************************************************)
THEOREM WholeExtractsArePublished ==
    ASSUME StagedOnce
    PROVE  Spec => PublishesWholeExtracts
<1>1. OnceInv /\ [Next]_vars => [Report!Next]_(Report!vars)
  BY ReportStep
<1> QED
  BY <1>1, ReportInit, PublicationInvariant, PTL DEF Spec, PublishesWholeExtracts, Report!Spec
=============================================================================
