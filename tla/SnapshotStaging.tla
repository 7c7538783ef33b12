--------------------------- MODULE SnapshotStaging ---------------------------
(***************************************************************************)
(* Staging of the Snowflake branch (snowflake_etl/src/stage_to_s3.py with  *)
(* extract_payments.py): an attempt reads a source with one SELECT and     *)
(* writes its rows, in order of the payment id, as numbered part objects   *)
(* under the prefix of its run.  A retry writes under the same prefix:     *)
(* it overwrites the parts it reaches and leaves the others as they are.   *)
(*                                                                         *)
(* A row is a pair <<key, version>>; versions are those of updated_at.     *)
(* The runs are those of one date: COPY reads the whole dt= partition.     *)
(* They are full ones: the DAG has no schedule, so a run has no interval.  *)
(***************************************************************************)
EXTENDS Integers, FiniteSets, Sequences

CONSTANTS Keys,        \* payment ids
          MaxRuns,     \* bound: number of DAG runs
          ChunkRows,   \* rows per part object
          MaxChanges   \* bound: changes of the payments table

ASSUME StagingAssumption ==
    /\ Keys \subseteq Nat /\ IsFiniteSet(Keys) /\ Keys # {}
    /\ MaxRuns \in Nat
    /\ ChunkRows \in Nat \ {0}
    /\ MaxChanges \in Nat

VARIABLES source,    \* rows of each source now
          clock,     \* version of the last change
          attempt,   \* staging attempt under way, per dataset
          files,     \* part objects in S3, per dataset and run
          staged     \* what the last successful attempt returned (XCom)

stagingVars == <<source, clock, attempt, files, staged>>

Datasets == {"fx_rates", "payments"}

Runs == 1 .. MaxRuns

Rows == Keys \X Nat

NoAttempt == [busy |-> FALSE, left |-> {}, parts |-> 0, rows |-> {}]

\* XCom of a staging task; parts = 0 when there is none.  The code keeps the
\* number of rows; which rows they are is for the properties.
NotStaged == [parts |-> 0, rows |-> {}]

StagingTypeOK ==
    /\ source \in [Datasets -> SUBSET Rows]
    /\ clock \in Nat
    /\ attempt \in [Datasets -> [busy : BOOLEAN, left : SUBSET Rows,
                                 parts : Nat, rows : SUBSET Rows]]
    /\ files \in [Datasets -> [Runs -> Seq(SUBSET Rows)]]
    /\ staged \in [Datasets -> [Runs -> [parts : Nat, rows : SUBSET Rows]]]

\* The published rates are not in question: they are one row that stays.
StagingInit ==
    /\ source = [d \in Datasets |->
                   IF d = "payments" THEN Keys \X {1}
                                     ELSE {<<CHOOSE k \in Keys : TRUE, 1>>}]
    /\ clock = 1
    /\ attempt = [d \in Datasets |-> NoAttempt]
    /\ files = [d \in Datasets |-> [r \in Runs |-> <<>>]]
    /\ staged = [d \in Datasets |-> [r \in Runs |-> NotStaged]]

(***************************************************************************)
(* The payments table: a payment is inserted, updated or deleted.          *)
(***************************************************************************)
WritePayment(k) ==
    /\ clock <= MaxChanges
    /\ clock' = clock + 1
    /\ LET others == {row \in source["payments"] : row[1] # k}
       IN  source' \in {[source EXCEPT !["payments"] = others \union {<<k, clock'>>}],
                        [source EXCEPT !["payments"] = others]}
    /\ UNCHANGED <<attempt, files, staged>>

\* The cursor's SELECT fixes what this attempt stages.
StartAttempt(d, r) ==
    /\ staged[d][r] = NotStaged
    /\ ~attempt[d].busy
    /\ attempt' = [attempt EXCEPT ![d] = [busy |-> TRUE, left |-> source[d],
                                          parts |-> 0, rows |-> {}]]
    /\ UNCHANGED <<source, clock, files, staged>>

\* Rows of the next part: the first ChunkRows of those left, in key order.
IsNextChunk(body, left) ==
    /\ body \subseteq left
    /\ \A row \in body, other \in left \ body : row[1] < other[1]
    /\ \/ Cardinality(body) = ChunkRows
       \/ Cardinality(body) < ChunkRows /\ body = left

PutObject(parts, n, body) ==
    IF n <= Len(parts) THEN [parts EXCEPT ![n] = body] ELSE Append(parts, body)

\* An empty extract still writes one part.
PutPart(d, r) ==
    LET a == attempt[d]
    IN  /\ a.busy
        /\ a.left # {} \/ a.parts = 0
        /\ \E body \in SUBSET a.left :
             /\ IsNextChunk(body, a.left)
             /\ files' = [files EXCEPT ![d][r] = PutObject(@, a.parts + 1, body)]
             /\ attempt' = [attempt EXCEPT ![d] = [busy |-> TRUE, left |-> a.left \ body,
                                                   parts |-> a.parts + 1,
                                                   rows |-> a.rows \union body]]
        /\ UNCHANGED <<source, clock, staged>>

FinishAttempt(d, r) ==
    LET a == attempt[d]
    IN  /\ a.busy /\ a.left = {} /\ a.parts > 0
        /\ staged' = [staged EXCEPT ![d][r] = [parts |-> a.parts, rows |-> a.rows]]
        /\ attempt' = [attempt EXCEPT ![d] = NoAttempt]
        /\ UNCHANGED <<source, clock, files>>

\* The worker dies, or the source or S3 fails, between two steps.
AbortAttempt(d) ==
    /\ attempt[d].busy
    /\ attempt' = [attempt EXCEPT ![d] = NoAttempt]
    /\ UNCHANGED <<source, clock, files, staged>>
=============================================================================
