---------------------------- MODULE SnapshotLoad ----------------------------
(***************************************************************************)
(* RAW and the control table SNAPSHOT_RUNS of the Snowflake branch         *)
(* (snowflake_etl/src/load_to_snowflake.py, models/staging/                *)
(* stg_payments.sql).  COPY INTO is external: it loads a part object it    *)
(* has not loaded with this content before, all of them in one             *)
(* transaction, and records files and rows in its history; it may load     *)
(* fewer than there are, and name the others as skipped or not at all:     *)
(* that is what reconcile_snapshot is written for.  Every statement        *)
(* commits by itself.                                                      *)
(***************************************************************************)
EXTENDS SnapshotStaging

CONSTANTS MaxPartialCopies,   \* bound: COPYs that load only some files
          MaxForgotten        \* bound: runs that outlive the load history

ASSUME LoadAssumption == MaxPartialCopies \in Nat /\ MaxForgotten \in Nat

VARIABLES loaded,         \* <<part, content>> that COPY last loaded, per run
          raw,            \* rows in RAW, per dataset and run prefix
          history,        \* COPY_HISTORY of a run within the lookback window
          completedAt,    \* SNAPSHOT_RUNS: registered runs, 0 for NULL
          completions,    \* how many runs have been completed
          partialCopies, forgotten

loadVars == <<loaded, raw, history, completedAt, completions, partialCopies, forgotten>>

NoHistory == [files |-> 0, rows |-> 0, skipped |-> 0]

LoadTypeOK ==
    /\ loaded \in [Datasets -> [Runs -> SUBSET (Nat \X SUBSET Rows)]]
    /\ raw \in [Datasets -> [Runs -> SUBSET Rows]]
    /\ history \in [Datasets -> [Runs -> [files : Nat, rows : Nat, skipped : Nat]]]
    /\ completions \in Nat
    /\ \A d \in Datasets :
         /\ DOMAIN completedAt[d] \subseteq Runs
         /\ completedAt[d] \in [DOMAIN completedAt[d] -> 0 .. completions]
    /\ partialCopies \in Nat
    /\ forgotten \in Nat

LoadInit ==
    /\ loaded = [d \in Datasets |-> [r \in Runs |-> {}]]
    /\ raw = [d \in Datasets |-> [r \in Runs |-> {}]]
    /\ history = [d \in Datasets |-> [r \in Runs |-> NoHistory]]
    /\ completedAt = [d \in Datasets |-> <<>>]
    /\ completions = 0
    /\ partialCopies = 0
    /\ forgotten = 0

Registered(d) == DOMAIN completedAt[d]

Completed(d) == {r \in Registered(d) : completedAt[d][r] > 0}

\* The MERGE: a row that exists is updated, but for its completed_at.
Register(d, r) ==
    /\ completedAt' = [completedAt EXCEPT ![d] =
                         [s \in Registered(d) \union {r} |->
                            IF s \in Registered(d) THEN completedAt[d][s] ELSE 0]]
    /\ UNCHANGED <<loaded, raw, history, completions, partialCopies, forgotten>>

\* Files of the partition COPY has not loaded with the content they have.
Pending(d) ==
    {f \in UNION {{r} \X DOMAIN files[d][r] : r \in Runs} :
       <<f[2], files[d][f[1]][f[2]]>> \notin loaded[d][f[1]]}

\* parse_copy_result counts a skipped file with the files, without rows.
Load(d, got, skipped) ==
    LET parts(r) == {p \in DOMAIN files[d][r] : <<r, p>> \in got}
        named(r) == {p \in DOMAIN files[d][r] : <<r, p>> \in skipped}
        rows(r)  == UNION {{p} \X files[d][r][p] : p \in parts(r)}
    IN  /\ loaded' = [loaded EXCEPT ![d] = [r \in Runs |->
                        {l \in loaded[d][r] : l[1] \notin parts(r)}
                          \union {<<p, files[d][r][p]>> : p \in parts(r)}]]
        /\ raw' = [raw EXCEPT ![d] = [r \in Runs |->
                     raw[d][r] \union {pair[2] : pair \in rows(r)}]]
        /\ history' = [history EXCEPT ![d] = [r \in Runs |->
                         [files   |-> history[d][r].files + Cardinality(parts(r))
                                        + Cardinality(named(r)),
                          rows    |-> history[d][r].rows + Cardinality(rows(r)),
                          skipped |-> history[d][r].skipped + Cardinality(named(r))]]]
        /\ UNCHANGED <<completedAt, completions, forgotten>>

\* COPY INTO of the partition, whoever issues it.
Copy(d) ==
    \/ /\ Load(d, Pending(d), {})
       /\ UNCHANGED partialCopies
    \/ /\ partialCopies < MaxPartialCopies
       /\ partialCopies' = partialCopies + 1
       /\ \E got \in SUBSET Pending(d) \ {Pending(d)} :
            \E skipped \in {{}, Pending(d) \ got} : Load(d, got, skipped)

\* Seven days pass: the run's loads leave the window that is looked at.
ForgetHistory(d, r) ==
    /\ history[d][r] # NoHistory
    /\ forgotten < MaxForgotten
    /\ forgotten' = forgotten + 1
    /\ history' = [history EXCEPT ![d][r] = NoHistory]
    /\ UNCHANGED <<loaded, raw, completedAt, completions, partialCopies>>

\* Mutant: the history knows the run, whatever it says of its numbers.
MutantReconciles(expected, outcome) ==
    outcome.files > 0 /\ expected.rows # {}

\* Mutant: a file that COPY skipped is a file of the load, whatever its rows.
MutantSkippedCounts(expected, outcome) ==
    /\ expected.parts > 0 => outcome.files > 0
    /\ outcome.files >= expected.parts
    /\ expected.rows # {}

\* Mutant: zero rows are what the source has.
MutantEmptyAllowed(expected, outcome) ==
    /\ outcome.skipped = 0
    /\ outcome.files >= expected.parts
    /\ outcome.rows >= Cardinality(expected.rows)

\* reconcile_snapshot does not raise, for a full snapshot.
Reconciles(expected, outcome) ==
    /\ outcome.skipped = 0
    /\ expected.parts > 0 => outcome.files > 0
    /\ outcome.files >= expected.parts
    /\ outcome.rows >= Cardinality(expected.rows)
    /\ expected.rows # {}

\* Mutant: a run that is complete is completed once more.
MutantComplete(d, r) ==
    /\ completedAt' = [completedAt EXCEPT ![d][r] = completions + 1]
    /\ UNCHANGED <<loaded, raw, history, completions, partialCopies, forgotten>>

\* UPDATE ... WHERE completed_at IS NULL
Complete(d, r) ==
    /\ IF r \in Registered(d) \ Completed(d)
       THEN /\ completions' = completions + 1
            /\ completedAt' = [completedAt EXCEPT ![d][r] = completions']
       ELSE UNCHANGED <<completions, completedAt>>
    /\ UNCHANGED <<loaded, raw, history, partialCopies, forgotten>>

(***************************************************************************)
(* stg_payments: the rows of the newest complete run, the latest version   *)
(* of each payment.                                                        *)
(***************************************************************************)
\* Mutant: the row_number() window without PARTITION BY payment_id.
MutantLatestVersions(rows) ==
    {row \in rows : \A other \in rows : other[2] <= row[2]}

LatestVersions(rows) ==
    {row \in rows : \A other \in rows : other[1] = row[1] => other[2] <= row[2]}

\* Mutant: the newest run that was registered, complete or not.
MutantNewestRegistered ==
    {r \in Registered("payments") :
       \A s \in Registered("payments") : s <= r}

NewestComplete ==
    {r \in Completed("payments") :
       \A s \in Completed("payments") : completedAt["payments"][s] <= completedAt["payments"][r]}

StgPayments == LatestVersions(UNION {raw["payments"][r] : r \in NewestComplete})
=============================================================================
