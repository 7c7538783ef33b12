----------------------------- MODULE TrinoTasks -----------------------------
(***************************************************************************)
(* The last three tasks of payments_pipeline, publish_trino_tables,        *)
(* validate_trino and maintain_iceberg, with the statement loop they share *)
(* (scripts/trino_http.py): POST the statement, then follow nextUri until  *)
(* it is gone, collecting rows; a query that failed says so in a page with *)
(* HTTP status 200.  The coordinator is external: it spreads rows over     *)
(* pages and may fail the query with any of them, and the connection may   *)
(* break, before or after the statement took effect.                       *)
(***************************************************************************)
EXTENDS Naturals, Sequences, SequencesExt

CONSTANTS MaxPages,   \* bound: pages of an answer
          MaxFails,   \* bound: queries and connections that fail
          MaxByHand   \* bound: silver jobs run by hand

ASSUME TrinoAssumption ==
    MaxPages \in Nat \ {0} /\ MaxFails \in Nat /\ MaxByHand \in Nat

VARIABLES silver,   \* version of silver, 0 when the table is missing
          gold,     \* version of silver that gold was computed from, 0: missing
          task,     \* the task of the run
          tries,    \* attempts of that task that have failed
          done,     \* statements the coordinator has carried out for this attempt
          sent,     \* statements this attempt has sent
          query,    \* the answer to the last one: its state and pages so far
          client,   \* run_statement: its state and the pages it has kept
          fails

vars == <<silver, gold, task, tries, done, sent, query, client, fails>>

\* The statements of maintain_iceberg: for each of MANAGED_TABLES in turn.
Maintenance ==
    LET Of(table) == <<<<"optimize", table>>, <<"expire_snapshots", table>>,
                       <<"remove_orphan_files", table>>>>
    IN  Of("bronze") \o Of("silver") \o Of("gold")

Statements == [publish_trino_tables |-> <<<<"show_tables", "bronze">>>>,
               validate_trino |-> <<<<"count", "silver">>, <<"count", "gold">>, <<"sum", "gold">>>>,
               maintain_iceberg |-> Maintenance]

NextTask == [publish_trino_tables |-> "validate_trino", validate_trino |-> "maintain_iceberg",
             maintain_iceberg |-> "success"]

Retries == [publish_trino_tables |-> 3, validate_trino |-> 3, maintain_iceberg |-> 1]

Running == task \in DOMAIN Statements

TypeOK ==
    /\ silver \in Nat /\ gold \in Nat
    /\ task \in DOMAIN Statements \union {"success", "failed"}
    /\ tries \in 0 .. 3
    /\ sent \in 0 .. 9
    /\ done = <<>> \/ (Running /\ IsPrefix(done, Statements[task]))
    /\ query \in [state : {"none", "running", "finished", "failed"}, pages : 0 .. MaxPages]
    /\ client \in [state : {"ready", "polling", "returned", "raised"}, pages : 0 .. MaxPages]
    /\ fails \in Nat

\* The Spark tasks have succeeded; Trino may still not see their tables.
Init ==
    /\ silver \in {0, 1} /\ gold \in {0, silver}
    /\ task = "publish_trino_tables"
    /\ tries = 0 /\ sent = 0 /\ done = <<>>
    /\ query = [state |-> "none", pages |-> 0]
    /\ client = [state |-> "ready", pages |-> 0]
    /\ fails = 0

Missing(table) == [bronze |-> FALSE, silver |-> silver = 0, gold |-> gold = 0][table]

(***************************************************************************)
(* run_statement and its coordinator.                                      *)
(***************************************************************************)
\* One page of the answer: the last one, one with a nextUri, or a failure.
Page(statement) ==
    \/ /\ ~Missing(statement[2])
       /\ query' = [state |-> "finished", pages |-> query.pages + 1]
       /\ done' = Append(done, statement)
       /\ UNCHANGED fails
    \/ /\ query.pages + 1 < MaxPages
       /\ query' = [state |-> "running", pages |-> query.pages + 1]
       /\ UNCHANGED <<done, fails>>
    \/ /\ Missing(statement[2]) \/ fails < MaxFails
       /\ query' = [state |-> "failed", pages |-> query.pages + 1]
       /\ fails' = IF Missing(statement[2]) THEN fails ELSE fails + 1
       /\ UNCHANGED done

\* Mutant: the error is looked for in the first page only.
MutantKeepPage ==
    client' = [state |-> CASE query'.state = "running" -> "polling"
                           [] query'.state = "failed" /\ client.state = "ready" -> "raised"
                           [] OTHER -> "returned",
               pages |-> client.pages + 1]

\* Mutant: the page that ends the loop is not added to the pages.
MutantDropLastPage ==
    client' = [state |-> CASE query'.state = "running" -> "polling"
                           [] query'.state = "failed" -> "raised"
                           [] OTHER -> "returned",
               pages |-> IF query'.state = "finished" /\ client.state = "polling"
                         THEN client.pages ELSE client.pages + 1]

\* raise_for_query_error; a page is kept and its nextUri followed.
Outcome == [running |-> "polling", failed |-> "raised", finished |-> "returned"]

KeepPage == client' = [state |-> Outcome[query'.state], pages |-> client.pages + 1]

Post ==
    /\ Running /\ client.state = "ready"
    /\ sent' = sent + 1
    /\ Page(Statements[task][sent'])
    /\ KeepPage
    /\ UNCHANGED <<silver, gold, task, tries>>

Poll ==
    /\ client.state = "polling"
    /\ Page(Statements[task][sent])
    /\ KeepPage
    /\ UNCHANGED <<silver, gold, task, tries, sent>>

ConnectionBreaks ==
    /\ client.state = "polling"
    /\ fails < MaxFails /\ fails' = fails + 1
    /\ done' \in {done} \union (IF Missing(Statements[task][sent][2]) THEN {}
                                ELSE {Append(done, Statements[task][sent])})
    /\ client' = [client EXCEPT !.state = "raised"]
    /\ UNCHANGED <<silver, gold, task, tries, sent, query>>

(***************************************************************************)
(* The tasks.                                                              *)
(***************************************************************************)
\* SHOW TABLES is compared with EXPECTED_TABLES; the rows of the validation
\* queries are not looked at.
RowsAccepted == task = "publish_trino_tables" => ~Missing("silver") /\ ~Missing("gold")

Fresh(state) == query' = [state |-> "none", pages |-> 0] /\ client' = [state |-> state, pages |-> 0]

NextStatement ==
    /\ client.state = "returned" /\ RowsAccepted
    /\ sent < Len(Statements[task])
    /\ Fresh("ready")
    /\ UNCHANGED <<silver, gold, task, tries, sent, done, fails>>

TaskSucceeds ==
    /\ client.state = "returned" /\ RowsAccepted
    /\ sent = Len(Statements[task])
    /\ Fresh("ready")
    /\ task' = NextTask[task]
    /\ tries' = 0 /\ sent' = 0 /\ done' = <<>>
    /\ UNCHANGED <<silver, gold, fails>>

\* Mutant: the attempts are counted from one too low.
MutantTaskFails ==
    /\ client.state = "raised" \/ (client.state = "returned" /\ ~RowsAccepted)
    /\ Fresh("ready")
    /\ IF tries <= Retries[task]
       THEN tries' = tries + 1 /\ UNCHANGED task
       ELSE tries' = 0 /\ task' = "failed"
    /\ sent' = 0 /\ done' = <<>>
    /\ UNCHANGED <<silver, gold, fails>>

\* The script ends with an error: Airflow starts it again or gives up.
TaskFails ==
    /\ client.state = "raised" \/ (client.state = "returned" /\ ~RowsAccepted)
    /\ Fresh("ready")
    /\ IF tries < Retries[task]
       THEN tries' = tries + 1 /\ UNCHANGED task
       ELSE tries' = 0 /\ task' = "failed"
    /\ sent' = 0 /\ done' = <<>>
    /\ UNCHANGED <<silver, gold, fails>>

\* The spark-silver job applied by hand while the run is on its way (the
\* recoveries of docs/architecture-lakehouse.md), gold to be rebuilt later.
SilverByHand ==
    /\ silver \in 1 .. MaxByHand /\ gold # 0
    /\ silver' = silver + 1
    /\ UNCHANGED <<gold, task, tries, done, sent, query, client, fails>>

Next ==
    \/ Post \/ Poll \/ ConnectionBreaks
    \/ NextStatement \/ TaskSucceeds \/ TaskFails
    \/ SilverByHand

Spec == Init /\ [][Next]_vars

(***************************************************************************)
(* Properties.                                                             *)
(***************************************************************************)
\* run_statement returns only for a query that finished, with the rows of
\* every page of its answer: failures arrive with HTTP 200, late and in the
\* body.
ReturnedMeansFinished ==
    client.state = "returned" => query.state = "finished" /\ client.pages = query.pages

\* A task succeeds only when each of its statements was carried out in this
\* attempt, in order: a table is never cleaned of orphans in a run in which
\* its snapshots could not be expired.
SucceedsMeansAllDone ==
    [][task' # task /\ task' # "failed" => done = Statements[task]]_vars

\* maintain_iceberg runs on data that has reconciled (comments at the end of
\* payments_pipeline.py and at the top of validate_trino.py).  Not checked by a
\* run: see README, Known disagreements.
MaintainsReconciledData == task = "maintain_iceberg" => gold = silver
=============================================================================
