---------------------------- MODULE PipelineRun ----------------------------
(***************************************************************************)
(* The Airflow DAG payments_pipeline as the Spark jobs see it              *)
(* (airflow/dags/payments_pipeline.py): one run at a time                  *)
(* (max_active_runs=1) executes bronze_load, silver_transform and          *)
(* gold_transform in this order; a task that ends with an error is retried *)
(* from its start or, its retries exhausted, ends the run, and the next    *)
(* run starts again at bronze_load.  How many retries there are is left    *)
(* open: a failing task may be retried or given up.                        *)
(***************************************************************************)
EXTENDS Naturals

CONSTANT MaxCrashes   \* bound: how often a job dies between two of its steps

ASSUME MaxCrashesAssumption == MaxCrashes \in Nat

VARIABLES task,       \* the task the active run executes, "idle" when there is none
          pc,         \* the step of that task's job that comes next
          crashes     \* how many jobs have died so far

runVars == <<task, pc, crashes>>

Tasks == {"idle", "bronze_load", "silver_transform", "gold_transform"}

Steps == {"start", "plan", "append", "check",
          "dlq_null_op", "dlq_unexpected_op", "validate", "merge", "commit"}

RunTypeOK ==
    /\ task \in Tasks
    /\ pc \in Steps
    /\ crashes \in Nat

RunInit ==
    /\ task = "idle"
    /\ pc = "start"
    /\ crashes = 0

At(t, step) == task = t /\ pc = step

GoTo(step) ==
    /\ pc' = step
    /\ UNCHANGED <<task, crashes>>

\* The job's process ends without an error: the next task starts.
Succeed(next) ==
    /\ task' = next
    /\ pc' = "start"
    /\ UNCHANGED crashes

\* The job raises: Airflow retries the task, or the run fails.
Fail ==
    /\ task' \in {task, "idle"}
    /\ pc' = "start"
    /\ UNCHANGED crashes

\* schedule=None: somebody triggers a run; it queues while another is active.
TriggerRun ==
    /\ task = "idle"
    /\ task' = "bronze_load"
    /\ pc' = "start"
    /\ UNCHANGED crashes

\* The driver or its pod dies between two steps of the job.
Crash ==
    /\ task # "idle"
    /\ crashes < MaxCrashes
    /\ task' \in {task, "idle"}
    /\ pc' = "start"
    /\ crashes' = crashes + 1
=============================================================================
