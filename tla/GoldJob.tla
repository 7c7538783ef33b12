------------------------------ MODULE GoldJob ------------------------------
(***************************************************************************)
(* config/spark/jobs/gold_metrics.py: INSERT OVERWRITE recomputes          *)
(* gold_payments_hourly from silver, as one commit of the whole table.     *)
(*                                                                         *)
(* A gold group is an hour, country and method.  Its measures (count,      *)
(* volumes, authorisation rate) are functions of the payments it is        *)
(* computed from, which is what the model keeps: gold[g] is the set of     *)
(* payments, with their columns, counted in group g.  A group no payment   *)
(* falls in has no row.                                                    *)
(***************************************************************************)
EXTENDS SilverJob

CONSTANTS Groups,
          GroupOf   \* GroupOf[r]: the group of a payment with the columns r

ASSUME GroupOfAssumption == GroupOf \in [Rows -> Groups]

VARIABLES gold,
          auxReported   \* history: auxMerged when gold was last computed

goldVars == <<gold, auxReported>>

Aggregate(table) ==
    [g \in Groups |->
        {<<k, table[k].row>> :
            k \in {j \in DOMAIN table : table[j] # Absent /\ GroupOf[table[j].row] = g}}]

GoldTypeOK ==
    /\ gold \in [Groups -> SUBSET (Keys \X Rows)]
    /\ auxReported \in 0..Len(bronze)

GoldInit ==
    /\ gold = [g \in Groups |-> {}]
    /\ auxReported = 0

\* Mutant: spark.sql.sources.partitionOverwriteMode=dynamic, which replaces only the
\* partitions that the query returns.
MutantDynamicOverwrite ==
    /\ At("gold_transform", "start")
    /\ gold' = [g \in Groups |-> IF Aggregate(silver)[g] = {} THEN gold[g] ELSE Aggregate(silver)[g]]
    /\ auxReported' = auxMerged
    /\ Succeed("idle")

GoldOverwrite ==
    /\ At("gold_transform", "start")
    /\ gold' = Aggregate(silver)
    /\ auxReported' = auxMerged
    /\ Succeed("idle")
=============================================================================
