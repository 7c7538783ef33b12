-------------------------- MODULE CatalogBootstrap --------------------------
(***************************************************************************)
(* The first two tasks of payments_pipeline: scripts/init_object_store.py  *)
(* creates the buckets and scripts/init_iceberg_catalog.py initialises the *)
(* REST catalog and registers the warehouse.  Several processes may run    *)
(* the scripts at once (a task, its retry after a lost heartbeat, a person *)
(* at a shell), each may die between two calls and be started again.       *)
(*                                                                         *)
(* The services are external: creating what exists is refused (409 or      *)
(* BucketAlreadyExists), the catalog refuses warehouses before it is       *)
(* bootstrapped or when their bucket is missing, and stores a new          *)
(* warehouse with remote signing on whatever the request says.             *)
(***************************************************************************)
EXTENDS Naturals

CONSTANTS Processes,    \* processes that run the scripts
          MaxDeaths,    \* bound: processes that die
          MaxRefusals   \* bound: bootstrap calls refused with 400 out of hand

ASSUME BootstrapAssumption == MaxDeaths \in Nat /\ MaxRefusals \in Nat

VARIABLES buckets,        \* buckets that exist
          bootstrapped,   \* the catalog server is initialised
          warehouse,      \* "none", "signing" or "plain" (remote signing off)
          pc,             \* per process, the call that comes next
          deaths, refusals

vars == <<buckets, bootstrapped, warehouse, pc, deaths, refusals>>

Buckets == {"warehouse", "checkpoints"}

Calls == {"make_warehouse", "make_checkpoints", "info", "bootstrap", "warehouse_exists",
          "create_warehouse", "warehouse_id", "disable_remote_signing"}

TypeOK ==
    /\ buckets \subseteq Buckets
    /\ bootstrapped \in BOOLEAN
    /\ warehouse \in {"none", "signing", "plain"}
    /\ pc \in [Processes -> Calls \union {"idle", "finished"}]
    /\ deaths \in Nat /\ refusals \in Nat

Init ==
    /\ buckets = {}
    /\ bootstrapped = FALSE
    /\ warehouse = "none"
    /\ pc = [p \in Processes |-> "idle"]
    /\ deaths = 0 /\ refusals = 0

GoTo(p, call) == pc' = [pc EXCEPT ![p] = call]

NoDeath == UNCHANGED <<deaths, refusals>>

Services == <<buckets, bootstrapped, warehouse>>

\* The two tasks begin, for the first time or again.
Start(p) ==
    /\ pc[p] \in {"idle", "finished"}
    /\ GoTo(p, "make_warehouse")
    /\ NoDeath /\ UNCHANGED Services

\* "Already there" is success: the answer makes no difference.
MakeBucket(p, call, bucket, next) ==
    /\ pc[p] = call
    /\ buckets' = buckets \union {bucket}
    /\ GoTo(p, next)
    /\ NoDeath /\ UNCHANGED <<bootstrapped, warehouse>>

MakeBuckets(p) ==
    \/ MakeBucket(p, "make_warehouse", "warehouse", "make_checkpoints")
    \/ MakeBucket(p, "make_checkpoints", "checkpoints", "info")

ReadInfo(p) ==
    /\ pc[p] = "info"
    /\ GoTo(p, IF bootstrapped THEN "warehouse_exists" ELSE "bootstrap")
    /\ NoDeath /\ UNCHANGED Services

\* 400 and 409 pass for "somebody else did it", which a 400 need not mean.
Bootstrap(p) ==
    /\ pc[p] = "bootstrap"
    /\ GoTo(p, "warehouse_exists")
    /\ \/ bootstrapped' = TRUE /\ UNCHANGED refusals
       \/ /\ refusals < MaxRefusals /\ refusals' = refusals + 1
          /\ UNCHANGED bootstrapped
    /\ UNCHANGED <<buckets, warehouse, deaths>>

\* Mutant: a warehouse that exists is taken to be set up.
MutantWarehouseExists(p) ==
    /\ pc[p] = "warehouse_exists"
    /\ GoTo(p, IF warehouse = "none" THEN "create_warehouse" ELSE "finished")
    /\ NoDeath /\ UNCHANGED Services

WarehouseExists(p) ==
    /\ pc[p] = "warehouse_exists"
    /\ GoTo(p, IF warehouse = "none" THEN "create_warehouse" ELSE "warehouse_id")
    /\ NoDeath /\ UNCHANGED Services

\* Created, or 409; any other refusal raises and the task ends.
CreateWarehouse(p) ==
    /\ pc[p] = "create_warehouse"
    /\ IF warehouse = "none" /\ ~(bootstrapped /\ "warehouse" \in buckets)
       THEN GoTo(p, "idle") /\ UNCHANGED warehouse
       ELSE /\ GoTo(p, "warehouse_id")
            /\ warehouse' = IF warehouse = "none" THEN "signing" ELSE warehouse
    /\ NoDeath /\ UNCHANGED <<buckets, bootstrapped>>

WarehouseId(p) ==
    /\ pc[p] = "warehouse_id"
    /\ GoTo(p, IF warehouse = "none" THEN "idle" ELSE "disable_remote_signing")
    /\ NoDeath /\ UNCHANGED Services

DisableRemoteSigning(p) ==
    /\ pc[p] = "disable_remote_signing"
    /\ warehouse' = "plain"
    /\ GoTo(p, "finished")
    /\ NoDeath /\ UNCHANGED <<buckets, bootstrapped>>

\* The process dies or a call times out; the task may be started again.
Die(p) ==
    /\ pc[p] \in Calls
    /\ deaths < MaxDeaths /\ deaths' = deaths + 1
    /\ GoTo(p, "idle")
    /\ UNCHANGED <<Services, refusals>>

Step(p) ==
    \/ MakeBuckets(p) \/ ReadInfo(p) \/ Bootstrap(p) \/ WarehouseExists(p)
    \/ CreateWarehouse(p) \/ WarehouseId(p) \/ DisableRemoteSigning(p)

Next == \E p \in Processes : Start(p) \/ Step(p) \/ Die(p)

Spec == Init /\ [][Next]_vars

\* Airflow retries a task that did not finish, and a call that is made ends.
FairSpec == Spec /\ \A p \in Processes :
                      WF_vars(Step(p)) /\ WF_vars(pc[p] = "idle" /\ Start(p))

(***************************************************************************)
(* Properties.                                                             *)
(***************************************************************************)
Ready == buckets = Buckets /\ bootstrapped /\ warehouse = "plain"

\* When any process has come to the end of the scripts the platform is ready
\* for the Spark jobs: both buckets, a bootstrapped catalog and a warehouse
\* without remote signing, whoever created it and whoever died in between.
\* In particular no later or concurrent run turns signing on again.
FinishedMeansReady == \A p \in Processes : pc[p] = "finished" => Ready

\* The platform becomes ready and stays so.
EventuallyReady == <>[]Ready
=============================================================================
