----------------------- MODULE CatalogBootstrapProofs -----------------------
(***************************************************************************)
(* Any number of processes that run the bootstrap scripts, dying and       *)
(* starting again, leave the platform ready whenever one has finished.     *)
(* The invariant says what each call of the scripts finds when it is made: *)
(* every earlier call has left something that nobody takes away again.     *)
(***************************************************************************)
EXTENDS CatalogBootstrap, TLAPS

\* Calls that come after the buckets, and after the warehouse was seen.
AfterBuckets == {"info", "bootstrap", "warehouse_exists", "create_warehouse", "warehouse_id",
                 "disable_remote_signing", "finished"}

AfterWarehouse == {"disable_remote_signing", "finished"}

\* A warehouse is there only in a bootstrapped catalog and over its bucket,
\* and the one call that turns signing off is the last a process makes.
BInv ==
    /\ pc \in [Processes -> Calls \union {"idle", "finished"}]
    /\ warehouse \in {"none", "signing", "plain"}
    /\ buckets \subseteq Buckets
    /\ warehouse # "none" => bootstrapped = TRUE /\ "warehouse" \in buckets
    /\ \A p \in Processes :
         /\ pc[p] = "make_checkpoints" => "warehouse" \in buckets
         /\ pc[p] \in AfterBuckets => Buckets \subseteq buckets
         /\ pc[p] \in AfterWarehouse => warehouse # "none"
         /\ pc[p] = "finished" => warehouse = "plain"

LEMMA BInvInit == Init => BInv
BY DEF Init, BInv, Calls, Buckets, AfterBuckets, AfterWarehouse

\* Each call keeps the invariant.
LEMMA BInvStep == BInv /\ [Next]_vars => BInv'
<1> SUFFICES ASSUME BInv, [Next]_vars PROVE BInv'
  OBVIOUS
<1> USE DEF BInv, Calls, Buckets, AfterBuckets, AfterWarehouse, GoTo, NoDeath, Services
<1>1. ASSUME NEW p \in Processes, Start(p) PROVE BInv'
  BY <1>1 DEF Start
<1>2. ASSUME NEW p \in Processes, MakeBuckets(p) PROVE BInv'
  BY <1>2 DEF MakeBuckets, MakeBucket
<1>3. ASSUME NEW p \in Processes, ReadInfo(p) PROVE BInv'
  BY <1>3 DEF ReadInfo
<1>4. ASSUME NEW p \in Processes, Bootstrap(p) PROVE BInv'
  BY <1>4 DEF Bootstrap
<1>5. ASSUME NEW p \in Processes, WarehouseExists(p) PROVE BInv'
  BY <1>5 DEF WarehouseExists
<1>6. ASSUME NEW p \in Processes, CreateWarehouse(p) PROVE BInv'
  BY <1>6 DEF CreateWarehouse
<1>7. ASSUME NEW p \in Processes, WarehouseId(p) PROVE BInv'
  BY <1>7 DEF WarehouseId
<1>8. ASSUME NEW p \in Processes, DisableRemoteSigning(p) PROVE BInv'
  BY <1>8 DEF DisableRemoteSigning
<1>9. ASSUME NEW p \in Processes, Die(p) PROVE BInv'
  BY <1>9 DEF Die
<1>10. CASE UNCHANGED vars
  BY <1>10 DEF vars
<1>11. QED
  BY <1>1, <1>2, <1>3, <1>4, <1>5, <1>6, <1>7, <1>8, <1>9, <1>10 DEF Next, Step

\* Whenever a process has come to the end of the scripts, the platform is
\* ready: for any number of processes, deaths and refused calls.
THEOREM BootstrapSound == Spec => []FinishedMeansReady
<1>1. BInv => FinishedMeansReady
  BY DEF BInv, FinishedMeansReady, Ready, AfterBuckets, AfterWarehouse
<1>2. QED
  BY <1>1, BInvInit, BInvStep, PTL DEF Spec
=============================================================================
