---------------------- MODULE PaymentsLakehouseProofs ----------------------
(***************************************************************************)
(* Theorems about PaymentsLakehouse, for every set of payments, rows and   *)
(* groups and every value of the bounds: the state keeps its type, and     *)
(* silver holds the newest change merged of each payment.                  *)
(*                                                                         *)
(* The source, the topic and bronze only grow (HistoryGrows), so what a    *)
(* position of bronze says never changes (EventsStable) and only the two   *)
(* steps that move auxMerged can disturb what is claimed of silver.        *)
(***************************************************************************)
EXTENDS PaymentsLakehouse, NumberLemmas, SequenceTheorems

-----------------------------------------------------------------------------
(***************************************************************************)
(* What LatestPerKey and MergeRow guarantee, whatever the batch.           *)
(***************************************************************************)
EventType == [op : Ops, key : Keys, lsn : Nat, row : Rows \cup {Absent}, offset : Nat]

\* An upsert brings a row, a delete none.
WellFormed(e) == e \in EventType /\ (e.op = "d" <=> e.row = Absent)

-----------------------------------------------------------------------------
(***************************************************************************)
(* The window keeps a change of every payment in the batch, and no change  *)
(* in the batch has a higher LSN than the one it keeps.                    *)
(***************************************************************************)
LEMMA LatestIsHighest ==
    ASSUME NEW E, \A e \in E : WellFormed(e),
           NEW c \in LatestPerKey(E), NEW e \in E, e.key = c.key
    PROVE  e.lsn <= c.lsn
  BY DEF LatestPerKey, Precedes, WellFormed, EventType

LEMMA LatestExists ==
    ASSUME NEW E, \A e \in E : WellFormed(e),
           NEW n \in Nat, \A e \in E : e.offset <= n,
           NEW h \in E, \A e \in E : e.key = h.key => e.lsn <= h.lsn
    PROVE  \E c \in LatestPerKey(E) : c.key = h.key /\ c.lsn = h.lsn
<1> DEFINE T == {m \in 0..n : \E e \in E : e.key = h.key /\ e.lsn = h.lsn /\ e.offset = m}
<1>1. ASSUME NEW e \in E PROVE e.offset \in 0..n /\ e.lsn \in Nat
  BY DEF WellFormed, EventType
<1>2. T \subseteq 0..n /\ h.offset \in T
  BY <1>1
<1> HIDE DEF T
<1>3. PICK m \in T : \A x \in T : x <= m
  BY <1>2, BoundedMax
<1>4. PICK c \in E : c.key = h.key /\ c.lsn = h.lsn /\ c.offset = m
  BY <1>3 DEF T
<1>5. ASSUME NEW f \in E, c.key = f.key PROVE ~Precedes(c, f)
  <2>1. f.lsn <= c.lsn /\ f.lsn \in Nat /\ c.lsn \in Nat /\ f.offset \in 0..n /\ c.offset \in 0..n
    BY <1>1, <1>4, <1>5
  <2>2. f.lsn = c.lsn => f.offset \in T
    BY <1>1, <1>4, <1>5 DEF T
  <2>3. f.lsn = c.lsn => f.offset <= c.offset
    BY <1>3, <1>4, <2>2
  <2> QED
    BY <2>1, <2>3 DEF Precedes
<1> QED
  BY <1>4, <1>5 DEF LatestPerKey

LEMMA LatestOfEachKey ==
    ASSUME NEW E, \A e \in E : WellFormed(e),
           NEW n \in Nat, \A e \in E : e.offset <= n,
           NEW m \in Nat, \A e \in E : e.lsn <= m,
           NEW d \in E
    PROVE  \E c \in LatestPerKey(E) : c.key = d.key
<1> DEFINE T == {l \in 0..m : \E e \in E : e.key = d.key /\ e.lsn = l}
<1>1. ASSUME NEW e \in E PROVE e.lsn \in 0..m
  BY DEF WellFormed, EventType
<1>2. T \subseteq 0..m /\ d.lsn \in T
  BY <1>1
<1> HIDE DEF T
<1>3. PICK l \in T : \A x \in T : x <= l
  BY <1>2, BoundedMax
<1>4. PICK h \in E : h.key = d.key /\ h.lsn = l
  BY <1>3 DEF T
<1>5. ASSUME NEW e \in E, e.key = h.key PROVE e.lsn <= h.lsn
  <2>1. e.lsn \in T
    BY <1>1, <1>4, <1>5 DEF T
  <2> QED
    BY <1>3, <1>4, <2>1
<1> QED
  BY <1>4, <1>5, LatestExists

-----------------------------------------------------------------------------
(***************************************************************************)
(* What MERGE does to a payment, in one formula for each case.             *)
(***************************************************************************)
LEMMA MergeEffect ==
    ASSUME NEW table, NEW changes, NEW k \in DOMAIN table
    PROVE  \/ Merge(table, changes)[k] = table[k] /\ \A c \in changes : c.key # k
           \/ \E c \in changes : c.key = k /\ Merge(table, changes)[k] = MergeRow(table[k], c)
  BY DEF Merge

LEMMA MergeRowType ==
    ASSUME NEW t \in SilverRow \cup {Absent}, NEW s, WellFormed(s)
    PROVE  MergeRow(t, s) \in SilverRow \cup {Absent}
  BY DEF MergeRow, WellFormed, EventType, SilverRow, Ops, UpsertOps

LEMMA MergeType ==
    ASSUME NEW table \in [Keys -> SilverRow \cup {Absent}],
           NEW changes, \A c \in changes : WellFormed(c)
    PROVE  Merge(table, changes) \in [Keys -> SilverRow \cup {Absent}]
<1>1. \A k \in Keys : Merge(table, changes)[k] \in SilverRow \cup {Absent}
  BY MergeEffect, MergeRowType
<1>2. Merge(table, changes) = [k \in Keys |-> Merge(table, changes)[k]]
  BY DEF Merge
<1> HIDE DEF Merge
<1> QED
  BY <1>1, <1>2

\* Both guards: a row with the change's LSN or a higher one stays as it is.
LEMMA MergeOlder ==
    ASSUME NEW t, NEW s, t # Absent, s.lsn <= t.lsn
    PROVE  MergeRow(t, s) = t
  BY DEF MergeRow

\* Otherwise the change decides what there is.
LEMMA MergeNewer ==
    ASSUME NEW t \in SilverRow \cup {Absent}, NEW s, WellFormed(s),
           t = Absent \/ t.lsn < s.lsn
    PROVE  MergeRow(t, s) = IF s.op = "d" THEN Absent ELSE [lsn |-> s.lsn, row |-> s.row]
  BY DEF MergeRow, WellFormed, EventType, SilverRow, Ops, UpsertOps

(***************************************************************************)
(* Merging a change twice is merging it once, for a payment that is not    *)
(* deleted by it: the guard is a strict comparison.                        *)
(***************************************************************************)
LEMMA MergeRowIdempotent ==
    ASSUME NEW t \in SilverRow \cup {Absent}, NEW s, WellFormed(s)
    PROVE  MergeRow(MergeRow(t, s), s) = MergeRow(t, s)
<1>1. CASE s.op \in UpsertOps
  BY <1>1, AbsentAssumption DEF MergeRow, WellFormed, EventType, SilverRow, UpsertOps
<1>2. CASE s.op = "d"
  BY <1>2, AbsentAssumption DEF MergeRow, WellFormed, EventType, SilverRow, UpsertOps
<1> QED
  BY <1>1, <1>2 DEF WellFormed, EventType, Ops, UpsertOps

-----------------------------------------------------------------------------
(***************************************************************************)
(* The invariant.                                                          *)
(***************************************************************************)

\* An upsert of the source brings columns, a delete none.
WalOK == \A i \in DOMAIN wal : wal[i].op = "d" <=> wal[i].row = Absent

\* The topic names changes that were made.
TopicOK == \A o \in DOMAIN topic : topic[o].kind = "change" => topic[o].lsn \in DOMAIN wal

SourceOK == SourceTypeOK /\ WalOK /\ TopicOK

SilverOK == RunTypeOK /\ SilverTypeOK /\ BatchesLeaveNoGap

SilverClaims == RowsComeFromChanges /\ NewestUpsertStands /\ NewestDeleteStands

\* The inductive invariant: TypeOK, what is claimed and what that rests on.
IInv == SourceOK /\ BronzeTypeOK /\ SilverOK /\ GoldTypeOK /\ SilverClaims

Extends(s, t) == Len(s) <= Len(t) /\ \A i \in DOMAIN s : t[i] = s[i]

HistoryGrows ==
    /\ Extends(wal, wal')
    /\ Extends(topic, topic')
    /\ Extends(bronze, bronze')

-----------------------------------------------------------------------------
LEMMA AppendExtends ==
    ASSUME NEW S, NEW s \in Seq(S), NEW x \in S
    PROVE  /\ Append(s, x) \in Seq(S)
           /\ Len(Append(s, x)) = Len(s) + 1
           /\ Append(s, x)[Len(s) + 1] = x
           /\ Extends(s, Append(s, x))
  BY AppendProperties DEF Extends

LEMMA SourceInitOK == SourceInit => SourceTypeOK /\ WalOK /\ TopicOK
<1> SUFFICES ASSUME SourceInit PROVE SourceTypeOK /\ WalOK /\ TopicOK
  OBVIOUS
<1>1. SourceTypeOK
  BY DEF SourceInit, SourceTypeOK
<1> QED
  BY <1>1 DEF SourceInit, WalOK, TopicOK

LEMMA BronzeInitOK == SourceInit /\ BronzeInit => BronzeTypeOK
<1> SUFFICES ASSUME SourceInit, BronzeInit PROVE BronzeTypeOK
  OBVIOUS
<1>1. bSinkDone \in BOOLEAN
  BY Zenon DEF BronzeInit
<1>2. /\ bronze \in Seq(Nat)
      /\ DOMAIN bronze = {}
      /\ Len(topic) = 0
  BY DEF SourceInit, BronzeInit
<1>3. bCkpt \in 0..bPlan /\ bPlan \in 0..0 /\ bTarget \in 0..0 /\ losses \in Nat
  BY DEF BronzeInit
<1> QED
  BY <1>1, <1>2, <1>3, Zenon DEF BronzeTypeOK

LEMMA SilverInitOK == BronzeInit /\ SilverInit => SilverTypeOK
<1> SUFFICES ASSUME BronzeInit, SilverInit PROVE SilverTypeOK
  OBVIOUS
<1>1. DOMAIN dlq \subseteq Nat /\ dlq \in [DOMAIN dlq -> Nat]
  BY DEF SilverInit
<1> QED
  BY <1>1 DEF BronzeInit, SilverInit, SilverTypeOK

LEMMA InitOK == Init => IInv
<1> SUFFICES ASSUME Init PROVE IInv
  OBVIOUS
<1>1. SourceTypeOK /\ WalOK /\ TopicOK
  BY SourceInitOK DEF Init
<1>2. RunTypeOK
  BY DEF Init, RunInit, RunTypeOK, Tasks, Steps
<1>3. BronzeTypeOK /\ SilverTypeOK
  BY BronzeInitOK, SilverInitOK DEF Init
<1>4. GoldTypeOK
  BY DEF Init, GoldInit, GoldTypeOK, BronzeInit
<1>5. BatchesLeaveNoGap
  BY DEF Init, RunInit, SilverInit, BatchesLeaveNoGap, InSilver
<1>6. RowsComeFromChanges /\ NewestUpsertStands /\ NewestDeleteStands
  BY DEF Init, SilverInit, RowsComeFromChanges, NewestUpsertStands, NewestDeleteStands, Merged
<1> QED
  BY <1>1, <1>2, <1>3, <1>4, <1>5, <1>6 DEF IInv, SourceOK, SilverOK, SilverClaims

-----------------------------------------------------------------------------
(***************************************************************************)
(* The source.                                                             *)
(***************************************************************************)
LEMMA ExtendsRefl == \A S : \A s \in Seq(S) : Extends(s, s)
  BY DEF Extends

LEMMA WriteStep ==
    ASSUME SourceOK, NEW op \in Ops, NEW k \in Keys, NEW r \in Rows \cup {Absent},
           op = "d" <=> r = Absent, Write(op, k, r)
    PROVE  SourceOK' /\ Extends(wal, wal') /\ Extends(topic, topic')
<1> DEFINE c == [op |-> op, key |-> k, row |-> r]
<1>1. c \in Change
  BY DEF Change
<1>2. wal' = Append(wal, c) /\ topic' = topic
  BY DEF Write
<1>3. /\ wal' \in Seq(Change)
      /\ Len(wal') = Len(wal) + 1
      /\ wal'[Len(wal) + 1] = c
      /\ Extends(wal, wal')
  BY <1>1, <1>2, AppendExtends DEF SourceOK, SourceTypeOK
<1>4. Extends(topic, topic')
  BY <1>2, ExtendsRefl DEF SourceOK, SourceTypeOK
<1>5. DOMAIN wal = 1..Len(wal) /\ DOMAIN wal' = 1..(Len(wal) + 1) /\ Len(wal) \in Nat
  BY <1>3 DEF SourceOK, SourceTypeOK
<1>6. SourceTypeOK'
  BY <1>3, <1>5 DEF SourceOK, SourceTypeOK, Write
<1>7. WalOK'
  <2> SUFFICES ASSUME NEW i \in DOMAIN wal' PROVE wal'[i].op = "d" <=> wal'[i].row = Absent
    BY DEF WalOK
  <2>1. CASE i \in DOMAIN wal
    BY <1>3, <2>1 DEF WalOK, SourceOK, Extends
  <2>2. CASE i = Len(wal) + 1
    BY <1>3, <2>2
  <2> QED
    BY <1>5, <2>1, <2>2
<1>8. TopicOK'
  BY <1>2, <1>5 DEF TopicOK, SourceOK
<1> QED
  BY <1>3, <1>4, <1>6, <1>7, <1>8 DEF SourceOK

LEMMA TopicAppendStep ==
    ASSUME SourceOK, NEW m \in Record, topic' = Append(topic, m),
           m.kind = "change" => m.lsn \in DOMAIN wal,
           UNCHANGED <<db, wal, flushed, restarts>>, sent' \in sent..Len(wal)
    PROVE  SourceOK' /\ Extends(wal, wal') /\ Extends(topic, topic')
<1>1. /\ topic' \in Seq(Record)
      /\ Len(topic') = Len(topic) + 1
      /\ topic'[Len(topic) + 1] = m
      /\ Extends(topic, topic')
  BY AppendExtends DEF SourceOK, SourceTypeOK
<1>2. Extends(wal, wal')
  BY ExtendsRefl DEF SourceOK, SourceTypeOK
<1>3. DOMAIN topic = 1..Len(topic) /\ DOMAIN topic' = 1..(Len(topic) + 1) /\ Len(topic) \in Nat
  BY <1>1 DEF SourceOK, SourceTypeOK
<1>4. SourceTypeOK'
  BY <1>1 DEF SourceOK, SourceTypeOK
<1>5. WalOK'
  BY DEF SourceOK, WalOK
<1>6. TopicOK'
  <2> SUFFICES ASSUME NEW o \in DOMAIN topic', topic'[o].kind = "change"
               PROVE  topic'[o].lsn \in DOMAIN wal
    BY DEF TopicOK
  <2>1. CASE o \in DOMAIN topic
    BY <1>1, <2>1 DEF TopicOK, SourceOK, Extends
  <2>2. CASE o = Len(topic) + 1
    BY <1>1, <2>2
  <2> QED
    BY <1>3, <2>1, <2>2
<1> QED
  BY <1>1, <1>2, <1>4, <1>5, <1>6 DEF SourceOK

LEMMA SourceStep ==
    ASSUME SourceOK, SourceNext
    PROVE  SourceOK' /\ Extends(wal, wal') /\ Extends(topic, topic')
<1>1. ASSUME NEW k \in Keys, NEW r \in Rows, InsertPayment(k, r) \/ UpdatePayment(k, r)
      PROVE  SourceOK' /\ Extends(wal, wal') /\ Extends(topic, topic')
  BY <1>1, WriteStep, AbsentAssumption DEF InsertPayment, UpdatePayment, Ops
<1>2. ASSUME NEW k \in Keys, DeletePayment(k)
      PROVE  SourceOK' /\ Extends(wal, wal') /\ Extends(topic, topic')
  BY <1>2, WriteStep DEF DeletePayment, Ops
<1>3. CASE Publish
  <2>1. [kind |-> "change", lsn |-> sent + 1] \in Record /\ sent + 1 \in DOMAIN wal
    BY <1>3 DEF Publish, Record, SourceOK, SourceTypeOK
  <2>2. sent' \in sent..Len(wal)
    BY <1>3 DEF Publish, SourceOK, SourceTypeOK
  <2> QED
    BY <1>3, <2>1, <2>2, TopicAppendStep DEF Publish
<1>4. ASSUME NEW kind \in OtherKinds, PublishOther(kind)
      PROVE  SourceOK' /\ Extends(wal, wal') /\ Extends(topic, topic')
  <2>1. [kind |-> kind, lsn |-> 0] \in Record /\ kind # "change"
    BY SourceBoundsAssumption DEF Record, AllOtherKinds
  <2>2. sent' \in sent..Len(wal)
    BY <1>4 DEF PublishOther, SourceOK, SourceTypeOK
  <2> QED
    BY <1>4, <2>1, <2>2, TopicAppendStep DEF PublishOther
<1>5. CASE FlushOffset \/ RestartConnector
  <2>1. UNCHANGED <<wal, topic>>
    BY <1>5 DEF FlushOffset, RestartConnector
  <2>2. SourceTypeOK'
    BY <1>5 DEF FlushOffset, RestartConnector, SourceOK, SourceTypeOK
  <2>3. WalOK' /\ TopicOK'
    BY <2>1 DEF WalOK, TopicOK, SourceOK
  <2>4. Extends(wal, wal') /\ Extends(topic, topic')
    BY <2>1, ExtendsRefl DEF SourceOK, SourceTypeOK
  <2> QED
    BY <2>2, <2>3, <2>4 DEF SourceOK
<1> QED
  BY <1>1, <1>2, <1>3, <1>4, <1>5 DEF SourceNext

-----------------------------------------------------------------------------
(***************************************************************************)
(* The bronze job.                                                         *)
(***************************************************************************)
LEMMA BronzeAppendStep ==
    ASSUME SourceTypeOK, BronzeTypeOK, UNCHANGED sourceVars, BronzeAppend
    PROVE  /\ bronze' \in Seq(Nat)
           /\ \A p \in DOMAIN bronze' : bronze'[p] \in DOMAIN topic'
           /\ Extends(bronze, bronze')
<1>1. CASE bSinkDone
  BY <1>1, ExtendsRefl DEF BronzeAppend, BronzeTypeOK, sourceVars
<1>2. CASE ~bSinkDone
  <2> DEFINE batch == [i \in 1..(bPlan - bCkpt) |-> bCkpt + i]
  <2>1. bPlan - bCkpt \in Nat /\ bCkpt \in Nat /\ bPlan \in 0..Len(topic)
    BY DEF BronzeTypeOK, SourceTypeOK
  <2>2. /\ batch \in Seq(Nat)
        /\ Len(batch) = bPlan - bCkpt
        /\ \A i \in 1..(bPlan - bCkpt) : batch[i] = bCkpt + i
    BY <2>1, IsASeq
  <2>3. \A i \in 1..(bPlan - bCkpt) : batch[i] \in DOMAIN topic
    BY <2>1, <2>2 DEF SourceTypeOK
  <2> HIDE DEF batch
  <2>4. bronze' = bronze \o batch
    BY <1>2 DEF BronzeAppend, batch
  <2>5. /\ bronze' \in Seq(Nat)
        /\ Len(bronze') = Len(bronze) + Len(batch)
        /\ \A i \in 1..(Len(bronze) + Len(batch)) :
              bronze'[i] = IF i <= Len(bronze) THEN bronze[i] ELSE batch[i - Len(bronze)]
    <3>1. bronze \in Seq(Nat)
      BY DEF BronzeTypeOK
    <3> QED
      BY <2>2, <2>4, <3>1, ConcatProperties, Zenon
  <2>6. Extends(bronze, bronze')
    <3>1. DOMAIN bronze = 1..Len(bronze) /\ Len(bronze) \in Nat
      BY DEF BronzeTypeOK
    <3>2. Len(bronze) <= Len(bronze')
      BY <2>1, <2>2, <2>5, <3>1
    <3>3. ASSUME NEW i \in DOMAIN bronze PROVE bronze'[i] = bronze[i]
      <4>1. i \in 1..(Len(bronze) + Len(batch)) /\ i <= Len(bronze)
        BY <2>1, <2>2, <3>1, <3>3
      <4> QED
        BY <2>5, <4>1, Zenon
    <3> QED
      BY <3>2, <3>3 DEF Extends
  <2>7. ASSUME NEW p \in DOMAIN bronze' PROVE bronze'[p] \in DOMAIN topic
    <3>1. p \in 1..(Len(bronze) + (bPlan - bCkpt)) /\ Len(bronze) \in Nat
      BY <2>2, <2>5, <2>7 DEF BronzeTypeOK
    <3>2. CASE p <= Len(bronze)
      <4>1. p \in DOMAIN bronze
        BY <2>1, <3>1, <3>2 DEF BronzeTypeOK
      <4>2. bronze'[p] = bronze[p]
        BY <2>6, <4>1, Zenon DEF Extends
      <4> QED
        BY <4>1, <4>2, Zenon DEF BronzeTypeOK
    <3>3. CASE p > Len(bronze)
      <4>1. p - Len(bronze) \in 1..(bPlan - bCkpt)
        BY <2>1, <3>1, <3>3
      <4> QED
        BY <2>3, <2>5, <2>7, <3>1, <3>3, <4>1
    <3> QED
      BY <3>1, <3>2, <3>3
  <2> QED
    BY <2>5, <2>6, <2>7 DEF sourceVars
<1> QED
  BY <1>1, <1>2

LEMMA BronzeStep ==
    ASSUME SourceTypeOK, RunTypeOK, BronzeTypeOK, UNCHANGED sourceVars, BronzeNext
    PROVE  BronzeTypeOK' /\ RunTypeOK' /\ Extends(bronze, bronze')
<1> USE DEF sourceVars, bronzeVars
<1>1. CASE BronzeAppend
  <2>1. RunTypeOK'
    BY <1>1 DEF BronzeAppend, RunTypeOK, GoTo, Steps
  <2>2. bCkpt' \in 0..bPlan' /\ bPlan' \in 0..Len(topic') /\ bTarget' \in 0..Len(topic')
    BY <1>1 DEF BronzeAppend, BronzeTypeOK
  <2>3. bSinkDone' \in BOOLEAN
    BY <1>1, Zenon DEF BronzeAppend
  <2>4. losses' \in Nat
    BY <1>1 DEF BronzeAppend, BronzeTypeOK
  <2> QED
    BY <1>1, <2>1, <2>2, <2>3, <2>4, BronzeAppendStep, Zenon DEF BronzeTypeOK
<1> USE DEF BronzeTypeOK, SourceTypeOK, RunTypeOK, Tasks, Steps, GoTo, Succeed, Fail
<1>2. Extends(bronze, bronze)
  BY ExtendsRefl
<1>3. CASE BronzeStart
  BY <1>2, <1>3 DEF BronzeStart
<1>4. CASE BronzeResumeBatch
  BY <1>2, <1>4 DEF BronzeResumeBatch
<1>5. CASE BronzePlanBatch
  <2>1. bSinkDone' \in BOOLEAN
    BY <1>5, Zenon DEF BronzePlanBatch
  <2> QED
    BY <1>2, <1>5, <2>1 DEF BronzePlanBatch
<1>6. CASE BronzeDrained
  BY <1>2, <1>6 DEF BronzeDrained
<1>7. CASE BronzeMaskFails
  BY <1>2, <1>7 DEF BronzeMaskFails
<1>8. CASE BronzeCommit
  BY <1>2, <1>8 DEF BronzeCommit
<1>9. CASE BronzeCheckPasses
  BY <1>2, <1>9 DEF BronzeCheckPasses
<1>10. CASE BronzeCheckFails
  BY <1>2, <1>10 DEF BronzeCheckFails
<1> QED
  BY <1>1, <1>3, <1>4, <1>5, <1>6, <1>7, <1>8, <1>9, <1>10 DEF BronzeNext

\* What another part of the system does leaves bronze well typed.
LEMMA BronzeFrame ==
    ASSUME BronzeTypeOK, SourceTypeOK, SourceTypeOK', Extends(topic, topic'),
           UNCHANGED <<bronze, bCkpt, bPlan, bTarget, bSinkDone>>, losses' \in Nat
    PROVE  BronzeTypeOK' /\ Extends(bronze, bronze')
<1>1. Len(topic) \in Nat /\ Len(topic') \in Nat /\ Len(topic) <= Len(topic')
  BY DEF SourceTypeOK, Extends
<1>2. DOMAIN topic \subseteq DOMAIN topic'
  BY <1>1 DEF SourceTypeOK
<1>3. Extends(bronze, bronze')
  BY ExtendsRefl DEF BronzeTypeOK
<1>4. bPlan' \in 0..Len(topic') /\ bTarget' \in 0..Len(topic') /\ bCkpt' \in 0..bPlan'
  BY <1>1 DEF BronzeTypeOK
<1> QED
  BY <1>2, <1>3, <1>4 DEF BronzeTypeOK

-----------------------------------------------------------------------------
(***************************************************************************)
(* What the positions of bronze say: they are changes silver can read, and *)
(* they never say anything else.                                           *)
(***************************************************************************)
LEMMA EventTyped ==
    ASSUME SourceOK, BronzeTypeOK, NEW p \in DOMAIN bronze, IsChange(p)
    PROVE  /\ WellFormed(EventAt(p))
           /\ EventAt(p).offset <= Len(topic)
           /\ EventAt(p).lsn \in DOMAIN wal
           /\ EventAt(p).op = wal[EventAt(p).lsn].op
           /\ EventAt(p).row = wal[EventAt(p).lsn].row
<1> DEFINE n == RecordAt(p).lsn
<1>1. bronze[p] \in DOMAIN topic /\ bronze[p] \in Nat /\ bronze[p] <= Len(topic)
  BY DEF BronzeTypeOK, SourceOK, SourceTypeOK
<1>2. n \in DOMAIN wal
  BY <1>1 DEF SourceOK, TopicOK, IsChange, RecordAt
<1>3. n \in Nat /\ wal[n] \in Change
  BY <1>2 DEF SourceOK, SourceTypeOK
<1>4. wal[n].op = "d" <=> wal[n].row = Absent
  BY <1>2 DEF SourceOK, WalOK
<1> HIDE DEF n
<1>5. EventAt(p) = [op |-> wal[n].op, key |-> wal[n].key, lsn |-> n, row |-> wal[n].row,
                    offset |-> bronze[p]]
  BY DEF EventAt, n
<1> QED
  BY <1>1, <1>2, <1>3, <1>4, <1>5 DEF WellFormed, EventType, Change

LEMMA EventsTyped ==
    ASSUME SourceOK, BronzeTypeOK, NEW P, P \subseteq DOMAIN bronze, NEW e \in Events(P)
    PROVE  /\ WellFormed(e)
           /\ e.offset <= Len(topic)
           /\ \E p \in P : IsChange(p) /\ e = EventAt(p)
<1>1. PICK p \in P : IsChange(p) /\ e = EventAt(p)
  BY DEF Events, IsChange
<1> QED
  BY <1>1, EventTyped

LEMMA EventsStable ==
    ASSUME SourceOK, BronzeTypeOK, HistoryGrows, NEW p \in DOMAIN bronze
    PROVE  /\ IsChange(p)' <=> IsChange(p)
           /\ IsChange(p) => EventAt(p)' = EventAt(p)
<1>1. bronze'[p] = bronze[p] /\ bronze[p] \in DOMAIN topic
  BY DEF HistoryGrows, Extends, BronzeTypeOK
<1>2. topic'[bronze'[p]] = topic[bronze[p]]
  BY <1>1 DEF HistoryGrows, Extends
<1>3. IsChange(p)' <=> IsChange(p)
  BY <1>2 DEF IsChange, RecordAt
<1>4. ASSUME IsChange(p) PROVE EventAt(p)' = EventAt(p)
  <2>1. RecordAt(p).lsn \in DOMAIN wal
    BY <1>1, <1>4 DEF SourceOK, TopicOK, IsChange, RecordAt
  <2>2. RecordAt(p)' = RecordAt(p)
    BY <1>2 DEF RecordAt
  <2>3. wal'[RecordAt(p).lsn] = wal[RecordAt(p).lsn]
    BY <2>1 DEF HistoryGrows, Extends
  <2> QED
    BY <1>1, <2>2, <2>3 DEF EventAt
<1> QED
  BY <1>3, <1>4

-----------------------------------------------------------------------------
(***************************************************************************)
(* Where neither silver nor auxMerged changes, what is claimed of them     *)
(* goes on being true.                                                     *)
(***************************************************************************)
LEMMA ClaimsFrame ==
    ASSUME SourceOK, BronzeTypeOK, SilverTypeOK, SilverClaims, HistoryGrows,
           UNCHANGED <<silver, auxMerged>>
    PROVE  SilverClaims'
<1>1. Merged' = Merged /\ Merged \subseteq DOMAIN bronze
  BY DEF Merged, SilverTypeOK, BronzeTypeOK
<1>2. \A p \in Merged : (IsChange(p)' <=> IsChange(p)) /\ (IsChange(p) => EventAt(p)' = EventAt(p))
  BY <1>1, EventsStable
<1>3. RowsComeFromChanges'
  <2> SUFFICES ASSUME NEW k \in Keys, silver[k] # Absent
               PROVE  \E p \in Merged :
                          /\ IsChange(p)'
                          /\ EventAt(p)'.key = k
                          /\ EventAt(p)'.op \in UpsertOps
                          /\ silver[k] = [lsn |-> EventAt(p)'.lsn, row |-> EventAt(p)'.row]
    BY <1>1 DEF RowsComeFromChanges
  <2>1. PICK p \in Merged :
            /\ IsChange(p)
            /\ EventAt(p).key = k
            /\ EventAt(p).op \in UpsertOps
            /\ silver[k] = [lsn |-> EventAt(p).lsn, row |-> EventAt(p).row]
    BY DEF SilverClaims, RowsComeFromChanges
  <2> QED
    BY <1>2, <2>1
<1>4. ASSUME NEW p \in Merged, IsChange(p), Newest(p)' PROVE Newest(p)
  BY <1>1, <1>2, <1>4 DEF Newest, SameKey
<1>5. ASSUME NEW p \in Merged, IsChange(p), Last(p)' PROVE Last(p)
  BY <1>1, <1>2, <1>5 DEF Last, SameKey
<1>6. NewestUpsertStands'
  <2> SUFFICES ASSUME NEW p \in Merged, Newest(p)', EventAt(p)'.op \in UpsertOps
               PROVE  silver[EventAt(p)'.key] = [lsn |-> EventAt(p)'.lsn, row |-> EventAt(p)'.row]
    BY <1>1 DEF NewestUpsertStands
  <2>1. IsChange(p) /\ EventAt(p)' = EventAt(p)
    BY <1>2 DEF Newest
  <2> QED
    BY <1>4, <2>1 DEF SilverClaims, NewestUpsertStands
<1>7. NewestDeleteStands'
  <2> SUFFICES ASSUME NEW p \in Merged, Newest(p)', Last(p)', EventAt(p)'.op = "d"
               PROVE  silver[EventAt(p)'.key] = Absent
    BY <1>1 DEF NewestDeleteStands
  <2>1. IsChange(p) /\ EventAt(p)' = EventAt(p)
    BY <1>2 DEF Newest
  <2> QED
    BY <1>4, <1>5, <2>1 DEF SilverClaims, NewestDeleteStands
<1> QED
  BY <1>3, <1>6, <1>7 DEF SilverClaims

-----------------------------------------------------------------------------
(***************************************************************************)
(* Merging a batch.  MergesBatch is what SilverMerge and                   *)
(* SilverNothingToApply have in common.                                    *)
(***************************************************************************)
Untouched(k) == silver'[k] = silver[k] /\ \A c \in BatchChanges : c.key # k

TouchedBy(c, k) == c.key = k /\ silver'[k] = MergeRow(silver[k], c)

MergesBatch ==
    /\ UNCHANGED <<wal, topic, bronze>>
    /\ SilverBatch \subseteq DOMAIN bronze
    /\ auxMerged' = sPlan
    /\ Merged' = Merged \cup SilverBatch
    /\ \A k \in Keys : Untouched(k) \/ \E c \in BatchChanges : TouchedBy(c, k)

LEMMA BatchIsMerged ==
    ASSUME BronzeTypeOK, SilverTypeOK, BatchesLeaveNoGap, sCkpt < sPlan, auxMerged' = sPlan
    PROVE  /\ SilverBatch \subseteq DOMAIN bronze
           /\ Merged' = Merged \cup SilverBatch
           /\ \A p \in Merged, q \in SilverBatch : p \notin SilverBatch => p < q
<1>1. /\ Len(bronze) \in Nat
      /\ DOMAIN bronze = 1..Len(bronze)
  BY DEF BronzeTypeOK
<1>2. sCkpt \in Nat /\ sPlan \in 0..Len(bronze) /\ auxMerged \in 0..Len(bronze)
  BY <1>1 DEF SilverTypeOK
<1>3. sCkpt <= auxMerged /\ auxMerged <= sPlan
  BY DEF BatchesLeaveNoGap
<1>4. SilverBatch \subseteq DOMAIN bronze
  BY <1>1, <1>2 DEF SilverBatch
<1>5. Merged' = Merged \cup SilverBatch
  BY <1>2, <1>3 DEF Merged, SilverBatch
<1>6. ASSUME NEW p \in Merged, NEW q \in SilverBatch, p \notin SilverBatch PROVE p < q
  BY <1>2, <1>3, <1>6 DEF Merged, SilverBatch
<1> QED
  BY <1>4, <1>5, <1>6

\* Every change of the batch is that of a position in it.
LEMMA ChangesTyped ==
    ASSUME SourceOK, BronzeTypeOK, SilverBatch \subseteq DOMAIN bronze, NEW c \in BatchChanges
    PROVE  /\ c \in Events(SilverBatch)
           /\ WellFormed(c)
           /\ \E q \in SilverBatch : IsChange(q) /\ c = EventAt(q)
<1>1. c \in Events(SilverBatch)
  BY DEF BatchChanges, LatestPerKey
<1> QED
  BY <1>1, EventsTyped

\* If no change of a payment in the batch is above one of them, some surviving
\* change of that payment has its LSN, and so have all.
LEMMA HighestSurvives ==
    ASSUME SourceOK, BronzeTypeOK, SilverBatch \subseteq DOMAIN bronze,
           NEW q \in SilverBatch, IsChange(q),
           \A r \in SilverBatch : SameKey(q, r) => EventAt(r).lsn <= EventAt(q).lsn
    PROVE  /\ \E c \in BatchChanges : c.key = EventAt(q).key
           /\ \A c \in BatchChanges : c.key = EventAt(q).key => c.lsn = EventAt(q).lsn
<1> DEFINE E == Events(SilverBatch)
           h == EventAt(q)
<1>1. h \in E
  BY DEF Events, IsChange
<1>2. \A e \in E : /\ WellFormed(e)
                    /\ e.offset <= Len(topic)
                    /\ \E r \in SilverBatch : IsChange(r) /\ e = EventAt(r)
  BY EventsTyped
<1>3. \A e \in E : e.key = h.key => e.lsn <= h.lsn
  BY <1>2 DEF SameKey
<1>4. Len(topic) \in Nat
  BY DEF SourceOK, SourceTypeOK
<1> HIDE DEF E, h
<1>5. \E c \in LatestPerKey(E) : c.key = h.key /\ c.lsn = h.lsn
  BY <1>1, <1>2, <1>3, <1>4, LatestExists
<1>6. ASSUME NEW c \in LatestPerKey(E), c.key = h.key PROVE c.lsn = h.lsn
  <2>1. c \in E
    BY DEF LatestPerKey
  <2>2. h.lsn <= c.lsn /\ c.lsn <= h.lsn
    BY <1>1, <1>2, <1>3, <1>6, <2>1, LatestIsHighest
  <2>3. h.lsn \in Nat /\ c.lsn \in Nat
    BY <1>1, <1>2, <2>1 DEF WellFormed, EventType
  <2> QED
    BY <2>2, <2>3
<1> QED
  BY <1>5, <1>6 DEF BatchChanges, E, h

LEMMA ProvenanceKept ==
    ASSUME SourceOK, BronzeTypeOK, SilverTypeOK, RowsComeFromChanges, MergesBatch
    PROVE  RowsComeFromChanges'
<1> SUFFICES ASSUME NEW k \in Keys, silver'[k] # Absent
             PROVE  \E p \in Merged \cup SilverBatch :
                        /\ IsChange(p)
                        /\ EventAt(p).key = k
                        /\ EventAt(p).op \in UpsertOps
                        /\ silver'[k] = [lsn |-> EventAt(p).lsn, row |-> EventAt(p).row]
  <2>1. UNCHANGED <<wal, topic, bronze>> /\ Merged' = Merged \cup SilverBatch
    BY DEF MergesBatch
  <2>2. \A p : RecordAt(p)' = RecordAt(p) /\ EventAt(p)' = EventAt(p)
    BY <2>1 DEF EventAt, RecordAt
  <2>3. \A p : IsChange(p)' <=> IsChange(p)
    BY <2>1, <2>2 DEF IsChange
  <2> QED
    BY <2>1, <2>2, <2>3 DEF RowsComeFromChanges
<1>1. CASE silver'[k] = silver[k]
  <2>1. PICK p \in Merged :
            /\ IsChange(p)
            /\ EventAt(p).key = k
            /\ EventAt(p).op \in UpsertOps
            /\ silver[k] = [lsn |-> EventAt(p).lsn, row |-> EventAt(p).row]
    BY <1>1 DEF RowsComeFromChanges
  <2> QED
    BY <1>1, <2>1
<1>2. CASE silver'[k] # silver[k]
  <2>1. PICK c \in BatchChanges : c.key = k /\ silver'[k] = MergeRow(silver[k], c)
    BY <1>2 DEF MergesBatch, Untouched, TouchedBy
  <2>2. PICK q \in SilverBatch : IsChange(q) /\ c = EventAt(q)
    BY ChangesTyped DEF MergesBatch
  <2>3. c.op \in UpsertOps /\ silver'[k] = [lsn |-> c.lsn, row |-> c.row]
    BY <1>2, <2>1 DEF MergeRow
  <2> QED
    BY <2>1, <2>2, <2>3
<1> QED
  BY <1>1, <1>2

\* No row of silver is newer than the newest change merged, and one that has its
\* LSN has its columns.
LEMMA RowIsNoNewer ==
    ASSUME SourceOK, BronzeTypeOK, RowsComeFromChanges, Merged \subseteq DOMAIN bronze,
           NEW p \in DOMAIN bronze, IsChange(p), EventAt(p).key \in Keys,
           \A q \in Merged : SameKey(p, q) => EventAt(q).lsn <= EventAt(p).lsn,
           silver[EventAt(p).key] # Absent
    PROVE  /\ silver[EventAt(p).key].lsn <= EventAt(p).lsn
           /\ silver[EventAt(p).key].lsn = EventAt(p).lsn =>
                  /\ EventAt(p).op \in UpsertOps
                  /\ silver[EventAt(p).key] = [lsn |-> EventAt(p).lsn, row |-> EventAt(p).row]
<1>1. PICK q \in Merged :
          /\ IsChange(q)
          /\ EventAt(q).key = EventAt(p).key
          /\ EventAt(q).op \in UpsertOps
          /\ silver[EventAt(p).key] = [lsn |-> EventAt(q).lsn, row |-> EventAt(q).row]
  BY DEF RowsComeFromChanges
<1>2. EventAt(q).lsn <= EventAt(p).lsn
  BY <1>1 DEF SameKey
<1>3. EventAt(q).lsn = EventAt(p).lsn =>
          EventAt(q).op = EventAt(p).op /\ EventAt(q).row = EventAt(p).row
  BY <1>1, EventTyped
<1> QED
  BY <1>1, <1>2, <1>3

LEMMA UpsertStandsAfterMerge ==
    ASSUME SourceOK, BronzeTypeOK, SilverTypeOK, SilverClaims, MergesBatch,
           Merged \subseteq DOMAIN bronze,
           NEW p \in Merged \cup SilverBatch, IsChange(p), EventAt(p).op \in UpsertOps,
           \A q \in Merged \cup SilverBatch : SameKey(p, q) => EventAt(q).lsn <= EventAt(p).lsn
    PROVE  silver'[EventAt(p).key] = [lsn |-> EventAt(p).lsn, row |-> EventAt(p).row]
<1> DEFINE k == EventAt(p).key
           n == EventAt(p).lsn
<1>1. p \in DOMAIN bronze /\ SilverBatch \subseteq DOMAIN bronze
  BY DEF MergesBatch
<1>2. WellFormed(EventAt(p)) /\ k \in Keys /\ n \in Nat
  BY <1>1, EventTyped DEF WellFormed, EventType
<1>3. silver[k] \in SilverRow \cup {Absent}
  BY <1>2 DEF SilverTypeOK
<1>4. ASSUME NEW c \in BatchChanges, c.key = k
      PROVE  c.lsn \in Nat /\ c.lsn <= n
  BY <1>1, <1>4, ChangesTyped DEF SameKey, WellFormed, EventType
<1>5. CASE \E q \in SilverBatch : SameKey(p, q) /\ EventAt(q).lsn = n
  <2>1. PICK q \in SilverBatch : IsChange(q) /\ EventAt(q).key = k /\ EventAt(q).lsn = n
    BY <1>5 DEF SameKey
  <2>2. \A r \in SilverBatch : SameKey(q, r) => EventAt(r).lsn <= EventAt(q).lsn
    BY <2>1 DEF SameKey
  <2>3. /\ \E c \in BatchChanges : c.key = k
        /\ \A c \in BatchChanges : c.key = k => c.lsn = n
    BY <1>1, <2>1, <2>2, HighestSurvives
  <2>4. PICK c \in BatchChanges : c.key = k /\ silver'[k] = MergeRow(silver[k], c)
    BY <1>2, <2>3 DEF MergesBatch, Untouched, TouchedBy
  <2>5. WellFormed(c) /\ c.lsn = n /\ c.op = EventAt(p).op /\ c.row = EventAt(p).row
    BY <1>1, <2>3, <2>4, ChangesTyped, EventTyped
  <2>6. CASE silver[k] = Absent \/ silver[k].lsn < n
    BY <1>3, <2>4, <2>5, <2>6, MergeNewer DEF UpsertOps
  <2>7. CASE silver[k] # Absent /\ ~(silver[k].lsn < n)
    <3>1. silver[k].lsn = n /\ silver[k] = [lsn |-> n, row |-> EventAt(p).row]
      BY <1>1, <1>2, <1>3, <2>7, RowIsNoNewer DEF SilverClaims, SilverRow
    <3> QED
      BY <1>2, <2>4, <2>5, <2>7, <3>1, MergeOlder
  <2> QED
    BY <2>6, <2>7
<1>6. CASE ~\E q \in SilverBatch : SameKey(p, q) /\ EventAt(q).lsn = n
  <2>1. p \in Merged /\ Newest(p)
    BY <1>6 DEF Newest, SameKey
  <2>2. silver[k] = [lsn |-> n, row |-> EventAt(p).row] /\ silver[k] # Absent
    BY <1>2, <2>1, AbsentAssumption DEF SilverClaims, NewestUpsertStands, WellFormed, EventType, UpsertOps
  <2>3. ASSUME NEW c \in BatchChanges, TouchedBy(c, k) PROVE silver'[k] = silver[k]
    <3>1. c.lsn <= n
      BY <1>4, <2>3 DEF TouchedBy
    <3> QED
      BY <2>2, <2>3, <3>1, MergeOlder DEF TouchedBy
  <2> QED
    BY <1>2, <2>2, <2>3 DEF MergesBatch, Untouched
<1> QED
  BY <1>5, <1>6

LEMMA DeleteStandsAfterMerge ==
    ASSUME SourceOK, BronzeTypeOK, SilverTypeOK, SilverClaims, MergesBatch,
           Merged \subseteq DOMAIN bronze,
           \A r \in Merged, q \in SilverBatch : r \notin SilverBatch => r < q,
           NEW p \in Merged \cup SilverBatch, IsChange(p), EventAt(p).op = "d",
           \A q \in Merged \cup SilverBatch : SameKey(p, q) => EventAt(q).lsn <= EventAt(p).lsn,
           \A q \in Merged \cup SilverBatch : SameKey(p, q) => q <= p
    PROVE  silver'[EventAt(p).key] = Absent
<1> DEFINE k == EventAt(p).key
           n == EventAt(p).lsn
<1>1. p \in DOMAIN bronze /\ SilverBatch \subseteq DOMAIN bronze
  BY DEF MergesBatch
<1>2. WellFormed(EventAt(p)) /\ k \in Keys /\ n \in Nat
  BY <1>1, EventTyped DEF WellFormed, EventType
<1>3. silver[k] \in SilverRow \cup {Absent}
  BY <1>2 DEF SilverTypeOK
<1>4. ASSUME silver[k] # Absent PROVE silver[k].lsn < n
  <2>1. silver[k].lsn \in Nat
    BY <1>3, <1>4 DEF SilverRow
  <2>2. "d" \notin UpsertOps
    BY DEF UpsertOps
  <2>3. silver[k].lsn <= n /\ silver[k].lsn # n
    BY <1>1, <1>2, <1>4, <2>2, RowIsNoNewer DEF SilverClaims
  <2> QED
    BY <1>2, <2>1, <2>3
<1>5. CASE p \in SilverBatch
  <2>1. /\ \E c \in BatchChanges : c.key = k
        /\ \A c \in BatchChanges : c.key = k => c.lsn = n
    BY <1>1, <1>5, HighestSurvives
  <2>2. PICK c \in BatchChanges : c.key = k /\ silver'[k] = MergeRow(silver[k], c)
    BY <1>2, <2>1 DEF MergesBatch, Untouched, TouchedBy
  <2>3. WellFormed(c) /\ c.lsn = n /\ c.op = "d"
    BY <1>1, <2>1, <2>2, ChangesTyped, EventTyped
  <2> QED
    BY <1>3, <1>4, <2>2, <2>3, MergeNewer
<1>6. CASE p \notin SilverBatch
  <2>1. p \in Merged /\ Newest(p) /\ Last(p)
    BY <1>6 DEF Newest, Last
  <2>2. silver[k] = Absent
    BY <2>1 DEF SilverClaims, NewestDeleteStands
  <2>3. ASSUME NEW c \in BatchChanges PROVE c.key # k
    <3>1. PICK q \in SilverBatch : IsChange(q) /\ c = EventAt(q)
      BY <1>1, ChangesTyped
    <3>2. p < q /\ p \in Nat /\ q \in Nat
      BY <1>1, <1>6, <2>1, <3>1 DEF BronzeTypeOK
    <3> QED
      BY <3>1, <3>2 DEF SameKey
  <2> QED
    BY <1>2, <2>2, <2>3 DEF MergesBatch, Untouched, TouchedBy
<1> QED
  BY <1>5, <1>6

LEMMA ClaimsAfterMerge ==
    ASSUME SourceOK, BronzeTypeOK, SilverTypeOK, SilverClaims, MergesBatch,
           \A r \in Merged, q \in SilverBatch : r \notin SilverBatch => r < q
    PROVE  SilverClaims'
<1>1. Merged \subseteq DOMAIN bronze
  BY DEF Merged, SilverTypeOK, BronzeTypeOK
<1>2. \A p : (IsChange(p)' <=> IsChange(p)) /\ EventAt(p)' = EventAt(p)
  BY DEF MergesBatch, IsChange, EventAt, RecordAt
<1>3. Merged' = Merged \cup SilverBatch
  BY DEF MergesBatch
<1>4. RowsComeFromChanges'
  BY ProvenanceKept DEF SilverClaims
<1>5. ASSUME NEW p \in Merged \cup SilverBatch, Newest(p)'
      PROVE  /\ IsChange(p)
             /\ \A q \in Merged \cup SilverBatch : SameKey(p, q) => EventAt(q).lsn <= EventAt(p).lsn
  BY <1>2, <1>3, <1>5 DEF Newest, SameKey
<1>6. ASSUME NEW p \in Merged \cup SilverBatch, Last(p)'
      PROVE  \A q \in Merged \cup SilverBatch : SameKey(p, q) => q <= p
  BY <1>2, <1>3, <1>6 DEF Last, SameKey
<1>7. NewestUpsertStands'
  <2> SUFFICES ASSUME NEW p \in Merged \cup SilverBatch, Newest(p)', EventAt(p).op \in UpsertOps
               PROVE  silver'[EventAt(p).key] = [lsn |-> EventAt(p).lsn, row |-> EventAt(p).row]
    BY <1>2, <1>3 DEF NewestUpsertStands
  <2> QED
    BY <1>1, <1>5, UpsertStandsAfterMerge
<1>8. NewestDeleteStands'
  <2> SUFFICES ASSUME NEW p \in Merged \cup SilverBatch, Newest(p)', Last(p)', EventAt(p).op = "d"
               PROVE  silver'[EventAt(p).key] = Absent
    BY <1>2, <1>3 DEF NewestDeleteStands
  <2> QED
    BY <1>1, <1>5, <1>6, DeleteStandsAfterMerge
<1> QED
  BY <1>4, <1>7, <1>8 DEF SilverClaims

-----------------------------------------------------------------------------
(***************************************************************************)
(* The silver job.                                                         *)
(***************************************************************************)
LEMMA DlqMergeType ==
    ASSUME SilverTypeOK, NEW offsets, offsets \subseteq Nat
    PROVE  /\ DOMAIN DlqMerge(offsets) \subseteq Nat
           /\ DlqMerge(offsets) \in [DOMAIN DlqMerge(offsets) -> Nat]
<1>1. DOMAIN DlqMerge(offsets) = DOMAIN dlq \cup offsets
  BY DEF DlqMerge
<1>2. ASSUME NEW o \in DOMAIN dlq \cup offsets PROVE DlqMerge(offsets)[o] \in Nat
  BY <1>2 DEF DlqMerge, SilverTypeOK
<1>3. DlqMerge(offsets) = [o \in DOMAIN dlq \cup offsets |-> DlqMerge(offsets)[o]]
  BY DEF DlqMerge
<1> QED
  BY <1>1, <1>2, <1>3 DEF SilverTypeOK

LEMMA OffsetsTyped ==
    ASSUME BronzeTypeOK, SilverTypeOK, NEW kind
    PROVE  OffsetsOf(kind) \subseteq Nat
<1>1. SilverBatch \subseteq DOMAIN bronze
  BY DEF SilverBatch, SilverTypeOK, BronzeTypeOK
<1>2. \A p \in DOMAIN bronze : bronze[p] \in Nat
  BY DEF BronzeTypeOK
<1> QED
  BY <1>1, <1>2 DEF OffsetsOf

SilverControl == <<sCkpt, sPlan, sTarget, auxMerged>>

\* The numbers the control of the job turns on.
LEMMA SilverNumbers ==
    BronzeTypeOK /\ SilverTypeOK =>
        /\ Len(bronze) \in Nat
        /\ sCkpt \in Nat
        /\ sPlan \in Nat
        /\ sTarget \in Nat
        /\ auxMerged \in Nat
  BY DEF BronzeTypeOK, SilverTypeOK

LEMMA SilverDlqStep ==
    ASSUME BronzeTypeOK, SilverOK, UNCHANGED bronzeVars,
           SilverDlqNullOp \/ SilverDlqUnexpectedOp
    PROVE  SilverOK'
<1>1. PICK offsets : offsets \subseteq Nat /\ dlq' = DlqMerge(offsets)
  <2>1. /\ OffsetsOf("null_op") \cup OffsetsOf("non_object") \subseteq Nat
        /\ OffsetsOf("unexpected_op") \subseteq Nat
    BY OffsetsTyped DEF SilverOK
  <2> QED
    BY <2>1 DEF SilverDlqNullOp, SilverDlqUnexpectedOp
<1>2. DOMAIN dlq' \subseteq Nat /\ dlq' \in [DOMAIN dlq' -> Nat]
  BY <1>1, DlqMergeType DEF SilverOK
<1>3. UNCHANGED <<silver, sCkpt, sPlan, sTarget, auxMerged, bronze, task>>
  BY DEF SilverDlqNullOp, SilverDlqUnexpectedOp, GoTo, bronzeVars
<1>4. SilverTypeOK'
  BY <1>2, <1>3 DEF SilverOK, SilverTypeOK
<1>5. /\ pc \in {"dlq_null_op", "dlq_unexpected_op"}
      /\ pc' \in {"dlq_unexpected_op", "validate"}
      /\ crashes' = crashes
  BY DEF SilverDlqNullOp, SilverDlqUnexpectedOp, GoTo, At
<1>6. RunTypeOK' /\ BatchesLeaveNoGap'
  BY <1>3, <1>5 DEF SilverOK, RunTypeOK, BatchesLeaveNoGap, InSilver, Steps
<1> QED
  BY <1>4, <1>6 DEF SilverOK

LEMMA SilverMergeStep ==
    ASSUME SourceOK, BronzeTypeOK, SilverOK, SilverClaims,
           UNCHANGED <<sourceVars, bronzeVars>>,
           SilverMerge \/ SilverNothingToApply
    PROVE  SilverOK' /\ SilverClaims'
<1>1. /\ UNCHANGED <<wal, topic, bronze, dlq, sCkpt, sPlan, sTarget, task, crashes>>
      /\ auxMerged' = sPlan
      /\ task = "silver_transform"
      /\ pc \in {"merge", "validate"}
      /\ pc' = "commit"
  BY DEF SilverMerge, SilverNothingToApply, GoTo, At, sourceVars, bronzeVars
<1>2. sCkpt < sPlan
  BY <1>1 DEF SilverOK, BatchesLeaveNoGap, InSilver
<1>3. /\ SilverBatch \subseteq DOMAIN bronze
      /\ Merged' = Merged \cup SilverBatch
      /\ \A p \in Merged, q \in SilverBatch : p \notin SilverBatch => p < q
  BY <1>1, <1>2, BatchIsMerged DEF SilverOK
<1>4. \A c \in BatchChanges : WellFormed(c)
  BY <1>3, ChangesTyped
<1>5. /\ silver' \in [Keys -> SilverRow \cup {Absent}]
      /\ \A k \in Keys : Untouched(k) \/ \E c \in BatchChanges : TouchedBy(c, k)
  <2>1. CASE SilverMerge
    <3>1. silver' = Merge(silver, BatchChanges) /\ silver \in [Keys -> SilverRow \cup {Absent}]
      BY <2>1 DEF SilverMerge, SilverOK, SilverTypeOK
    <3>2. silver' \in [Keys -> SilverRow \cup {Absent}]
      BY <1>4, <3>1, MergeType
    <3>3. DOMAIN silver = Keys
      BY <3>1
    <3> QED
      BY <3>1, <3>2, <3>3, MergeEffect DEF Untouched, TouchedBy
  <2>2. CASE SilverNothingToApply
    BY <2>2 DEF SilverNothingToApply, SilverOK, SilverTypeOK, Untouched
  <2> QED
    BY <2>1, <2>2
<1>6. SilverTypeOK'
  BY <1>1, <1>5, SilverNumbers DEF SilverOK, SilverTypeOK
<1>7. RunTypeOK' /\ BatchesLeaveNoGap'
  BY <1>1, <1>2, SilverNumbers DEF SilverOK, RunTypeOK, BatchesLeaveNoGap, InSilver, Steps, SilverTypeOK
<1>8. SilverClaims'
  BY <1>1, <1>3, <1>5, ClaimsAfterMerge DEF SilverOK, MergesBatch
<1> QED
  BY <1>6, <1>7, <1>8 DEF SilverOK

LEMMA SilverStep ==
    ASSUME SourceOK, BronzeTypeOK, SilverOK, SilverClaims,
           UNCHANGED <<sourceVars, bronzeVars>>, HistoryGrows, SilverNext
    PROVE  SilverOK' /\ SilverClaims'
<1> USE SilverNumbers
    DEF SilverOK, RunTypeOK, SilverTypeOK, BatchesLeaveNoGap, InSilver, Tasks, Steps,
        At, GoTo, silverVars, bronzeVars
<1>1. CASE SilverStart
  <2>1. SilverOK'
    BY <1>1 DEF SilverStart
  <2> QED
    BY <1>1, <2>1, ClaimsFrame DEF SilverStart
<1>2. CASE SilverResumeBatch
  <2>1. SilverOK'
    BY <1>2 DEF SilverResumeBatch
  <2> QED
    BY <1>2, <2>1, ClaimsFrame DEF SilverResumeBatch
<1>3. CASE SilverPlanBatch
  <2>1. SilverOK'
    BY <1>3 DEF SilverPlanBatch
  <2> QED
    BY <1>3, <2>1, ClaimsFrame DEF SilverPlanBatch
<1>4. CASE SilverDrained
  <2>1. SilverOK'
    BY <1>4 DEF SilverDrained, Succeed
  <2> QED
    BY <1>4, <2>1, ClaimsFrame DEF SilverDrained
<1>5. CASE SilverDlqNullOp \/ SilverDlqUnexpectedOp
  <2>1. SilverOK'
    BY <1>5, SilverDlqStep
  <2> QED
    BY <1>5, <2>1, ClaimsFrame DEF SilverDlqNullOp, SilverDlqUnexpectedOp
<1>6. CASE SilverNothingToApply \/ SilverMerge
  BY <1>6, SilverMergeStep
<1>7. CASE SilverValidate
  <2>1. SilverOK'
    BY <1>7 DEF SilverValidate
  <2> QED
    BY <1>7, <2>1, ClaimsFrame DEF SilverValidate
<1>8. CASE SilverValidateFails
  <2>1. SilverOK'
    BY <1>8 DEF SilverValidateFails, Fail
  <2> QED
    BY <1>8, <2>1, ClaimsFrame DEF SilverValidateFails
<1>9. CASE SilverCommit
  <2>1. SilverOK'
    BY <1>9 DEF SilverCommit
  <2> QED
    BY <1>9, <2>1, ClaimsFrame DEF SilverCommit
<1> QED
  BY <1>1, <1>2, <1>3, <1>4, <1>5, <1>6, <1>7, <1>8, <1>9 DEF SilverNext

\* What another part of the system does while silver's job does not step.
LEMMA SilverFrame ==
    ASSUME BronzeTypeOK, BronzeTypeOK', Extends(bronze, bronze'), SilverOK, RunTypeOK',
           UNCHANGED silverVars,
           UNCHANGED <<task, pc>> \/ task' # "silver_transform" \/ pc' = "start"
    PROVE  SilverOK'
<1>1. Len(bronze) \in Nat /\ Len(bronze') \in Nat /\ Len(bronze) <= Len(bronze')
  BY DEF BronzeTypeOK, Extends
<1>2. SilverTypeOK'
  BY <1>1, SilverNumbers DEF SilverOK, SilverTypeOK, silverVars
<1>3. BatchesLeaveNoGap'
  BY DEF SilverOK, BatchesLeaveNoGap, InSilver, silverVars, Steps
<1> QED
  BY <1>2, <1>3 DEF SilverOK

-----------------------------------------------------------------------------
(***************************************************************************)
(* The gold job.                                                           *)
(***************************************************************************)
LEMMA GoldFrame ==
    ASSUME BronzeTypeOK, BronzeTypeOK', Extends(bronze, bronze'), GoldTypeOK, UNCHANGED goldVars
    PROVE  GoldTypeOK'
<1>1. Len(bronze) \in Nat /\ Len(bronze') \in Nat /\ Len(bronze) <= Len(bronze')
  BY DEF BronzeTypeOK, Extends
<1> QED
  BY <1>1 DEF GoldTypeOK, goldVars

LEMMA GoldStep ==
    ASSUME BronzeTypeOK, SilverTypeOK, GoldOverwrite, UNCHANGED bronzeVars
    PROVE  GoldTypeOK'
<1>1. silver \in [Keys -> SilverRow \cup {Absent}]
  BY DEF SilverTypeOK
<1>2. \A k \in Keys : silver[k] # Absent => silver[k].row \in Rows
  BY <1>1 DEF SilverRow
<1>3. \A g \in Groups : Aggregate(silver)[g] \in SUBSET (Keys \X Rows)
  BY <1>1, <1>2 DEF Aggregate
<1>4. Aggregate(silver) \in [Groups -> SUBSET (Keys \X Rows)]
  BY <1>3 DEF Aggregate
<1>5. auxReported' \in 0..Len(bronze')
  BY DEF GoldOverwrite, SilverTypeOK, bronzeVars
<1> QED
  BY <1>4, <1>5 DEF GoldOverwrite, GoldTypeOK

-----------------------------------------------------------------------------
(***************************************************************************)
(* The whole system.                                                       *)
(***************************************************************************)
LEMMA LossStep ==
    ASSUME IInv, UNCHANGED sourceVars, UNCHANGED goldVars,
           \/ LoseBronzeCheckpoint /\ UNCHANGED silverVars
           \/ LoseSilverCheckpoint /\ UNCHANGED <<bronze, bCkpt, bPlan, bTarget, bSinkDone>>
    PROVE  IInv' /\ HistoryGrows
<1>1. SourceOK' /\ Extends(wal, wal') /\ Extends(topic, topic')
  BY ExtendsRefl DEF IInv, SourceOK, SourceTypeOK, WalOK, TopicOK, sourceVars
<1>2. BronzeTypeOK' /\ UNCHANGED bronze
  <2>1. CASE LoseBronzeCheckpoint
    <3>1. bSinkDone' \in BOOLEAN
      BY <2>1, Zenon DEF LoseBronzeCheckpoint
    <3>2. UNCHANGED <<bronze, bTarget, topic>> /\ bCkpt' = 0 /\ bPlan' = 0 /\ losses' = losses + 1
      BY <2>1 DEF LoseBronzeCheckpoint, sourceVars
    <3>3. Len(topic) \in Nat
      BY DEF IInv, SourceOK, SourceTypeOK
    <3> QED
      BY <3>1, <3>2, <3>3 DEF IInv, BronzeTypeOK
  <2>2. CASE LoseSilverCheckpoint /\ UNCHANGED <<bronze, bCkpt, bPlan, bTarget, bSinkDone>>
    <3>1. losses' \in Nat
      BY <2>2 DEF IInv, LoseSilverCheckpoint, BronzeTypeOK
    <3> QED
      BY <1>1, <2>2, <3>1, BronzeFrame DEF IInv, SourceOK
  <2> QED
    BY <2>1, <2>2
<1>3. Extends(bronze, bronze')
  BY <1>2, ExtendsRefl DEF IInv, BronzeTypeOK
<1>4. RunTypeOK'
  BY DEF IInv, LoseBronzeCheckpoint, LoseSilverCheckpoint, Fail, runVars, SilverOK,
                   RunTypeOK, Tasks, Steps
<1>5. SilverOK' /\ UNCHANGED <<silver, auxMerged>>
  <2>1. CASE LoseBronzeCheckpoint /\ UNCHANGED silverVars
    <3>1. UNCHANGED <<task, pc>> \/ pc' = "start"
      BY <2>1 DEF LoseBronzeCheckpoint, Fail, runVars
    <3> QED
      BY <1>2, <1>3, <1>4, <2>1, <3>1, SilverFrame DEF IInv, silverVars
  <2>2. CASE LoseSilverCheckpoint
    <3>1. UNCHANGED <<silver, dlq, sTarget, auxMerged>> /\ sCkpt' = 0 /\ sPlan' = 0
      BY <2>2 DEF LoseSilverCheckpoint
    <3>2. pc' = "start" \/ task' # "silver_transform"
      BY <2>2 DEF LoseSilverCheckpoint, Fail, runVars
    <3>3. SilverTypeOK'
      BY <1>2, <3>1, SilverNumbers DEF IInv, SilverOK, SilverTypeOK
    <3>4. BatchesLeaveNoGap'
      BY <3>1, <3>2, SilverNumbers DEF IInv, SilverOK, BatchesLeaveNoGap, InSilver
    <3> QED
      BY <1>4, <3>1, <3>3, <3>4 DEF SilverOK
  <2> QED
    BY <2>1, <2>2
<1>6. HistoryGrows
  BY <1>1, <1>3 DEF HistoryGrows
<1>7. SilverClaims'
  BY <1>5, <1>6, ClaimsFrame DEF IInv, SilverOK
<1>8. GoldTypeOK'
  BY <1>2, <1>3, GoldFrame DEF IInv
<1> QED
  BY <1>1, <1>2, <1>5, <1>6, <1>7, <1>8 DEF IInv

LEMMA NextStep ==
    ASSUME IInv, [Next]_vars
    PROVE  IInv' /\ HistoryGrows
<1>1. SourceOK /\ SourceTypeOK /\ RunTypeOK /\ BronzeTypeOK /\ SilverOK /\ SilverTypeOK /\ GoldTypeOK /\ SilverClaims
  BY DEF IInv, SourceOK, SilverOK
<1>2. ASSUME UNCHANGED <<db, wal, sent, flushed, topic, restarts>>
      PROVE  SourceOK' /\ SourceTypeOK' /\ Extends(wal, wal') /\ Extends(topic, topic')
  BY <1>1, <1>2, ExtendsRefl DEF SourceOK, SourceTypeOK, WalOK, TopicOK
<1>3. ASSUME SourceOK', SourceTypeOK', Extends(wal, wal'), Extends(topic, topic'), UNCHANGED bronzeVars
      PROVE  BronzeTypeOK' /\ Extends(bronze, bronze') /\ HistoryGrows
  <2>1. losses' \in Nat
    BY <1>1, <1>3 DEF BronzeTypeOK, bronzeVars
  <2> QED
    BY <1>1, <1>3, <2>1, BronzeFrame DEF bronzeVars, HistoryGrows
<1>4. CASE SourceNext /\ UNCHANGED <<runVars, bronzeVars, silverVars, goldVars>>
  <2>1. SourceOK' /\ SourceTypeOK' /\ Extends(wal, wal') /\ Extends(topic, topic')
    BY <1>1, <1>4, SourceStep DEF SourceOK
  <2>2. BronzeTypeOK' /\ Extends(bronze, bronze') /\ HistoryGrows
    BY <1>3, <1>4, <2>1
  <2>3. SilverOK'
    BY <1>1, <1>4, <2>2, SilverFrame DEF runVars, RunTypeOK
  <2> QED
    BY <1>1, <1>4, <2>1, <2>2, <2>3, ClaimsFrame, GoldFrame DEF IInv, silverVars
<1>5. CASE LoseBronzeCheckpoint /\ UNCHANGED <<sourceVars, silverVars, goldVars>>
  BY <1>5, LossStep
<1>6. CASE /\ LoseSilverCheckpoint
           /\ UNCHANGED <<sourceVars, bronze, bCkpt, bPlan, bTarget, bSinkDone, goldVars>>
  BY <1>6, LossStep
<1>7. CASE (Crash \/ TriggerRun) /\ UNCHANGED <<sourceVars, bronzeVars, silverVars, goldVars>>
  <2>1. SourceOK' /\ SourceTypeOK' /\ Extends(wal, wal') /\ Extends(topic, topic')
    BY <1>2, <1>7 DEF sourceVars
  <2>2. BronzeTypeOK' /\ Extends(bronze, bronze') /\ HistoryGrows
    BY <1>3, <1>7, <2>1
  <2>3. RunTypeOK' /\ pc' = "start"
    BY <1>1, <1>7 DEF Crash, TriggerRun, RunTypeOK, Tasks, Steps
  <2>4. SilverOK'
    BY <1>1, <1>7, <2>2, <2>3, SilverFrame
  <2>5. SilverClaims'
    BY <1>1, <1>7, <2>2, ClaimsFrame DEF silverVars
  <2>6. GoldTypeOK'
    BY <1>1, <1>7, <2>2, GoldFrame
  <2> QED
    BY <2>1, <2>2, <2>4, <2>5, <2>6 DEF IInv
<1>8. CASE BronzeNext /\ UNCHANGED <<sourceVars, silverVars, goldVars>>
  <2>1. SourceOK' /\ SourceTypeOK' /\ Extends(wal, wal') /\ Extends(topic, topic')
    BY <1>2, <1>8 DEF sourceVars
  <2>2. BronzeTypeOK' /\ RunTypeOK' /\ Extends(bronze, bronze')
    BY <1>1, <1>8, BronzeStep
  <2>3. HistoryGrows
    BY <2>1, <2>2 DEF HistoryGrows
  <2>4. task' # "silver_transform" \/ pc' = "start"
    BY <1>8 DEF BronzeNext, BronzeStart, BronzeResumeBatch, BronzePlanBatch, BronzeDrained,
                BronzeAppend, BronzeMaskFails, BronzeCommit, BronzeCheckPasses,
                BronzeCheckFails, At, GoTo, Succeed, Fail
  <2>5. SilverOK'
    BY <1>1, <1>8, <2>2, <2>4, SilverFrame
  <2>6. SilverClaims'
    BY <1>1, <1>8, <2>3, ClaimsFrame DEF silverVars
  <2>7. GoldTypeOK'
    BY <1>1, <1>8, <2>2, GoldFrame
  <2> QED
    BY <2>1, <2>2, <2>3, <2>5, <2>6, <2>7 DEF IInv
<1>9. CASE SilverNext /\ UNCHANGED <<sourceVars, bronzeVars, goldVars>>
  <2>1. SourceOK' /\ SourceTypeOK' /\ Extends(wal, wal') /\ Extends(topic, topic')
    BY <1>2, <1>9 DEF sourceVars
  <2>2. BronzeTypeOK' /\ Extends(bronze, bronze') /\ HistoryGrows
    BY <1>3, <1>9, <2>1
  <2>3. SilverOK' /\ SilverClaims'
    BY <1>1, <1>9, <2>2, SilverStep
  <2>4. GoldTypeOK'
    BY <1>1, <1>9, <2>2, GoldFrame
  <2> QED
    BY <2>1, <2>2, <2>3, <2>4 DEF IInv
<1>10. CASE GoldOverwrite /\ UNCHANGED <<sourceVars, bronzeVars, silverVars>>
  <2>1. SourceOK' /\ SourceTypeOK' /\ Extends(wal, wal') /\ Extends(topic, topic')
    BY <1>2, <1>10 DEF sourceVars
  <2>2. BronzeTypeOK' /\ Extends(bronze, bronze') /\ HistoryGrows
    BY <1>3, <1>10, <2>1
  <2>3. RunTypeOK' /\ pc' = "start"
    BY <1>1, <1>10 DEF GoldOverwrite, Succeed, RunTypeOK, Tasks, Steps
  <2>4. SilverOK'
    BY <1>1, <1>10, <2>2, <2>3, SilverFrame
  <2>5. SilverClaims'
    BY <1>1, <1>10, <2>2, ClaimsFrame DEF silverVars
  <2>6. GoldTypeOK'
    BY <1>1, <1>10, GoldStep
  <2> QED
    BY <2>1, <2>2, <2>4, <2>5, <2>6 DEF IInv
<1>11. CASE UNCHANGED vars
  <2>1. SourceOK' /\ SourceTypeOK' /\ Extends(wal, wal') /\ Extends(topic, topic')
    BY <1>2, <1>11 DEF vars, sourceVars
  <2>2. BronzeTypeOK' /\ Extends(bronze, bronze') /\ HistoryGrows
    BY <1>3, <1>11, <2>1 DEF vars
  <2>3. SilverOK'
    BY <1>1, <1>11, <2>2, SilverFrame DEF vars, runVars, RunTypeOK
  <2>4. SilverClaims'
    BY <1>1, <1>11, <2>2, ClaimsFrame DEF vars, silverVars
  <2>5. GoldTypeOK'
    BY <1>1, <1>11, <2>2, GoldFrame DEF vars
  <2> QED
    BY <2>1, <2>2, <2>3, <2>4, <2>5 DEF IInv
<1> QED
  BY <1>4, <1>5, <1>6, <1>7, <1>8, <1>9, <1>10, <1>11 DEF Next, Environment, Pipeline

LEMMA Inductive == Spec => []IInv
<1>1. Init => IInv
  BY InitOK
<1>2. IInv /\ [Next]_vars => IInv'
  BY NextStep
<1> QED
  BY <1>1, <1>2, PTL DEF Spec

-----------------------------------------------------------------------------
(***************************************************************************)
(* Every variable keeps to its type: in particular, the positions of the   *)
(* topic and of bronze that the jobs' checkpoints and batches name exist,  *)
(* and every row of silver and gold has columns that the source has.       *)
(***************************************************************************)
THEOREM TypeCorrect == Spec => []TypeOK
<1>1. IInv => TypeOK
  BY DEF IInv, TypeOK, SourceOK, SilverOK
<1> QED
  BY <1>1, Inductive, PTL

(***************************************************************************)
(* The batch under way always reaches from the last merged row, or before  *)
(* it, to that row or past it, however often jobs die and checkpoints are  *)
(* lost: no row of bronze is skipped.                                      *)
(***************************************************************************)
THEOREM NoGap == Spec => []BatchesLeaveNoGap
<1>1. IInv => BatchesLeaveNoGap
  BY DEF IInv, SilverOK
<1> QED
  BY <1>1, Inductive, PTL

(***************************************************************************)
(* Silver holds nothing but rows of upserts that were merged.              *)
(***************************************************************************)
THEOREM Provenance == Spec => []RowsComeFromChanges
<1>1. IInv => RowsComeFromChanges
  BY DEF IInv, SilverClaims
<1> QED
  BY <1>1, Inductive, PTL

(***************************************************************************)
(* If the newest change merged for a payment is an upsert, its row is the  *)
(* one silver has, whatever was redelivered, retried or replayed.          *)
(***************************************************************************)
THEOREM NewestUpsertWins == Spec => []NewestUpsertStands
<1>1. IInv => NewestUpsertStands
  BY DEF IInv, SilverClaims
<1> QED
  BY <1>1, Inductive, PTL

(***************************************************************************)
(* If the newest change merged for a payment is a delete that also came    *)
(* last, silver has no row of that payment.                                *)
(***************************************************************************)
THEOREM NewestDeleteWins == Spec => []NewestDeleteStands
<1>1. IInv => NewestDeleteStands
  BY DEF IInv, SilverClaims
<1> QED
  BY <1>1, Inductive, PTL

(***************************************************************************)
(* A row of silver only ever gives way to a change of its payment with a   *)
(* higher LSN.                                                             *)
(***************************************************************************)
LEMMA OnlyMergeChangesSilver ==
    ASSUME Next, silver' # silver
    PROVE  SilverMerge /\ UNCHANGED <<sourceVars, bronzeVars>>
<1> USE DEF silverVars
<1>1. CASE Environment
  BY <1>1 DEF Environment, LoseSilverCheckpoint
<1>2. CASE Pipeline
  BY <1>2 DEF Pipeline, SilverNext, SilverStart, SilverResumeBatch, SilverPlanBatch, SilverDrained,
              SilverDlqNullOp, SilverDlqUnexpectedOp, SilverNothingToApply, SilverValidate,
              SilverValidateFails, SilverCommit
<1> QED
  BY <1>1, <1>2 DEF Next

LEMMA MergeGivesWay ==
    ASSUME IInv, [Next]_vars, NEW k \in Keys, silver[k] # Absent, silver'[k] # silver[k]
    PROVE  GivesWay(k)
<1>1. SourceOK /\ BronzeTypeOK /\ SilverTypeOK /\ SilverOK
  BY DEF IInv, SilverOK
<1>2. SilverMerge /\ UNCHANGED <<sourceVars, bronzeVars>>
  <2>1. silver' # silver
    OBVIOUS
  <2>2. Next
    BY <2>1 DEF vars, silverVars
  <2> QED
    BY <2>1, <2>2, OnlyMergeChangesSilver
<1>3. SilverBatch \subseteq DOMAIN bronze
  BY <1>1 DEF SilverBatch, SilverTypeOK, BronzeTypeOK
<1>4. silver[k] \in SilverRow /\ k \in DOMAIN silver
  BY <1>1 DEF SilverTypeOK
<1>5. PICK c \in BatchChanges : c.key = k /\ silver'[k] = MergeRow(silver[k], c)
  BY <1>2, <1>4, MergeEffect DEF SilverMerge
<1>6. PICK q \in SilverBatch : IsChange(q) /\ c = EventAt(q)
  BY <1>1, <1>3, ChangesTyped
<1>7. WellFormed(c) /\ c.lsn \in DOMAIN wal /\ c.op = wal[c.lsn].op /\ c.row = wal[c.lsn].row
  BY <1>1, <1>3, <1>6, EventTyped
<1>8. wal[c.lsn].key = k
  BY <1>5, <1>6 DEF EventAt
<1>9. silver[k].lsn < c.lsn
  BY <1>4, <1>5, <1>7, MergeOlder DEF SilverRow, WellFormed, EventType
<1>10. silver'[k] = IF c.op = "d" THEN Absent ELSE [lsn |-> c.lsn, row |-> c.row]
  BY <1>4, <1>5, <1>7, <1>9, MergeNewer
<1>11. c.lsn \in (silver[k].lsn + 1)..Len(wal)
  BY <1>1, <1>4, <1>7, <1>9 DEF SourceOK, SourceTypeOK, SilverRow
<1> QED
  BY <1>7, <1>8, <1>10, <1>11 DEF GivesWay

THEOREM SilverNeverRegresses == Spec => NeverRegresses
<1>1. IInv /\ [Next]_vars =>
          [\A k \in Keys : silver[k] # Absent /\ silver'[k] # silver[k] => GivesWay(k)]_vars
  BY MergeGivesWay
<1> QED
  BY <1>1, Inductive, PTL DEF Spec, NeverRegresses
=============================================================================
