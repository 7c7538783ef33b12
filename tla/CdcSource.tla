----------------------------- MODULE CdcSource -----------------------------
(***************************************************************************)
(* What the lakehouse reads: the payments table of the source Postgres,    *)
(* its WAL, the Debezium connector (config/connect/postgres-cdc.json) and  *)
(* the Kafka topic cdc.public.payments.  These programs are not in the     *)
(* repository; they are modelled from what the code relies on.             *)
(*                                                                         *)
(* The LSN of a change is its index in the WAL.  A payment's columns are   *)
(* one value of Rows: nothing downstream tells more apart than whether     *)
(* they pass silver's data-quality rules and which gold group they fall    *)
(* in.  The connector delivers at least once: it publishes the WAL in      *)
(* order, flushes its offset now and then, and after a restart publishes   *)
(* again everything past the flushed offset, under new Kafka offsets.      *)
(***************************************************************************)
EXTENDS CdcChanges, Sequences, FiniteSets

CONSTANTS OtherKinds,   \* records that are no change of a payment
          MaxWal,       \* bound: changes made to the source table
          MaxOthers,    \* bound: records of OtherKinds in the topic
          MaxRestarts   \* bound: connector restarts

\* "change" is a Debezium envelope of a payment.  The others: a JSON record
\* without "op" or no JSON at all ("null_op"), an operation silver does not
\* know, such as a truncate ("unexpected_op"), a null-valued "tombstone", and a
\* value that is JSON but no object ("non_object").
AllOtherKinds == {"null_op", "unexpected_op", "tombstone", "non_object"}

ASSUME SourceBoundsAssumption ==
    /\ OtherKinds \subseteq AllOtherKinds
    /\ {MaxWal, MaxOthers, MaxRestarts} \subseteq Nat

VARIABLES db,         \* the payments table
          wal,        \* the changes committed to it, in order
          sent,       \* the connector has published wal[1..sent]
          flushed,    \* the offset the connector restarts from
          topic,      \* the Kafka topic, position = offset
          restarts

sourceVars == <<db, wal, sent, flushed, topic, restarts>>

Change == [op : Ops, key : Keys, row : Rows \cup {Absent}]
Record == [kind : {"change"} \cup AllOtherKinds, lsn : Nat]

SourceTypeOK ==
    /\ db \in [Keys -> Rows \cup {Absent}]
    /\ wal \in Seq(Change)
    /\ sent \in 0..Len(wal)
    /\ flushed \in 0..sent
    /\ topic \in Seq(Record)
    /\ restarts \in Nat

SourceInit ==
    /\ db = [k \in Keys |-> Absent]
    /\ wal = << >>
    /\ sent = 0
    /\ flushed = 0
    /\ topic = << >>
    /\ restarts = 0

Write(op, k, r) ==
    /\ Len(wal) < MaxWal
    /\ db' = [db EXCEPT ![k] = r]
    /\ wal' = Append(wal, [op |-> op, key |-> k, row |-> r])
    /\ UNCHANGED <<sent, flushed, topic, restarts>>

InsertPayment(k, r) == db[k] = Absent /\ Write("c", k, r)
UpdatePayment(k, r) == db[k] # Absent /\ Write("u", k, r)
DeletePayment(k)    == db[k] # Absent /\ Write("d", k, Absent)

Publish ==
    /\ sent < Len(wal)
    /\ topic' = Append(topic, [kind |-> "change", lsn |-> sent + 1])
    /\ sent' = sent + 1
    /\ UNCHANGED <<db, wal, flushed, restarts>>

FlushOffset ==
    /\ flushed < sent
    /\ flushed' = sent
    /\ UNCHANGED <<db, wal, sent, topic, restarts>>

\* What was published past the flushed offset is published again.
RestartConnector ==
    /\ restarts < MaxRestarts
    /\ flushed < sent
    /\ sent' = flushed
    /\ restarts' = restarts + 1
    /\ UNCHANGED <<db, wal, flushed, topic>>

Others == {o \in DOMAIN topic : topic[o].kind # "change"}

PublishOther(kind) ==
    /\ Cardinality(Others) < MaxOthers
    /\ topic' = Append(topic, [kind |-> kind, lsn |-> 0])
    /\ UNCHANGED <<db, wal, sent, flushed, restarts>>

SourceNext ==
    \/ \E k \in Keys : \/ \E r \in Rows : InsertPayment(k, r) \/ UpdatePayment(k, r)
                       \/ DeletePayment(k)
    \/ Publish
    \/ FlushOffset
    \/ RestartConnector
    \/ \E kind \in OtherKinds : PublishOther(kind)
=============================================================================
