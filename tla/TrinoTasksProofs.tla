-------------------------- MODULE TrinoTasksProofs --------------------------
(***************************************************************************)
(* The Trino tasks, for every number of pages and failures.  The invariant *)
(* follows one attempt of a task: what the client knows of the statement   *)
(* under way agrees with the coordinator, and the statements carried out   *)
(* are those of the task's list up to it.                                  *)
(***************************************************************************)
EXTENDS TrinoTasks, TLAPS

\* What a statement is, and the table it is about.
Pairs == {"show_tables", "count", "sum", "optimize", "expire_snapshots", "remove_orphan_files"}
           \X {"bronze", "silver", "gold"}

\* The statements carried out are the first n of the task's.
DoneFirst(n) ==
    /\ Len(done) = n
    /\ \A i \in 1 .. n : done[i] = Statements[task][i]

Attempt ==
    /\ task \in DOMAIN Statements \union {"success", "failed"}
    /\ client \in [state : {"ready", "polling", "returned", "raised"}, pages : Nat]
    /\ sent \in Nat
    /\ done \in Seq(Pairs)
    /\ query.pages \in Nat
    /\ client.pages = query.pages
    /\ client.state # "ready" => Running
    /\ client.state = "ready" => query.pages = 0 /\ DoneFirst(sent)
    /\ client.state = "ready" /\ Running => sent < Len(Statements[task])
    /\ client.state # "ready" => sent \in 1 .. Len(Statements[task])
    /\ client.state = "polling" => DoneFirst(sent - 1)
    /\ client.state = "returned" => query.state = "finished" /\ DoneFirst(sent)

\* Each task has at least one statement, and statements are pairs of names.
LEMMA StatementsType ==
    /\ DOMAIN Statements = {"publish_trino_tables", "validate_trino", "maintain_iceberg"}
    /\ \A t \in DOMAIN Statements :
         /\ Statements[t] \in Seq(Pairs)
         /\ Len(Statements[t]) > 0
<1>1. DOMAIN Statements = {"publish_trino_tables", "validate_trino", "maintain_iceberg"}
  BY DEF Statements
<1>2. Maintenance \in Seq(Pairs) /\ Len(Maintenance) > 0
  <2> DEFINE Of(table) == <<<<"optimize", table>>, <<"expire_snapshots", table>>,
                            <<"remove_orphan_files", table>>>>
  <2>1. /\ Of("bronze") \in Seq(Pairs) /\ Len(Of("bronze")) = 3
        /\ Of("silver") \in Seq(Pairs) /\ Len(Of("silver")) = 3
        /\ Of("gold") \in Seq(Pairs) /\ Len(Of("gold")) = 3
    BY DEF Pairs
  <2>2. Maintenance = Of("bronze") \o Of("silver") \o Of("gold")
    BY DEF Maintenance
  <2> HIDE DEF Of
  <2>3. QED
    BY <2>1, <2>2
<1>3. /\ Statements["publish_trino_tables"] \in Seq(Pairs)
      /\ Len(Statements["publish_trino_tables"]) > 0
      /\ Statements["validate_trino"] \in Seq(Pairs)
      /\ Len(Statements["validate_trino"]) > 0
  BY DEF Statements, Pairs
<1>4. Statements["maintain_iceberg"] = Maintenance
  BY DEF Statements
<1>5. QED
  BY <1>1, <1>2, <1>3, <1>4

\* A page of an answer: what the client takes it for is what the coordinator
\* says, and the statement joins those carried out when it is the last one.
LEMMA PageKept ==
    ASSUME NEW statement, Page(statement), KeepPage,
           query.pages \in Nat, client.pages = query.pages
    PROVE  /\ client'.pages = query'.pages
           /\ query'.pages \in Nat
           /\ \/ client'.state = "returned" /\ query'.state = "finished"
                 /\ done' = Append(done, statement)
              \/ client'.state \in {"polling", "raised"} /\ UNCHANGED done
BY DEF Page, KeepPage, Outcome

\* The next statement of the task's list joins those carried out.
LEMMA DoneGrows ==
    ASSUME Running, UNCHANGED task, NEW n \in 1 .. Len(Statements[task]),
           done \in Seq(Pairs), DoneFirst(n - 1),
           done' = Append(done, Statements[task][n])
    PROVE  done' \in Seq(Pairs) /\ DoneFirst(n)'
<1>1. Statements[task][n] \in Pairs
  BY StatementsType DEF Running
<1>2. QED
  BY <1>1 DEF DoneFirst

\* Posting the n-th statement or polling for it: the attempt stays in order.
LEMMA PageTaken ==
    ASSUME Attempt, Running, UNCHANGED task,
           NEW n \in 1 .. Len(Statements[task]), sent' = n, DoneFirst(n - 1),
           Page(Statements[task][n]), KeepPage
    PROVE  Attempt'
<1>1. /\ client'.pages = query'.pages /\ query'.pages \in Nat
      /\ \/ client'.state = "returned" /\ query'.state = "finished"
            /\ done' = Append(done, Statements[task][n])
         \/ client'.state \in {"polling", "raised"} /\ UNCHANGED done
  BY PageKept DEF Attempt
<1>2. client' \in [state : {"polling", "returned", "raised"}, pages : Nat]
  BY <1>1 DEF KeepPage
<1>3. CASE client'.state = "returned"
  <2>1. done' = Append(done, Statements[task][n]) /\ query'.state = "finished"
    BY <1>1, <1>3
  <2>2. done' \in Seq(Pairs) /\ DoneFirst(n)'
    BY <2>1, DoneGrows DEF Attempt
  <2>3. DoneFirst(sent)'
    BY <2>2 DEF DoneFirst
  <2>4. QED
    BY <1>1, <1>2, <1>3, <2>1, <2>2, <2>3 DEF Attempt, Running
<1>4. CASE client'.state \in {"polling", "raised"}
  <2>1. UNCHANGED done
    BY <1>1, <1>4
  <2>2. DoneFirst(sent - 1)'
    BY <2>1 DEF DoneFirst
  <2>3. QED
    BY <1>1, <1>2, <1>4, <2>1, <2>2 DEF Attempt, Running
<1>5. QED
  BY <1>1, <1>3, <1>4

LEMMA SeqsEqual ==
    ASSUME NEW S, NEW s \in Seq(S), NEW t \in Seq(S),
           Len(s) = Len(t), \A i \in 1 .. Len(t) : s[i] = t[i]
    PROVE  s = t
OBVIOUS

LEMMA AttemptInit == Init => Attempt
BY StatementsType DEF Init, Attempt, DoneFirst, Running

LEMMA AttemptStep == Attempt /\ [Next]_vars => Attempt'
<1> SUFFICES ASSUME Attempt, [Next]_vars PROVE Attempt'
  OBVIOUS
<1> USE DEF Attempt, Running
<1>1. CASE Post
  BY <1>1, PageTaken, sent' \in 1 .. Len(Statements[task]), StatementsType DEF Post
<1>2. CASE Poll
  BY <1>2, PageTaken DEF Poll
<1>3. CASE ConnectionBreaks
  <2>1. Statements[task][sent] \in Pairs
    BY <1>3, StatementsType DEF ConnectionBreaks
  <2>2. client' = [state |-> "raised", pages |-> client.pages] /\ UNCHANGED <<task, sent, query>>
    BY <1>3 DEF ConnectionBreaks
  <2>3. done' \in Seq(Pairs)
    <3>1. done' = done \/ done' = Append(done, Statements[task][sent])
      BY <1>3, Zenon DEF ConnectionBreaks
    <3>2. QED
      BY <2>1, <3>1
  <2>4. Running /\ sent \in 1 .. Len(Statements[task])
    BY <1>3 DEF ConnectionBreaks
  <2>5. QED
    BY <2>2, <2>3, <2>4
<1>4. CASE NextStatement
  <2>1. client' = [state |-> "ready", pages |-> 0] /\ query'.pages = 0
    BY <1>4 DEF NextStatement, Fresh
  <2>2. UNCHANGED <<task, sent, done>> /\ sent < Len(Statements[task]) /\ DoneFirst(sent)
    BY <1>4 DEF NextStatement
  <2>3. DoneFirst(sent)'
    BY <2>2 DEF DoneFirst
  <2>4. QED
    BY <2>1, <2>2, <2>3
<1>5. ASSUME TaskSucceeds \/ TaskFails PROVE Attempt'
  <2>1. client' = [state |-> "ready", pages |-> 0] /\ query'.pages = 0
    BY <1>5 DEF TaskSucceeds, TaskFails, Fresh
  <2>2. done' = <<>> /\ sent' = 0
    BY <1>5 DEF TaskSucceeds, TaskFails
  <2>3. task' \in DOMAIN Statements \union {"success", "failed"}
    BY <1>5, StatementsType DEF TaskSucceeds, TaskFails, NextTask
  <2>4. DoneFirst(sent)' /\ done' \in Seq(Pairs)
    BY <2>2 DEF DoneFirst
  <2>5. QED
    BY <2>1, <2>2, <2>3, <2>4, StatementsType
<1>6. CASE SilverByHand
  BY <1>6 DEF SilverByHand, DoneFirst
<1>7. CASE UNCHANGED vars
  BY <1>7 DEF vars, DoneFirst
<1>8. QED
  BY <1>1, <1>2, <1>3, <1>4, <1>5, <1>6, <1>7 DEF Next

\* run_statement returns only for a query that finished, with all its pages.
THEOREM StatementsReturnFinished == Spec => []ReturnedMeansFinished
<1>1. Attempt => ReturnedMeansFinished
  BY DEF Attempt, ReturnedMeansFinished
<1>2. QED
  BY <1>1, AttemptInit, AttemptStep, PTL DEF Spec

\* A task succeeds only when the attempt has carried out all its statements.
THEOREM TasksDoAllTheirStatements == Spec => SucceedsMeansAllDone
<1>1. Attempt /\ [Next]_vars => [task' # task /\ task' # "failed" => done = Statements[task]]_vars
  <2> SUFFICES ASSUME Attempt, [Next]_vars, task' # task, task' # "failed"
               PROVE  done = Statements[task]
    OBVIOUS
  <2>1. TaskSucceeds
    BY DEF Next, Post, Poll, ConnectionBreaks, NextStatement, TaskFails, SilverByHand, vars
  <2>2. DoneFirst(Len(Statements[task])) /\ done \in Seq(Pairs) /\ Running
    BY <2>1 DEF TaskSucceeds, Attempt
  <2>3. QED
    <3>1. Statements[task] \in Seq(Pairs)
      BY <2>2, StatementsType DEF Running
    <3>2. QED
      BY <2>2, <3>1, SeqsEqual DEF DoneFirst
<1>2. QED
  BY <1>1, AttemptInit, AttemptStep, PTL DEF Spec, SucceedsMeansAllDone

(***************************************************************************)
(* Type correctness: that an answer never has more than MaxPages pages     *)
(* needs that a query is still running while the client polls it, and that *)
(* the statements carried out begin the task's list needs the attempt.     *)
(***************************************************************************)
QueryStates == {"none", "running", "finished", "failed"}

ClientStates == {"ready", "polling", "returned", "raised"}

\* An answer that goes on has room for one more page.
PagesLeft ==
    /\ query \in [state : QueryStates, pages : 0 .. MaxPages]
    /\ client.state = "polling" => query.pages < MaxPages

Counted ==
    /\ silver \in Nat /\ gold \in Nat /\ fails \in Nat
    /\ tries \in 0 .. 3

DoneInOrder ==
    done # <<>> => Running /\ \E n \in 0 .. Len(Statements[task]) : DoneFirst(n)

TypeInv == Attempt /\ PagesLeft /\ Counted /\ DoneInOrder

LEMMA TypeInvInit == Init => TypeInv
BY AttemptInit, TrinoAssumption
   DEF Init, TypeInv, PagesLeft, Counted, DoneInOrder, QueryStates, TrinoAssumption

LEMMA PagesLeftStep ==
    ASSUME Attempt, PagesLeft, [Next]_vars
    PROVE  PagesLeft'
<1> USE TrinoAssumption DEF PagesLeft, QueryStates, TrinoAssumption
<1>1. ASSUME NEW statement, Page(statement), KeepPage, client.state \in {"ready", "polling"}
      PROVE  PagesLeft'
  <2>1. query.pages \in 0 .. MaxPages /\ query.pages < MaxPages
    BY <1>1 DEF Attempt
  <2>2. \/ query' = [state |-> "running", pages |-> query.pages + 1] /\ query.pages + 1 < MaxPages
        \/ query' = [state |-> "finished", pages |-> query.pages + 1]
        \/ query' = [state |-> "failed", pages |-> query.pages + 1]
    BY <1>1 DEF Page
  <2>3. client'.state = Outcome[query'.state]
    BY <1>1 DEF KeepPage
  <2> QED
    BY <2>1, <2>2, <2>3 DEF Outcome
<1>2. CASE Post \/ Poll
  BY <1>1, <1>2 DEF Post, Poll
<1>3. CASE ConnectionBreaks
  BY <1>3 DEF ConnectionBreaks
<1>4. CASE NextStatement \/ TaskSucceeds \/ TaskFails
  BY <1>4 DEF NextStatement, TaskSucceeds, TaskFails, Fresh
<1>5. CASE SilverByHand \/ UNCHANGED vars
  BY <1>5 DEF SilverByHand, vars
<1> QED
  BY <1>2, <1>3, <1>4, <1>5 DEF Next

LEMMA CountedStep ==
    ASSUME Attempt, Counted, [Next]_vars
    PROVE  Counted'
<1> USE TrinoAssumption DEF Counted, TrinoAssumption
<1>1. CASE Post \/ Poll
  BY <1>1 DEF Post, Poll, Page
<1>2. CASE ConnectionBreaks
  BY <1>2 DEF ConnectionBreaks
<1>3. CASE NextStatement \/ TaskSucceeds
  BY <1>3 DEF NextStatement, TaskSucceeds
<1>4. CASE TaskFails
  <2>1. task \in {"publish_trino_tables", "validate_trino", "maintain_iceberg"}
    BY <1>4, StatementsType DEF TaskFails, Attempt, Running
  <2>2. Retries[task] \in 0 .. 3
    BY <2>1 DEF Retries
  <2> QED
    BY <1>4, <2>2 DEF TaskFails
<1>5. CASE SilverByHand \/ UNCHANGED vars
  BY <1>5 DEF SilverByHand, vars
<1> QED
  BY <1>1, <1>2, <1>3, <1>4, <1>5 DEF Next

LEMMA DoneInOrderStep ==
    ASSUME Attempt, Attempt', DoneInOrder, [Next]_vars
    PROVE  DoneInOrder'
<1>1. CASE Post \/ Poll \/ ConnectionBreaks
  <2>1. /\ Running /\ UNCHANGED task /\ sent' \in 1 .. Len(Statements[task])
        /\ DoneFirst(sent' - 1)
    <3>1. CASE Post
      <4>1. Running /\ client.state = "ready" /\ sent' = sent + 1 /\ UNCHANGED task
        BY <3>1 DEF Post
      <4>2. sent \in Nat /\ sent < Len(Statements[task]) /\ DoneFirst(sent)
        BY <4>1 DEF Attempt
      <4>3. sent' - 1 = sent
        BY <4>1, <4>2
      <4> QED
        BY <4>1, <4>2, <4>3, StatementsType DEF Running
    <3>2. CASE Poll \/ ConnectionBreaks
      BY <3>2 DEF Poll, ConnectionBreaks, Attempt
    <3> QED
      BY <1>1, <3>1, <3>2
  <2>2. PICK n \in 1 .. Len(Statements[task]) : sent' = n /\ DoneFirst(n - 1)
    BY <2>1
  <2>3. done' = done \/ done' = Append(done, Statements[task][n])
    BY <1>1, <2>2 DEF Post, Poll, ConnectionBreaks, Page
  <2>4. CASE done' = done
    <3>1. DoneFirst(n - 1)'
      BY <2>1, <2>2, <2>4 DEF DoneFirst
    <3>2. n - 1 \in 0 .. Len(Statements[task])
      BY <2>1, StatementsType DEF Running
    <3> QED
      BY <2>1, <3>1, <3>2, Zenon DEF DoneInOrder, Running
  <2>5. CASE done' = Append(done, Statements[task][n])
    <3>1. DoneFirst(n)'
      BY <2>1, <2>2, <2>5, DoneGrows DEF Attempt
    <3>2. n \in 0 .. Len(Statements[task])
      BY <2>1, StatementsType DEF Running
    <3> QED
      BY <2>1, <3>1, <3>2, Zenon DEF DoneInOrder, Running
  <2> QED
    BY <2>3, <2>4, <2>5
<1>2. CASE NextStatement \/ SilverByHand \/ UNCHANGED vars
  <2>1. UNCHANGED <<done, task>>
    BY <1>2 DEF NextStatement, SilverByHand, vars
  <2> QED
    BY <2>1 DEF DoneInOrder, DoneFirst, Running
<1>3. CASE TaskSucceeds \/ TaskFails
  BY <1>3 DEF TaskSucceeds, TaskFails, DoneInOrder
<1> QED
  BY <1>1, <1>2, <1>3 DEF Next

LEMMA ThreeLengths ==
    ASSUME NEW S, NEW a \in Seq(S), NEW b \in Seq(S), NEW c \in Seq(S)
    PROVE  Len((a \o b) \o c) = Len(a) + Len(b) + Len(c)
OBVIOUS

LEMMA TypeInvTyped == TypeInv => TypeOK
<1> SUFFICES ASSUME TypeInv PROVE TypeOK
  OBVIOUS
<1>1. sent \in 0 .. 9
  <2>1. \A t \in DOMAIN Statements : Len(Statements[t]) \in Nat /\ Len(Statements[t]) <= 9
    <3> DEFINE Of(table) == <<<<"optimize", table>>, <<"expire_snapshots", table>>,
                              <<"remove_orphan_files", table>>>>
    <3>1. Of("bronze") \in Seq(Pairs) /\ Of("silver") \in Seq(Pairs) /\ Of("gold") \in Seq(Pairs)
      BY DEF Pairs
    <3>2. Len(Of("bronze")) = 3 /\ Len(Of("silver")) = 3 /\ Len(Of("gold")) = 3
      OBVIOUS
    <3>3. Statements["maintain_iceberg"] = Of("bronze") \o Of("silver") \o Of("gold")
      BY DEF Statements, Maintenance
    <3> HIDE DEF Of
    <3>4. Len(Statements["maintain_iceberg"]) = 9
      <4>1. PICK a \in Seq(Pairs), b \in Seq(Pairs), c \in Seq(Pairs) :
              /\ Len(a) = 3 /\ Len(b) = 3 /\ Len(c) = 3
              /\ Statements["maintain_iceberg"] = (a \o b) \o c
        BY <3>1, <3>2, <3>3, Zenon
      <4>2. Len((a \o b) \o c) = Len(a) + Len(b) + Len(c)
        BY ThreeLengths
      <4> QED
        BY <4>1, <4>2
    <3> DEFINE Short(t) == Len(Statements[t]) \in Nat /\ Len(Statements[t]) <= 9
    <3>5. Short("maintain_iceberg")
      BY <3>4
    <3>6. Short("publish_trino_tables")
      BY DEF Statements
    <3>7. Short("validate_trino")
      BY DEF Statements
    <3> HIDE DEF Short
    <3>8. DOMAIN Statements = {"publish_trino_tables", "validate_trino", "maintain_iceberg"}
      BY StatementsType
    <3>9. \A t \in DOMAIN Statements : Short(t)
      BY <3>5, <3>6, <3>7, <3>8, Zenon
    <3> QED
      BY <3>9 DEF Short
  <2>2. sent # 0 => Running /\ sent \in 1 .. Len(Statements[task])
    <3>1. CASE client.state = "ready"
      <4>1. sent # 0 => done # <<>>
        BY <3>1 DEF TypeInv, Attempt, DoneFirst
      <4>2. sent # 0 => Running
        BY <4>1 DEF TypeInv, DoneInOrder
      <4> QED
        BY <3>1, <4>2, StatementsType DEF TypeInv, Attempt, Running
    <3> QED
      BY <3>1 DEF TypeInv, Attempt
  <2> QED
    BY <2>1, <2>2 DEF TypeInv, Attempt, Running
<1>2. client \in [state : ClientStates, pages : 0 .. MaxPages]
  BY TrinoAssumption DEF TypeInv, Attempt, PagesLeft, ClientStates
<1>3. done = <<>> \/ (Running /\ IsPrefix(done, Statements[task]))
  <2> SUFFICES ASSUME done # <<>> PROVE Running /\ IsPrefix(done, Statements[task])
    OBVIOUS
  <2>1. PICK n \in 0 .. Len(Statements[task]) : Running /\ DoneFirst(n)
    BY DEF TypeInv, DoneInOrder
  <2>2. /\ done \in Seq(Pairs) /\ Statements[task] \in Seq(Pairs)
        /\ Len(done) = n /\ n <= Len(Statements[task])
        /\ \A i \in 1 .. n : done[i] = Statements[task][i]
    BY <2>1, StatementsType DEF TypeInv, Attempt, DoneFirst, Running
  <2>3. SubSeq(done, 1, n) = SubSeq(Statements[task], 1, n)
    BY <2>2
  <2> QED
    BY <2>1, <2>2, <2>3 DEF IsPrefix
<1> QED
  BY <1>1, <1>2, <1>3
     DEF TypeInv, TypeOK, PagesLeft, Counted, Attempt, QueryStates, ClientStates

\* The type invariant, for any number of pages and failures.
THEOREM TrinoTypeCorrect == Spec => []TypeOK
<1>1. TypeInv /\ [Next]_vars => TypeInv'
  BY AttemptStep, PagesLeftStep, CountedStep, DoneInOrderStep DEF TypeInv
<1> QED
  BY <1>1, TypeInvInit, TypeInvTyped, PTL DEF Spec
=============================================================================
