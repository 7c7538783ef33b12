------------------------------- MODULE GoldApi -------------------------------
(***************************************************************************)
(* The gold serving API (api/src/app.py, queries.py, models.py) with the   *)
(* console that reads it (console.html).  Requests run in a thread pool:   *)
(* each looks up the newest snapshot id, asks the cache under that id and  *)
(* on a miss queries the table, which may have moved on.  The table is     *)
(* rewritten by the gold job and by maintenance; Trino may be away.        *)
(*                                                                         *)
(* A gold row is its position in SORT_KEYS order; a value is named by the  *)
(* request it answers and the snapshot it was read from.  A filter is one  *)
(* combination of start, end, country_code and payment_method: the rows it *)
(* lets through, and the text it leaves in the cache key, which others may *)
(* leave as well.  All requests have one limit, and a cursor is one that   *)
(* the API gave out.                                                       *)
(***************************************************************************)
EXTENDS SnapshotCache, FiniteSets

CONSTANTS Clients,      \* threads of the pool that serve API clients
          Console,      \* threads of the pool that serve the console
          NRows,        \* gold rows there can be: 1 .. NRows
          Filters,      \* combinations of the filter parameters
          NoFilter,     \* the one in which all of them are None
          FormFilters,  \* those the console can send: it leaves out blank fields
          Selects,      \* the rows a filter lets through
          KeyText,      \* a filter that is spelled like this one in a cache key
          ClientRequests,  \* those that API clients send
          Limit,        \* page size
          MaxCommits,   \* bound: snapshots of the gold table
          MaxOutages,   \* bound: times Trino goes away
          MaxImpatient  \* bound: console loads begun while one is under way

ASSUME ApiAssumption ==
    /\ Clients \intersect Console = {}
    /\ NRows \in Nat /\ MaxCommits \in Nat /\ MaxOutages \in Nat
    /\ Limit \in Nat \ {0}
    /\ MaxImpatient \in Nat

GoldRows == 1 .. NRows

Requests == [endpoint : {"hourly"}, filter : Filters, after : 0 .. NRows]
              \union [endpoint : {"summary"}, filter : Filters, after : {0}]

Hourly(filter, after) == [endpoint |-> "hourly", filter |-> filter, after |-> after]

ASSUME FilterAssumption ==
    /\ NoFilter \in Filters /\ FormFilters \subseteq Filters
    /\ Selects \in [Filters -> SUBSET GoldRows] /\ Selects[NoFilter] = GoldRows
    /\ KeyText \in [Filters -> Filters]
    /\ ClientRequests \subseteq Requests

VARIABLES snapshots,   \* Iceberg snapshots: [data: its version, rows]
          trinoUp, outages,
          call,        \* per thread, the request it serves
          console,     \* the page: rows listed, cursor, "Load more", loads under way
          served,      \* the pod is among the endpoints of its Service
          probed       \* body of the last readiness probe's answer

tableVars == <<snapshots, trinoUp, outages>>
podVars == <<served, probed>>
vars == <<cacheVars, tableVars, call, console, podVars>>

Threads == Clients \union Console

Newest == Len(snapshots)

DataAt(id) == IF id = 0 THEN 0 ELSE snapshots[id].data

RowsAt(id) == IF id = 0 THEN {} ELSE snapshots[id].rows

Idle == [step |-> "idle", request |-> Hourly(NoFilter, 0), console |-> FALSE, since |-> 0,
         id |-> 0, value |-> [request |-> Hourly(NoFilter, 0), from |-> 0]]

Values == [request : Requests, from : Nat]

TypeOK ==
    /\ snapshots \in Seq([data : Nat, rows : SUBSET GoldRows])
    /\ trinoUp \in BOOLEAN /\ outages \in Nat
    /\ cacheId \in 0 .. Newest
    /\ entries \in Seq([key : Requests, value : Values])
    /\ Len(entries) <= MaxEntries
    /\ call \in [Threads -> [step : {"idle", "received", "known", "missed", "read", "reply"},
                             request : Requests, console : BOOLEAN, since : Nat,
                             id : Nat, value : Values]]
    /\ console \in [listed : Seq(GoldRows), cursor : 0 .. NRows, more : BOOLEAN,
                    loading : Nat, stable : SUBSET GoldRows, impatient : Nat]
    /\ served \in BOOLEAN
    /\ probed \in {"ok", "degraded"}

\* console.stable is for the properties: rows in the table since the reset that
\* every filter of the form since then lets through.
Init ==
    /\ CacheInit
    /\ snapshots = <<>> /\ trinoUp = TRUE /\ outages = 0
    /\ call = [t \in Threads |-> Idle]
    /\ console = [listed |-> <<>>, cursor |-> 0, more |-> FALSE, loading |-> 0,
                  stable |-> {}, impatient |-> 0]
    /\ served = TRUE /\ probed = "ok"

(***************************************************************************)
(* The gold table and Trino.                                               *)
(***************************************************************************)
Commit(data, rows) ==
    /\ Newest < MaxCommits
    /\ snapshots' = Append(snapshots, [data |-> data, rows |-> rows])
    /\ console' = [console EXCEPT !.stable = @ \intersect rows]
    /\ UNCHANGED <<cacheVars, trinoUp, outages, call, podVars>>

\* The gold job overwrites the table; optimize rewrites its files only.
GoldJobCommits == \E rows \in SUBSET GoldRows : Commit(DataAt(Newest) + 1, rows)

OptimizeCommits == Newest > 0 /\ Commit(DataAt(Newest), RowsAt(Newest))

TrinoGoes ==
    /\ trinoUp /\ outages < MaxOutages
    /\ trinoUp' = FALSE /\ outages' = outages + 1
    /\ UNCHANGED <<cacheVars, snapshots, call, console, podVars>>

TrinoReturns ==
    /\ ~trinoUp /\ trinoUp' = TRUE
    /\ UNCHANGED <<cacheVars, snapshots, outages, call, console, podVars>>

(***************************************************************************)
(* One request: hourly_metrics and metrics_summary.                        *)
(***************************************************************************)
\* Rows of the table that a request's filter lets through.
Matching(request, from) == RowsAt(from) \intersect Selects[request.filter]

\* Mutant: the keyset predicate includes the cursor's row.
MutantAnswer(request, from) ==
    LET rows == Matching(request, from)
    IN  IF request.endpoint = "summary" THEN rows
        ELSE {r \in rows :
                /\ r >= request.after
                /\ Cardinality({q \in rows : request.after <= q /\ q < r}) <= Limit}

\* Rows a query returns: those after the cursor, one more than the limit.
Answer(request, from) ==
    LET rows == Matching(request, from)
    IN  IF request.endpoint = "summary" THEN rows
        ELSE {r \in rows :
                /\ r > request.after
                /\ Cardinality({q \in rows : request.after < q /\ q < r}) <= Limit}

\* Mutant: the cursor is left out of the key.
MutantCacheKey(request) == [request EXCEPT !.filter = KeyText[@], !.after = 0]

\* The fields joined with "|", None and "" alike.
CacheKey(request) == [request EXCEPT !.filter = KeyText[@]]

Receive(t, request, isConsole) ==
    /\ call[t].step = "idle"
    /\ call' = [call EXCEPT ![t] = [Idle EXCEPT !.step = "received", !.request = request,
                                                !.console = isConsole,
                                                !.since = DataAt(Newest)]]
    /\ UNCHANGED <<cacheVars, tableVars, podVars>>

CurrentSnapshot(t) ==
    /\ call[t].step = "received" /\ trinoUp
    /\ call' = [call EXCEPT ![t].step = "known", ![t].id = Newest]
    /\ UNCHANGED <<cacheVars, tableVars, console, podVars>>

AskCache(t) ==
    LET key == CacheKey(call[t].request)
    IN  /\ call[t].step = "known"
        /\ IF Hit(call[t].id, key)
           THEN call' = [call EXCEPT ![t].step = "reply", ![t].value = EntryOf(key).value]
           ELSE call' = [call EXCEPT ![t].step = "missed"]
        /\ Get(call[t].id, key)
        /\ UNCHANGED <<tableVars, console, podVars>>

Query(t) ==
    /\ call[t].step = "missed" /\ trinoUp
    /\ call' = [call EXCEPT ![t].step = "read",
                            ![t].value = [request |-> call[t].request, from |-> Newest]]
    /\ UNCHANGED <<cacheVars, tableVars, console, podVars>>

FillCache(t) ==
    /\ call[t].step = "read"
    /\ Put(call[t].id, CacheKey(call[t].request), call[t].value)
    /\ call' = [call EXCEPT ![t].step = "reply"]
    /\ UNCHANGED <<tableVars, console, podVars>>

\* Lowest and highest of a set of rows, the k lowest of them.
Lowest(rows, k) == {r \in rows : Cardinality({q \in rows : q < r}) < k}

InOrder(rows) == [i \in 1 .. Cardinality(rows) |->
                    CHOOSE r \in rows : Cardinality({q \in rows : q < r}) = i - 1]

\* Mutant: the cursor is taken from the extra row that signals more.
MutantNextCursor(rows) ==
    LET last == {r \in rows : /\ Cardinality(rows) > Limit
                              /\ Cardinality({q \in rows : q <= r}) = Limit + 1}
    IN  IF last = {} THEN 0 ELSE CHOOSE r \in last : TRUE

\* next_cursor of the page: its last row if there is one more, 0 for null.
NextCursor(rows) ==
    LET last == {r \in rows : /\ Cardinality(rows) > Limit
                              /\ Cardinality({q \in rows : q <= r}) = Limit}
    IN  IF last = {} THEN 0 ELSE CHOOSE r \in last : TRUE

\* The answer reaches the client; the console appends what it got.
Reply(t) ==
    LET rows == Answer(call[t].value.request, call[t].value.from)
    IN  /\ call[t].step = "reply"
        /\ call' = [call EXCEPT ![t] = Idle]
        /\ console' = IF ~call[t].console THEN console
                      ELSE [console EXCEPT !.listed = @ \o InOrder(Lowest(rows, Limit)),
                                           !.cursor = NextCursor(rows),
                                           !.more = NextCursor(rows) # 0,
                                           !.loading = @ - 1]
        /\ UNCHANGED <<cacheVars, tableVars, podVars>>

\* Trino does not answer: HTTP 500.  The console shows the error and keeps
\* "Load more" disabled.
Fail(t) ==
    /\ call[t].step \in {"received", "missed"} /\ ~trinoUp
    /\ call' = [call EXCEPT ![t] = Idle]
    /\ console' = IF call[t].console THEN [console EXCEPT !.loading = @ - 1] ELSE console
    /\ UNCHANGED <<cacheVars, tableVars, podVars>>

(***************************************************************************)
(* Clients: any request, and the console's load(reset) and load(false).    *)
(***************************************************************************)
ClientCalls(t) ==
    /\ \E request \in ClientRequests : Receive(t, request, FALSE)
    /\ UNCHANGED console

\* Nothing disables the form: a reset may overlap a load that is under way.
ConsoleReset(t) ==
    /\ console.loading = 0 \/ console.impatient < MaxImpatient
    /\ \E filter \in FormFilters :
         /\ Receive(t, Hourly(filter, 0), TRUE)
         /\ console' = [listed |-> <<>>, cursor |-> 0, more |-> FALSE,
                        loading |-> console.loading + 1,
                        stable |-> RowsAt(Newest) \intersect Selects[filter],
                        impatient |-> console.impatient + (IF console.loading > 0 THEN 1 ELSE 0)]

\* The form is read again: with the cursor goes the filter as it is now.
ConsoleMore(t) ==
    /\ console.more
    /\ \E filter \in FormFilters :
         /\ Receive(t, Hourly(filter, console.cursor), TRUE)
         /\ console' = [console EXCEPT !.more = FALSE, !.loading = @ + 1,
                                       !.stable = @ \intersect Selects[filter]]

(***************************************************************************)
(* The readiness probe: /v1/ready answers 200 whatever it found out.       *)
(***************************************************************************)
ReadyStatus == 200

Probe ==
    /\ probed' = IF trinoUp THEN "ok" ELSE "degraded"
    /\ served' = (ReadyStatus = 200)
    /\ UNCHANGED <<cacheVars, tableVars, call, console>>

Table == GoldJobCommits \/ OptimizeCommits \/ TrinoGoes \/ TrinoReturns

Serve(t) == CurrentSnapshot(t) \/ AskCache(t) \/ Query(t) \/ FillCache(t) \/ Reply(t) \/ Fail(t)

Call ==
    \/ \E t \in Clients : ClientCalls(t)
    \/ \E t \in Console : ConsoleReset(t) \/ ConsoleMore(t)

Next == Table \/ Probe \/ Call \/ \E t \in Threads : Serve(t)

Spec == Init /\ [][Next]_vars

(***************************************************************************)
(* Properties.                                                             *)
(***************************************************************************)
\* No answer is older than the table was when its request came in, cached or
\* not, whatever requests with other snapshot ids do to the cache meanwhile
\* (cache.py: "a stale value can never be returned").
AnswersAreFresh ==
    \A t \in Threads : call[t].step = "reply" => DataAt(call[t].value.from) >= call[t].since

\* Cache keys tell endpoints and pages apart, and filters that are spelled
\* differently: an answer from the cache was built for a request that differs
\* from this one at most by a filter that is spelled alike.
AnswersFit ==
    \A t \in Threads : call[t].step = "reply" =>
      LET built == call[t].value.request
          asked == call[t].request
      IN  /\ built.endpoint = asked.endpoint /\ built.after = asked.after
          /\ KeyText[built.filter] = KeyText[asked.filter]

\* A request without filters is answered with all rows (queries.py: None means
\* "do not constrain").  Not checked by a run: see README, Known disagreements.
NoneMeansUnconstrained ==
    \A t \in Threads :
      call[t].step = "reply" /\ call[t].request.filter = NoFilter =>
        Answer(call[t].value.request, call[t].value.from)
          = Answer(call[t].request, call[t].value.from)

\* The console lists rows in order and none twice, over pages that were read
\* from different snapshots.
ListedInOrder ==
    \A i, j \in DOMAIN console.listed : i < j => console.listed[i] < console.listed[j]

\* At the end of the results no row is missing that was in the table all the
\* time since the first page was asked for (keyset cursor, has_more row) and that
\* all filters of the form since then let through.  For a console that waits for
\* its answers, and filters of the form that no other filter is spelled like.
WalkMissesNothing ==
    [][\A t \in Threads :
         call[t].step = "reply" /\ call[t].console /\ call'[t].step = "idle"
           /\ console'.loading = 0 /\ ~console'.more =>
         \A r \in console'.stable : \E i \in DOMAIN console'.listed : console'.listed[i] = r]_vars

\* A page is read from the snapshot it names (models.py, snapshot_id).
PageIsOfItsSnapshot ==
    \A t \in Threads : call[t].step = "reply" => call[t].value.from = call[t].id

\* While the table stays at a snapshot, entries of that snapshot are dropped
\* only for lack of room (cache.py, "it never expires early").  Not checked by
\* a run: see README, Known disagreements.
NeverExpiresEarly ==
    [][\A i \in DOMAIN entries :
         /\ cacheId = Newest
         /\ UNCHANGED snapshots
         /\ Len(entries) < MaxEntries
         => \E j \in DOMAIN entries' : entries'[j] = entries[i]]_vars

\* A pod whose probe found Trino unreachable takes no traffic (comment on the
\* readiness probe in k8s/base/api.yaml).  Not checked by a run: see README,
\* Known disagreements.
DegradedTakesNoTraffic == probed = "degraded" => ~served
=============================================================================
