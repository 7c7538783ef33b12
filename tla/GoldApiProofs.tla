--------------------------- MODULE GoldApiProofs ---------------------------
(***************************************************************************)
(* The answers of the gold API are fresh and fit their requests, for any   *)
(* number of threads, rows and commits and any capacity of the cache; the  *)
(* console, one load at a time, lists rows in order and misses none.       *)
(*                                                                         *)
(* The argument: an entry filed under a snapshot id was read from that     *)
(* snapshot or a later one, since a thread looks up the id before it reads *)
(* the table; and a thread only takes entries filed under the id it looked *)
(* up itself, after its request came in.                                   *)
(***************************************************************************)
EXTENDS GoldApi, TLAPS, FiniteSetTheorems, FunctionTheorems

\* Entries that may be filed under a snapshot id.
FiledUnder(id) ==
    {e \in [key : Requests, value : Values] :
        CacheKey(e.value.request) = e.key /\ e.value.from \in id .. Newest}

\* A later snapshot never holds older data.
TableOk ==
    /\ snapshots \in Seq([data : Nat, rows : SUBSET GoldRows])
    /\ \A i, j \in 0 .. Newest : i <= j => DataAt(i) <= DataAt(j)

CacheOk == cacheId \in 0 .. Newest /\ entries \in Seq(FiledUnder(cacheId))

Steps == {"idle", "received", "known", "missed", "read", "reply"}

CallRecord == [step : Steps, request : Requests, console : BOOLEAN, since : Nat,
          id : Nat, value : Values]

\* What a request knows at each of its steps.
CallOk(c) ==
    /\ c \in CallRecord
    /\ c.step # "idle" => c.since <= DataAt(Newest)
    /\ c.step \in {"known", "missed", "read"} =>
         c.id \in 0 .. Newest /\ c.since <= DataAt(c.id)
    /\ c.step \in {"read", "reply"} => CacheKey(c.value.request) = CacheKey(c.request)
    /\ c.step = "read" => c.value.from \in c.id .. Newest
    /\ c.step = "reply" => c.value.from \in 0 .. Newest /\ c.since <= DataAt(c.value.from)

\* The console's cursor is a row it was given, or null.
ConsoleOk == "cursor" \in DOMAIN console /\ console.cursor \in 0 .. NRows

FreshInv ==
    /\ TableOk
    /\ CacheOk
    /\ DOMAIN call = Threads
    /\ \A t \in Threads : CallOk(call[t])

-----------------------------------------------------------------------------
\* The cache's operations on sequences keep the elements they do not drop.
LEMMA RemoveAtType ==
    ASSUME NEW S, NEW s \in Seq(S), NEW i \in 1 .. Len(s)
    PROVE  RemoveAt(s, i) \in Seq(S)
BY DEF RemoveAt

LEMMA LastNType ==
    ASSUME NEW S, NEW s \in Seq(S), NEW n \in Nat
    PROVE  LastN(s, n) \in Seq(S)
BY DEF LastN

\* An entry that is found is an entry of the cache, filed under its key.
LEMMA EntryFound ==
    ASSUME NEW S, entries \in Seq(S), NEW key, Cached(key)
    PROVE  /\ Place(key) \in 1 .. Len(entries)
           /\ EntryOf(key) \in S
           /\ EntryOf(key).key = key
BY DEF Cached, Place, EntryOf

LEMMA WithoutType ==
    ASSUME NEW S, entries \in Seq(S), NEW key
    PROVE  Without(key) \in Seq(S)
BY EntryFound, RemoveAtType DEF Without

\* A lookup files nothing new, and starts afresh under another snapshot id.
LEMMA GetKeeps ==
    ASSUME NEW S, entries \in Seq(S), NEW id, NEW key, Get(id, key)
    PROVE  entries' \in Seq(S)
<1>1. Touched(key) \in Seq(S)
  BY WithoutType, EntryFound DEF Touched
<1>2. QED
  BY <1>1 DEF Get

\* A value put under the id of the cache joins its entries, under another
\* one it is the only entry.
LEMMA PutKeeps ==
    ASSUME NEW S, NEW id, NEW key, NEW value, id = cacheId => entries \in Seq(S),
           [key |-> key, value |-> value] \in S, Put(id, key, value)
    PROVE  entries' \in Seq(S)
<1> DEFINE kept == IF id = cacheId THEN Without(key) ELSE <<>>
<1>1. kept \in Seq(S)
  BY WithoutType
<1>2. Append(kept, [key |-> key, value |-> value]) \in Seq(S)
  BY <1>1
<1>3. entries' = LastN(Append(kept, [key |-> key, value |-> value]), MaxEntries)
  BY DEF Put
<1>4. QED
  BY <1>2, <1>3, LastNType, CacheAssumption

-----------------------------------------------------------------------------
\* Requests of the console; the key of a request is one it could be asked as.
LEMMA HourlyRequests ==
    \A filter \in Filters, after \in 0 .. NRows : Hourly(filter, after) \in Requests
BY DEF Hourly, Requests

LEMMA IdleType == Idle \in CallRecord /\ Idle.step = "idle" /\ ~Idle.console
<1>1. Hourly(NoFilter, 0) \in Requests
  BY FilterAssumption, ApiAssumption, HourlyRequests
<1> QED
  BY <1>1 DEF Idle, CallRecord, Steps, Values

LEMMA KeyFields ==
    ASSUME NEW request \in Requests
    PROVE  /\ CacheKey(request) \in Requests
           /\ CacheKey(request).endpoint = request.endpoint
           /\ CacheKey(request).after = request.after
           /\ CacheKey(request).filter = KeyText[request.filter]
<1>1. request.filter \in Filters /\ KeyText[request.filter] \in Filters
  BY FilterAssumption DEF Requests
<1>2. CASE request \in [endpoint : {"hourly"}, filter : Filters, after : 0 .. NRows]
  BY <1>1, <1>2 DEF CacheKey, Requests
<1>3. CASE request \in [endpoint : {"summary"}, filter : Filters, after : {0}]
  BY <1>1, <1>3 DEF CacheKey, Requests
<1> QED
  BY <1>2, <1>3 DEF Requests

LEMMA FreshInit == Init => FreshInv
<1> SUFFICES ASSUME Init PROVE FreshInv
  OBVIOUS
<1>1. TableOk /\ CacheOk
  BY DEF Init, CacheInit, TableOk, CacheOk, Newest, DataAt
<1>2. \A t \in Threads : CallOk(call[t])
  BY IdleType DEF Init, CallOk
<1> QED
  BY <1>1, <1>2 DEF FreshInv, Init

LEMMA ElementOf ==
    ASSUME NEW S, NEW s \in Seq(S), NEW i \in 1 .. Len(s)
    PROVE  s[i] \in S
OBVIOUS

\* Versions are numbers, also that of a table without snapshots.
LEMMA DataType ==
    ASSUME TableOk
    PROVE  Newest \in Nat /\ \A i \in 0 .. Newest : DataAt(i) \in Nat
<1>1. snapshots \in Seq([data : Nat, rows : SUBSET GoldRows])
  BY DEF TableOk
<1>2. Newest \in Nat
  BY <1>1 DEF Newest
<1>3. ASSUME NEW i \in 0 .. Newest PROVE DataAt(i) \in Nat
  <2>1. CASE i = 0
    BY <2>1 DEF DataAt
  <2>2. CASE i # 0
    <3>1. snapshots[i] \in [data : Nat, rows : SUBSET GoldRows]
      <4>1. i \in 1 .. Len(snapshots)
        BY <1>2, <2>2 DEF Newest
      <4>2. QED
        BY <1>1, <4>1, ElementOf
    <3>2. QED
      BY <2>2, <3>1 DEF DataAt
  <2>3. QED
    BY <2>1, <2>2
<1>4. QED
  BY <1>2, <1>3

\* Rows of a snapshot are gold rows.
LEMMA TableRows ==
    ASSUME TableOk, NEW from \in 0 .. Newest
    PROVE  RowsAt(from) \in SUBSET GoldRows
<1>1. CASE from = 0
  BY <1>1 DEF RowsAt
<1>2. CASE from # 0
  <2>1. from \in 1 .. Len(snapshots)
    BY <1>2, DataType DEF Newest
  <2>2. snapshots[from] \in [data : Nat, rows : SUBSET GoldRows]
    BY <2>1, ElementOf DEF TableOk
  <2> QED
    BY <1>2, <2>2 DEF RowsAt
<1> QED
  BY <1>1, <1>2

\* A commit appends a snapshot whose data are not older than the last one's.
LEMMA CommitKeeps ==
    ASSUME FreshInv, NEW data \in Nat, data >= DataAt(Newest),
           NEW rows \in SUBSET GoldRows, Commit(data, rows)
    PROVE  FreshInv'
<1> USE DEF FreshInv
<1>1. Newest \in Nat /\ \A i \in 0 .. Newest : DataAt(i) \in Nat
  BY DataType
<1>2. \A i \in 0 .. Newest : DataAt(i) <= DataAt(Newest)
  BY <1>1 DEF TableOk
<1>3. /\ Newest' = Newest + 1
      /\ snapshots' \in Seq([data : Nat, rows : SUBSET GoldRows])
      /\ \A i \in 0 .. Newest : DataAt(i)' = DataAt(i)
      /\ \A n : n = Newest + 1 => DataAt(n)' = data
  <2>1. snapshots' = Append(snapshots, [data |-> data, rows |-> rows])
    BY DEF Commit
  <2>2. snapshots \in Seq([data : Nat, rows : SUBSET GoldRows])
    BY DEF TableOk
  <2>3. [data |-> data, rows |-> rows] \in [data : Nat, rows : SUBSET GoldRows]
    OBVIOUS
  <2>4. /\ snapshots' \in Seq([data : Nat, rows : SUBSET GoldRows])
        /\ Len(snapshots') = Len(snapshots) + 1
        /\ snapshots'[Len(snapshots) + 1] = [data |-> data, rows |-> rows]
        /\ \A i \in 1 .. Len(snapshots) : snapshots'[i] = snapshots[i]
    BY <2>1, <2>2, <2>3
  <2>5. Newest' = Newest + 1
    BY <2>4 DEF Newest
  <2>6. ASSUME NEW i \in 0 .. Newest PROVE DataAt(i)' = DataAt(i)
    BY <2>4, <1>1 DEF DataAt, Newest
  <2>7. ASSUME NEW n, n = Newest + 1 PROVE DataAt(n)' = data
    <3>1. n # 0 /\ n = Len(snapshots) + 1
      BY <1>1, <2>7 DEF Newest
    <3>2. QED
      BY <2>4, <3>1 DEF DataAt
  <2>8. QED
    BY <2>4, <2>5, <2>6, <2>7
<1>8. \A i, j \in 0 .. Newest + 1 : i <= j => DataAt(i)' <= DataAt(j)'
  <2> SUFFICES ASSUME NEW i \in 0 .. Newest + 1, NEW j \in 0 .. Newest + 1, i <= j
               PROVE  DataAt(i)' <= DataAt(j)'
    OBVIOUS
  <2>1. CASE j \in 0 .. Newest
    BY <1>1, <1>3, <2>1 DEF TableOk
  <2>2. CASE j = Newest + 1
    BY <1>1, <1>2, <1>3, <2>2
  <2>3. QED
    BY <1>1, <2>1, <2>2
<1>4. TableOk'
  BY <1>3, <1>8 DEF TableOk
<1>5. CacheOk'
  <2>1. FiledUnder(cacheId) \subseteq FiledUnder(cacheId)'
    BY <1>1, <1>3 DEF FiledUnder, CacheOk, Commit, cacheVars, Values
  <2>2. UNCHANGED <<cacheId, entries>>
    BY DEF Commit, cacheVars
  <2>3. QED
    BY <1>1, <1>3, <2>1, <2>2 DEF CacheOk
<1>6. ASSUME NEW t \in Threads PROVE CallOk(call[t])'
  <2>1. UNCHANGED call
    BY DEF Commit
  <2>2. CallOk(call[t])
    OBVIOUS
  <2>3. call[t].since \in Nat /\ call[t].id \in Nat /\ call[t].value.from \in Nat
    BY <2>2 DEF CallOk, CallRecord, Values
  <2>4. call[t] \in CallRecord /\ UNCHANGED call[t]
    BY <2>1, <2>2 DEF CallOk
  <2>5. /\ Newest \in Nat /\ Newest' = Newest + 1
        /\ DataAt(Newest) \in Nat
        /\ DataAt(Newest)' \in Nat /\ DataAt(Newest)' >= DataAt(Newest)
    <3>1. DataAt(Newest)' = data
      BY <1>3
    <3> QED
      BY <1>1, <1>3, <3>1
  <2>6. \A i \in 0 .. Newest : DataAt(i)' = DataAt(i)
    BY <1>3
  <2>7. call[t].step # "idle" => call[t].since <= DataAt(Newest)'
    BY <2>2, <2>3, <2>5 DEF CallOk
  <2>8. call[t].step \in {"known", "missed", "read"} =>
          call[t].id \in 0 .. Newest' /\ call[t].since <= DataAt(call[t].id)'
    BY <2>2, <2>4, <2>5, <2>6 DEF CallOk
  <2>9. call[t].step = "read" => call[t].value.from \in call[t].id .. Newest'
    BY <2>2, <2>3, <2>5 DEF CallOk
  <2>10. call[t].step = "reply" =>
           call[t].value.from \in 0 .. Newest' /\ call[t].since <= DataAt(call[t].value.from)'
    BY <2>2, <2>4, <2>5, <2>6 DEF CallOk
  <2>11. QED
    BY <2>2, <2>4, <2>7, <2>8, <2>9, <2>10 DEF CallOk
<1>7. QED
  BY <1>4, <1>5, <1>6 DEF Commit

\* While no snapshot is committed, ids keep their meaning.
LEMMA SameTable ==
    ASSUME FreshInv, UNCHANGED snapshots
    PROVE  /\ TableOk'
           /\ Newest' = Newest /\ Newest \in Nat
           /\ \A id : DataAt(id)' = DataAt(id)
           /\ \A id : FiledUnder(id)' = FiledUnder(id)
           /\ \A c : CallOk(c) => CallOk(c)'
<1>1. Newest' = Newest /\ \A id : DataAt(id)' = DataAt(id)
  BY DEF Newest, DataAt
<1>2. \A id : FiledUnder(id)' = FiledUnder(id)
  BY <1>1 DEF FiledUnder
<1>3. Newest \in Nat
  BY DEF FreshInv, TableOk, Newest
<1>4. TableOk'
  BY <1>1 DEF FreshInv, TableOk
<1>5. \A c : CallOk(c) => CallOk(c)'
  BY <1>1 DEF CallOk
<1>6. QED
  BY <1>1, <1>2, <1>3, <1>4, <1>5

\* One thread moves on: it is enough to look at it and at the cache.
LEMMA OneThread ==
    ASSUME FreshInv, UNCHANGED snapshots, NEW t \in Threads, NEW new,
           call' = [call EXCEPT ![t] = new], CacheOk', CallOk(new)
    PROVE  FreshInv'
<1>1. ASSUME NEW u \in Threads PROVE CallOk(call[u])'
  <2>1. CallOk(call'[u])
    BY DEF FreshInv
  <2>2. QED
    BY <2>1, SameTable
<1>2. QED
  BY <1>1, SameTable DEF FreshInv

LEMMA SameCache ==
    ASSUME FreshInv, UNCHANGED snapshots, UNCHANGED cacheVars
    PROVE  CacheOk'
BY SameTable DEF FreshInv, CacheOk, cacheVars

\* A request comes in.
LEMMA ReceiveKeeps ==
    ASSUME FreshInv, NEW t \in Threads, NEW request \in Requests,
           NEW isConsole \in BOOLEAN, Receive(t, request, isConsole)
    PROVE  FreshInv'
<1> DEFINE new == [Idle EXCEPT !.step = "received", !.request = request,
                               !.console = isConsole, !.since = DataAt(Newest)]
<1>1. UNCHANGED snapshots /\ UNCHANGED cacheVars /\ call' = [call EXCEPT ![t] = new]
  BY DEF Receive, tableVars
<1>2. DataAt(Newest) \in Nat
  BY DataType DEF FreshInv
<1>3. CallOk(new)
  <2>1. new \in CallRecord /\ new.step = "received" /\ new.since = DataAt(Newest)
    BY <1>2, IdleType DEF CallRecord, Steps
  <2>2. QED
    BY <1>2, <2>1 DEF CallOk
<1>4. QED
  BY <1>1, <1>3, SameCache, OneThread

\* The steps of a request.
LEMMA CurrentSnapshotKeeps ==
    ASSUME FreshInv, NEW t \in Threads, CurrentSnapshot(t)
    PROVE  FreshInv'
<1> DEFINE new == [call[t] EXCEPT !.step = "known", !.id = Newest]
<1>1. /\ UNCHANGED snapshots /\ UNCHANGED cacheVars
      /\ call' = [call EXCEPT ![t] = new] /\ call[t].step = "received"
  BY DEF CurrentSnapshot, tableVars
<1>2. CallOk(call[t]) /\ Newest \in Nat
  BY DataType DEF FreshInv
<1>3. CallOk(new)
  <2>1. new \in CallRecord
    BY <1>2 DEF CallOk, CallRecord, Steps
  <2>2. new.step = "known" /\ new.id = Newest /\ new.since <= DataAt(Newest)
    BY <1>1, <1>2 DEF CallOk, CallRecord
  <2> HIDE DEF new
  <2>3. QED
    BY <1>2, <2>1, <2>2 DEF CallOk
<1>4. QED
  BY <1>1, <1>3, SameCache, OneThread

\* A value of the snapshot a thread looked up, or a later one, is fresh.
LEMMA TakenIsFresh ==
    ASSUME FreshInv, NEW c, CallOk(c), c.step \in {"known", "read"},
           NEW value \in Values, CacheKey(value.request) = CacheKey(c.request),
           value.from \in c.id .. Newest
    PROVE  CallOk([c EXCEPT !.step = "reply", !.value = value])
<1> DEFINE new == [c EXCEPT !.step = "reply", !.value = value]
<1>1. c \in CallRecord /\ c.id \in 0 .. Newest /\ c.since <= DataAt(c.id)
  BY DEF CallOk
<1>2. value.from \in 0 .. Newest /\ Newest \in Nat
  BY <1>1, DataType DEF FreshInv
<1>3. DataAt(c.id) <= DataAt(value.from)
  BY <1>1, <1>2 DEF FreshInv, TableOk
<1>4. DataAt(c.id) \in Nat /\ DataAt(value.from) \in Nat /\ c.since \in Nat
  BY <1>1, <1>2, DataType DEF FreshInv, CallRecord
<1>5. new \in CallRecord
  BY <1>1 DEF CallRecord, Steps
<1>6. /\ new.step = "reply" /\ new.value = value /\ new.request = c.request
      /\ new.since = c.since
  BY <1>1 DEF CallRecord
<1> HIDE DEF new
<1>7. CallOk(new)
  BY <1>1, <1>2, <1>3, <1>4, <1>5, <1>6 DEF CallOk
<1>8. QED
  BY <1>7 DEF new

LEMMA AskCacheKeeps ==
    ASSUME FreshInv, NEW t \in Threads, AskCache(t)
    PROVE  FreshInv'
<1> DEFINE key == CacheKey(call[t].request)
<1>1. UNCHANGED snapshots /\ call[t].step = "known" /\ Get(call[t].id, key)
  BY DEF AskCache, tableVars
<1>2. CallOk(call[t]) /\ call[t].id \in 0 .. Newest /\ call[t] \in CallRecord
  BY <1>1 DEF FreshInv, CallOk
<1>3. CacheOk'
  <2>1. cacheId' = call[t].id
    BY <1>1 DEF Get
  <2>2. entries' \in Seq(FiledUnder(call[t].id))
    <3>1. CASE call[t].id = cacheId
      BY <1>1, <3>1, GetKeeps DEF FreshInv, CacheOk
    <3>2. CASE call[t].id # cacheId
      BY <1>1, <3>2 DEF Get
    <3>3. QED
      BY <3>1, <3>2
  <2>3. QED
    BY <1>1, <1>2, <2>1, <2>2, SameTable DEF CacheOk
<1>4. CASE Hit(call[t].id, key)
  <2> DEFINE value == EntryOf(key).value
             new == [call[t] EXCEPT !.step = "reply", !.value = value]
  <2>1. call' = [call EXCEPT ![t] = new]
    BY <1>4 DEF AskCache
  <2>2. EntryOf(key) \in FiledUnder(call[t].id) /\ EntryOf(key).key = key
    BY <1>4, EntryFound DEF FreshInv, CacheOk, Hit
  <2>3. /\ value \in Values /\ CacheKey(value.request) = key
        /\ value.from \in call[t].id .. Newest
    BY <2>2 DEF FiledUnder
  <2>4. CallOk(new)
    BY <1>1, <1>2, <2>3, TakenIsFresh
  <2>5. QED
    BY <1>1, <1>3, <2>1, <2>4, OneThread
<1>5. CASE ~Hit(call[t].id, key)
  <2> DEFINE new == [call[t] EXCEPT !.step = "missed"]
  <2>1. call' = [call EXCEPT ![t] = new]
    BY <1>5 DEF AskCache
  <2>2. CallOk(new)
    BY <1>1, <1>2 DEF CallOk, CallRecord, Steps
  <2>3. QED
    BY <1>1, <1>3, <2>1, <2>2, OneThread
<1>6. QED
  BY <1>4, <1>5

LEMMA QueryKeeps ==
    ASSUME FreshInv, NEW t \in Threads, Query(t)
    PROVE  FreshInv'
<1> DEFINE value == [request |-> call[t].request, from |-> Newest]
           new == [call[t] EXCEPT !.step = "read", !.value = value]
<1>1. /\ UNCHANGED snapshots /\ UNCHANGED cacheVars
      /\ call' = [call EXCEPT ![t] = new] /\ call[t].step = "missed"
  BY DEF Query, tableVars
<1>2. CallOk(call[t]) /\ Newest \in Nat
  BY DataType DEF FreshInv
<1>3. CallOk(new)
  <2>1. value \in Values
    BY <1>2 DEF Values, CallOk, CallRecord
  <2> HIDE DEF value
  <2>2. value.request = call[t].request /\ value.from = Newest
    BY DEF value
  <2>3. new \in CallRecord
    BY <1>2, <2>1 DEF CallOk, CallRecord, Steps
  <2>4. /\ new.step = "read" /\ new.value = value /\ new.request = call[t].request
        /\ new.since = call[t].since /\ new.id = call[t].id
    BY <1>2 DEF CallOk, CallRecord
  <2>5. /\ call[t].id \in 0 .. Newest /\ call[t].since <= DataAt(call[t].id)
        /\ call[t].since <= DataAt(Newest)
    BY <1>1, <1>2 DEF CallOk
  <2> HIDE DEF new
  <2>6. QED
    BY <1>2, <2>2, <2>3, <2>4, <2>5 DEF CallOk
<1>4. QED
  BY <1>1, <1>3, SameCache, OneThread

LEMMA FillCacheKeeps ==
    ASSUME FreshInv, NEW t \in Threads, FillCache(t)
    PROVE  FreshInv'
<1> DEFINE key == CacheKey(call[t].request)
           entry == [key |-> key, value |-> call[t].value]
           new == [call[t] EXCEPT !.step = "reply"]
<1>1. /\ UNCHANGED snapshots /\ Put(call[t].id, key, call[t].value)
      /\ call' = [call EXCEPT ![t] = new] /\ call[t].step = "read"
  BY DEF FillCache, tableVars
<1>2. CallOk(call[t])
  BY DEF FreshInv
<1>3. /\ call[t] \in CallRecord /\ call[t].id \in 0 .. Newest
      /\ CacheKey(call[t].value.request) = key
      /\ call[t].value.from \in call[t].id .. Newest
  BY <1>1, <1>2 DEF CallOk
<1>4. entry \in FiledUnder(call[t].id)
  <2>1. key \in Requests
    BY <1>3, KeyFields DEF CallRecord
  <2> HIDE DEF key
  <2> QED
    BY <1>3, <2>1 DEF FiledUnder, CallRecord
<1>5. entries' \in Seq(FiledUnder(call[t].id)) /\ cacheId' = call[t].id
  BY <1>1, <1>4, PutKeeps DEF FreshInv, CacheOk, Put
<1>6. CacheOk'
  BY <1>1, <1>3, <1>5, SameTable DEF CacheOk
<1>7. CallOk(new)
  <2>1. new = [call[t] EXCEPT !.step = "reply", !.value = call[t].value]
    BY <1>3 DEF CallRecord
  <2>2. QED
    BY <1>1, <1>2, <1>3, <2>1, TakenIsFresh DEF CallRecord
<1>8. QED
  BY <1>1, <1>6, <1>7, OneThread

\* The answer goes out, or the request fails: the thread is free again.
LEMMA IdleKeeps ==
    ASSUME FreshInv, NEW t \in Threads, UNCHANGED cacheVars, UNCHANGED snapshots,
           call' = [call EXCEPT ![t] = Idle]
    PROVE  FreshInv'
<1>1. CallOk(Idle)
  BY IdleType DEF CallOk
<1>2. QED
  BY <1>1, SameCache, OneThread

LEMMA OthersKeep ==
    ASSUME FreshInv, UNCHANGED <<cacheVars, snapshots, call>>
    PROVE  FreshInv'
<1>1. UNCHANGED cacheVars /\ UNCHANGED snapshots /\ UNCHANGED call
  OBVIOUS
<1>2. QED
  BY <1>1, SameTable, SameCache DEF FreshInv

LEMMA FreshStep == FreshInv /\ ConsoleOk /\ [Next]_vars => FreshInv'
<1> SUFFICES ASSUME FreshInv, ConsoleOk, [Next]_vars PROVE FreshInv'
  OBVIOUS
<1>1. CASE Table
  <2>1. CASE GoldJobCommits
    <3>1. DataAt(Newest) \in Nat
      BY DataType DEF FreshInv
    <3>2. DataAt(Newest) + 1 \in Nat /\ DataAt(Newest) + 1 >= DataAt(Newest)
      BY <3>1
    <3>3. QED
      BY <2>1, <3>2, CommitKeeps DEF GoldJobCommits
  <2>2. CASE OptimizeCommits
    <3>1. DataAt(Newest) \in Nat /\ DataAt(Newest) >= DataAt(Newest)
      BY DataType DEF FreshInv
    <3>2. RowsAt(Newest) \in SUBSET GoldRows
      BY TableRows, DataType DEF FreshInv
    <3>3. QED
      BY <2>2, <3>1, <3>2, CommitKeeps DEF OptimizeCommits
  <2>3. CASE TrinoGoes \/ TrinoReturns
    BY <2>3, OthersKeep DEF TrinoGoes, TrinoReturns
  <2>4. QED
    BY <1>1, <2>1, <2>2, <2>3 DEF Table
<1>2. CASE Probe
  BY <1>2, OthersKeep DEF Probe, tableVars
<1>3. CASE Call
  <2>1. ASSUME NEW t \in Clients, ClientCalls(t) PROVE FreshInv'
    BY <2>1, ReceiveKeeps, FilterAssumption DEF ClientCalls, Threads
  <2>2. ASSUME NEW t \in Console, ConsoleReset(t) PROVE FreshInv'
    <3>1. PICK filter \in FormFilters : Receive(t, Hourly(filter, 0), TRUE)
      BY <2>2 DEF ConsoleReset
    <3>2. Hourly(filter, 0) \in Requests
      BY ApiAssumption, FilterAssumption, HourlyRequests
    <3>3. QED
      BY <3>1, <3>2, ReceiveKeeps DEF Threads
  <2>3. ASSUME NEW t \in Console, ConsoleMore(t) PROVE FreshInv'
    <3>1. PICK filter \in FormFilters : Receive(t, Hourly(filter, console.cursor), TRUE)
      BY <2>3 DEF ConsoleMore
    <3>2. Hourly(filter, console.cursor) \in Requests
      BY FilterAssumption, HourlyRequests DEF ConsoleOk
    <3>3. QED
      BY <3>1, <3>2, ReceiveKeeps DEF Threads
  <2>4. QED
    BY <1>3, <2>1, <2>2, <2>3 DEF Call
<1>4. ASSUME NEW t \in Threads, Serve(t) PROVE FreshInv'
  <2>1. CASE Reply(t) \/ Fail(t)
    BY <2>1, IdleKeeps DEF Reply, Fail, tableVars
  <2>2. QED
    BY <1>4, <2>1, CurrentSnapshotKeeps, AskCacheKeeps, QueryKeeps, FillCacheKeeps DEF Serve
<1>5. CASE UNCHANGED vars
  BY <1>5, OthersKeep DEF vars, tableVars
<1>6. QED
  BY <1>1, <1>2, <1>3, <1>4, <1>5 DEF Next

\* What is answered are rows of the table, and the cursor is one of them.
LEMMA CursorIsRow ==
    ASSUME FreshInv, NEW t \in Threads, call[t].step = "reply", Reply(t)
    PROVE  NextCursor(Answer(call[t].value.request, call[t].value.from)) \in 0 .. NRows
<1> DEFINE from == call[t].value.from
           rows == Answer(call[t].value.request, from)
<1>1. from \in 0 .. Newest
  BY DEF FreshInv, CallOk
<1>2. RowsAt(from) \subseteq GoldRows
  BY <1>1, TableRows DEF FreshInv
<1>3. rows \subseteq GoldRows
  BY <1>2 DEF Answer, Matching
<1> HIDE DEF rows
<1>4. NextCursor(rows) = 0 \/ NextCursor(rows) \in rows
  BY DEF NextCursor
<1>5. QED
  BY <1>3, <1>4, ApiAssumption DEF GoldRows, rows

LEMMA ConsoleStep == FreshInv /\ ConsoleOk /\ [Next]_vars => ConsoleOk'
<1> SUFFICES ASSUME FreshInv, ConsoleOk, [Next]_vars PROVE ConsoleOk'
  OBVIOUS
<1> USE DEF ConsoleOk
<1>1. CASE Table \/ Probe
  BY <1>1 DEF Table, GoldJobCommits, OptimizeCommits, Commit, TrinoGoes, TrinoReturns, Probe
<1>2. CASE Call
  <2>1. ASSUME NEW t \in Clients, ClientCalls(t) PROVE ConsoleOk'
    BY <2>1 DEF ClientCalls
  <2>2. ASSUME NEW t \in Console, ConsoleReset(t) PROVE ConsoleOk'
    BY <2>2, ApiAssumption DEF ConsoleReset
  <2>3. ASSUME NEW t \in Console, ConsoleMore(t) PROVE ConsoleOk'
    BY <2>3 DEF ConsoleMore
  <2>4. QED
    BY <1>2, <2>1, <2>2, <2>3 DEF Call
<1>3. ASSUME NEW t \in Threads, Serve(t) PROVE ConsoleOk'
  <2>1. CASE Reply(t)
    <3>1. NextCursor(Answer(call[t].value.request, call[t].value.from)) \in 0 .. NRows
      BY <2>1, CursorIsRow DEF Reply
    <3>2. QED
      BY <2>1, <3>1 DEF Reply
  <2>2. CASE CurrentSnapshot(t) \/ AskCache(t) \/ Query(t) \/ FillCache(t) \/ Fail(t)
    BY <2>2 DEF CurrentSnapshot, AskCache, Query, FillCache, Fail
  <2>3. QED
    BY <1>3, <2>1, <2>2 DEF Serve
<1>4. CASE UNCHANGED vars
  BY <1>4 DEF vars
<1>5. QED
  BY <1>1, <1>2, <1>3, <1>4 DEF Next

LEMMA ConsoleInit == Init => ConsoleOk
BY ApiAssumption DEF Init, ConsoleOk

\* No answer is older than the table was when its request came in.
THEOREM AnswersAlwaysFresh == Spec => []AnswersAreFresh
<1>1. FreshInv => AnswersAreFresh
  BY DEF FreshInv, CallOk, AnswersAreFresh
<1>2. QED
  BY <1>1, FreshInit, FreshStep, ConsoleInit, ConsoleStep, PTL DEF Spec

\* An answer was built for the endpoint and the page that were asked for, and
\* for a filter that is spelled in the cache key like the one that was.
THEOREM AnswersAlwaysFit == Spec => []AnswersFit
<1>1. FreshInv => AnswersFit
  <2> SUFFICES ASSUME FreshInv, NEW t \in Threads, call[t].step = "reply"
               PROVE  LET built == call[t].value.request
                          asked == call[t].request
                      IN  /\ built.endpoint = asked.endpoint /\ built.after = asked.after
                          /\ KeyText[built.filter] = KeyText[asked.filter]
    BY DEF AnswersFit
  <2>1. /\ call[t].value.request \in Requests /\ call[t].request \in Requests
        /\ CacheKey(call[t].value.request) = CacheKey(call[t].request)
    BY DEF FreshInv, CallOk, CallRecord, Values
  <2> QED
    BY <2>1, KeyFields
<1>2. QED
  BY <1>1, FreshInit, FreshStep, ConsoleInit, ConsoleStep, PTL DEF Spec

-----------------------------------------------------------------------------
(***************************************************************************)
(* Pages.  The rank of a row in a set is the number of rows below it.      *)
(***************************************************************************)
Rank(r, R) == Cardinality({q \in R : q < r})

FiniteRows(R) == R \subseteq Nat /\ IsFiniteSet(R)

LEMMA RanksGrow ==
    ASSUME NEW R, FiniteRows(R), NEW r \in R
    PROVE  /\ Rank(r, R) \in Nat /\ Rank(r, R) < Cardinality(R) /\ Cardinality(R) \in Nat
           /\ Cardinality({q \in R : q <= r}) = Rank(r, R) + 1
           /\ \A s \in R : s < r => Rank(s, R) < Rank(r, R)
<1> DEFINE below(s) == {q \in R : q < s}
<1>1. \A s \in R : below(s) \subseteq R
  OBVIOUS
<1>2. /\ IsFiniteSet(R) /\ R \subseteq Nat /\ Cardinality(R) \in Nat
      /\ \A s \in R : IsFiniteSet(below(s)) /\ Cardinality(below(s)) \in Nat
  BY <1>1, FS_Subset, FS_CardinalityType DEF FiniteRows
<1>3. \A s \in R : s \notin below(s)
  BY <1>2
<1>4. Cardinality(below(r) \union {r}) = Cardinality(below(r)) + 1
  BY <1>2, <1>3, FS_AddElement
<1>5. {q \in R : q <= r} = below(r) \union {r}
  <2>1. \A q \in R : q <= r <=> q < r \/ q = r
    <3>1. r \in Nat /\ \A q \in R : q \in Nat
      BY <1>2
    <3> QED
      BY <3>1
  <2> QED
    BY <2>1
<1>6. Cardinality(below(r) \union {r}) <= Cardinality(R)
  <2>1. below(r) \union {r} \in SUBSET R
    OBVIOUS
  <2> QED
    BY <1>2, <2>1, FS_Subset
<1>7. ASSUME NEW s \in R, s < r PROVE Cardinality(below(s)) < Cardinality(below(r))
  <2>1. below(s) \union {s} \in SUBSET below(r)
    <3>1. r \in Nat /\ s \in Nat /\ \A q \in R : q \in Nat
      BY <1>2
    <3>2. \A q \in R : q < s => q < r
      BY <1>7, <3>1
    <3> QED
      BY <1>7, <3>2
  <2>2. Cardinality(below(s) \union {s}) = Cardinality(below(s)) + 1
    BY <1>2, <1>3, FS_AddElement
  <2>3. Cardinality(below(s) \union {s}) <= Cardinality(below(r))
    BY <1>2, <2>1, FS_Subset
  <2>4. Cardinality(below(s)) \in Nat /\ Cardinality(below(r)) \in Nat
    BY <1>2
  <2> HIDE DEF below
  <2> QED
    BY <2>2, <2>3, <2>4
<1>8. \A s \in R : Rank(s, R) = Cardinality(below(s))
  BY DEF Rank
<1> HIDE DEF below
<1> QED
  BY <1>2, <1>4, <1>5, <1>6, <1>7, <1>8

\* Rows of ranks below k are k, or all there are.
LEMMA LowestRows ==
    ASSUME NEW R, FiniteRows(R), NEW k \in Nat
    PROVE  /\ Lowest(R, k) \subseteq R /\ FiniteRows(Lowest(R, k))
           /\ \A r \in Lowest(R, k), s \in R : s <= r => s \in Lowest(R, k)
           /\ Cardinality(R) <= k => Lowest(R, k) = R
           /\ \A r, s \in R : r = s \/ r < s \/ s < r
<1>1. R \subseteq Nat /\ IsFiniteSet(R)
  BY DEF FiniteRows
<1>2. Lowest(R, k) = {r \in R : Rank(r, R) < k}
  BY DEF Lowest, Rank
<1>3. \A r \in R : Rank(r, R) \in Nat /\ Rank(r, R) < Cardinality(R) /\ Cardinality(R) \in Nat
  BY RanksGrow
<1>4. \A r, s \in R : s < r => Rank(s, R) < Rank(r, R)
  BY RanksGrow
<1>5. Lowest(R, k) \in SUBSET R
  BY <1>2
<1>6. IsFiniteSet(Lowest(R, k))
  BY <1>1, <1>5, FS_Subset
<1>7. ASSUME NEW r \in Lowest(R, k), NEW s \in R, s <= r PROVE s \in Lowest(R, k)
  <2>1. r \in Nat /\ s \in Nat /\ r \in R
    BY <1>1, <1>5
  <2>2. s = r \/ s < r
    BY <1>7, <2>1
  <2> QED
    BY <1>2, <1>3, <1>4, <2>1, <2>2
<1>8. Cardinality(R) <= k => Lowest(R, k) = R
  BY <1>2, <1>3
<1>9. \A r, s \in R : r = s \/ r < s \/ s < r
  BY <1>1
<1>10. FiniteRows(Lowest(R, k))
  BY <1>1, <1>5, <1>6 DEF FiniteRows
<1> QED
  BY <1>5, <1>7, <1>8, <1>9, <1>10

\* Every rank there can be is that of one row.
LEMMA RanksAreAll ==
    ASSUME NEW R, FiniteRows(R), NEW i \in Nat, i < Cardinality(R)
    PROVE  \E r \in R : Rank(r, R) = i
<1>1. Cardinality(R) \in Nat /\ IsFiniteSet(R) /\ R \subseteq Nat
  BY FS_CardinalityType DEF FiniteRows
<1> DEFINE n == Cardinality(R)
           f == [r \in R |-> Rank(r, R)]
<1>n. n \in Nat /\ i \in 0 .. n - 1
  BY <1>1
<1>2. f \in [R -> 0 .. n - 1]
  <2>1. \A r \in R : Rank(r, R) \in 0 .. n - 1
    <3>1. \A r \in R : Rank(r, R) \in Nat /\ Rank(r, R) < n
      BY RanksGrow
    <3>2. n \in Nat
      BY <1>n
    <3> HIDE DEF n
    <3> QED
      BY <3>1, <3>2
  <2> HIDE DEF n
  <2> QED
    BY <2>1
<1>3. \A r, s \in R : f[r] = f[s] => r = s
  <2>1. \A r, s \in R : s < r => Rank(s, R) < Rank(r, R) /\ Rank(r, R) \in Nat
                                  /\ Rank(s, R) \in Nat
    BY RanksGrow
  <2>2. \A r, s \in R : r \in Nat /\ s \in Nat
    BY <1>1
  <2> QED
    BY <2>1, <2>2
<1>s. n = Cardinality(R)
  OBVIOUS
<1>f. \A r \in R : f[r] = Rank(r, R)
  OBVIOUS
<1> HIDE DEF f, n
<1>4. IsFiniteSet(0 .. n - 1) /\ Cardinality(0 .. n - 1) = n
  <2>1. 0 \in Int /\ n - 1 \in Int
    BY <1>n
  <2>2. /\ IsFiniteSet(0 .. n - 1)
        /\ Cardinality(0 .. n - 1) = IF 0 > n - 1 THEN 0 ELSE (n - 1) - 0 + 1
    BY <2>1, FS_Interval
  <2> QED
    BY <1>n, <2>2
<1>5. f \in Injection(R, 0 .. n - 1)
  BY <1>2, <1>3, Fun_IsInj
<1>6. f \in Surjection(R, 0 .. n - 1)
  BY <1>4, <1>5, <1>s, FS_Injection
<1>7. \A j \in 0 .. n - 1 : \E r \in R : f[r] = j
  BY <1>6, Fun_SurjectionProperties
<1> QED
  BY <1>n, <1>7, <1>f

\* The rows of a page, one after the other.
LEMMA OrderedRows ==
    ASSUME NEW R, FiniteRows(R)
    PROVE  /\ InOrder(R) \in Seq(R)
           /\ \A i, j \in DOMAIN InOrder(R) : i < j => InOrder(R)[i] < InOrder(R)[j]
           /\ \A r \in R : \E i \in DOMAIN InOrder(R) : InOrder(R)[i] = r
<1> DEFINE n == Cardinality(R)
           s == InOrder(R)
<1>1. n \in Nat /\ \A r \in R : r \in Nat
  BY FS_CardinalityType DEF FiniteRows
<1>2. s = [i \in 1 .. n |-> CHOOSE r \in R : Rank(r, R) = i - 1]
  BY DEF InOrder, Rank
<1>3. \A r \in R : Rank(r, R) \in Nat /\ Rank(r, R) < n
  BY RanksGrow
<1>4. \A q, r \in R : q < r => Rank(q, R) < Rank(r, R)
  BY RanksGrow
<1>5. ASSUME NEW i \in Nat, i < n PROVE \E r \in R : Rank(r, R) = i
  BY <1>5, RanksAreAll
<1> HIDE DEF n, s
<1>6. ASSUME NEW i \in 1 .. n PROVE s[i] \in R /\ Rank(s[i], R) = i - 1
  <2>1. i - 1 \in Nat /\ i - 1 < n
    BY <1>1
  <2>2. \E r \in R : Rank(r, R) = i - 1
    BY <1>5, <2>1
  <2>3. s[i] = CHOOSE r \in R : Rank(r, R) = i - 1
    BY <1>2
  <2> QED
    BY <2>2, <2>3
<1>7. s \in Seq(R) /\ DOMAIN s = 1 .. n
  BY <1>1, <1>2, <1>6
<1>8. ASSUME NEW i \in 1 .. n, NEW j \in 1 .. n, i < j PROVE s[i] < s[j]
  <2>1. Rank(s[i], R) < Rank(s[j], R)
    BY <1>1, <1>6, <1>8
  <2>2. s[i] \in R /\ s[j] \in R /\ s[i] \in Nat /\ s[j] \in Nat
    BY <1>1, <1>6
  <2>3. ~(s[j] < s[i]) /\ s[i] # s[j]
    BY <1>3, <1>4, <2>1, <2>2
  <2> QED
    BY <2>2, <2>3
<1>9. ASSUME NEW r \in R PROVE \E i \in 1 .. n : s[i] = r
  <2>1. Rank(r, R) + 1 \in 1 .. n
    BY <1>1, <1>3
  <2>2. s[Rank(r, R) + 1] \in R /\ Rank(s[Rank(r, R) + 1], R) = Rank(r, R)
    <3>1. /\ s[Rank(r, R) + 1] \in R
          /\ Rank(s[Rank(r, R) + 1], R) = (Rank(r, R) + 1) - 1
      BY <1>6, <2>1
    <3> QED
      BY <1>3, <3>1
  <2>3. s[Rank(r, R) + 1] = r
    BY <1>1, <1>3, <1>4, <2>2
  <2> QED
    BY <2>1, <2>3
<1> QED
  BY <1>7, <1>8, <1>9 DEF s

\* A page with a cursor holds every row up to the cursor, one without holds
\* every row there is after the request's cursor.
LEMMA PageRows ==
    ASSUME NEW A, FiniteRows(A), 0 \notin A, NEW rows, rows = Lowest(A, Limit + 1)
    PROVE  /\ FiniteRows(rows) /\ FiniteRows(Lowest(rows, Limit)) /\ Lowest(rows, Limit) \subseteq A
           /\ NextCursor(rows) = 0 => Lowest(rows, Limit) = A
           /\ NextCursor(rows) # 0 =>
                /\ NextCursor(rows) \in A
                /\ \A r \in Lowest(rows, Limit) : r <= NextCursor(rows)
                /\ \A r \in A : r <= NextCursor(rows) => r \in Lowest(rows, Limit)
<1> DEFINE page == Lowest(rows, Limit)
           last == {r \in rows : /\ Cardinality(rows) > Limit
                                 /\ Cardinality({q \in rows : q <= r}) = Limit}
<1>0. Limit \in Nat /\ Limit > 0 /\ Limit + 1 \in Nat
  BY ApiAssumption
<1>1. /\ rows \subseteq A /\ FiniteRows(rows)
      /\ \A r \in rows, s \in A : s <= r => s \in rows
  BY <1>0, LowestRows
<1>2. /\ page \subseteq rows /\ FiniteRows(page)
      /\ Cardinality(rows) <= Limit => page = rows
  BY <1>0, <1>1, LowestRows
<1>3. \A r \in A : r \in Nat
  BY DEF FiniteRows
<1>4. ASSUME NEW r \in rows PROVE Rank(r, rows) = Rank(r, A)
  <2>1. \A q \in A : q < r => q \in rows
    BY <1>1, <1>3
  <2>2. {q \in rows : q < r} = {q \in A : q < r}
    BY <1>1, <2>1
  <2> QED
    BY <2>2 DEF Rank
<1>5. /\ \A r \in rows : Rank(r, rows) \in Nat /\ Rank(r, rows) < Cardinality(rows)
      /\ \A r \in rows : Cardinality({q \in rows : q <= r}) = Rank(r, rows) + 1
      /\ \A q, r \in rows : q < r => Rank(q, rows) < Rank(r, rows)
      /\ \A r \in A : Rank(r, A) \in Nat /\ Rank(r, A) < Cardinality(A)
      /\ Cardinality(rows) \in Nat /\ Cardinality(A) \in Nat
  BY <1>1, RanksGrow, FS_CardinalityType DEF FiniteRows
<1>6. rows = {r \in A : Rank(r, A) < Limit + 1} /\ page = {r \in rows : Rank(r, rows) < Limit}
  BY DEF Lowest, Rank
<1>7. last = {r \in rows : Cardinality(rows) > Limit /\ Rank(r, rows) = Limit - 1}
  BY <1>0, <1>5
<1>8. NextCursor(rows) = IF last = {} THEN 0 ELSE CHOOSE r \in last : TRUE
  BY DEF NextCursor
<1> HIDE DEF page, last
<1>9. CASE Cardinality(rows) > Limit
  <2>1. \E r \in rows : Rank(r, rows) = Limit - 1
    <3>1. Limit - 1 \in Nat /\ Limit - 1 < Cardinality(rows)
      BY <1>0, <1>5, <1>9
    <3> QED
      BY <1>1, <3>1, RanksAreAll
  <2>2. NextCursor(rows) \in last
    BY <1>7, <1>8, <1>9, <2>1
  <2>3. PICK c : c = NextCursor(rows)
    OBVIOUS
  <2>4. c \in rows /\ Rank(c, rows) = Limit - 1 /\ c \in A /\ c # 0
    BY <1>1, <1>7, <2>2, <2>3
  <2>5. ASSUME NEW r \in page PROVE r <= c
    <3>1. r \in rows /\ Rank(r, rows) \in Nat /\ Rank(r, rows) < Limit
      BY <1>5, <1>6
    <3>2. ~(c < r)
      <4>1. ~(Rank(c, rows) < Rank(r, rows))
        BY <1>0, <2>4, <3>1
      <4> QED
        BY <1>5, <2>4, <3>1, <4>1
    <3> QED
      BY <1>1, <1>3, <2>4, <3>1, <3>2
  <2>6. ASSUME NEW r \in A, r <= c PROVE r \in page
    <3>1. r \in rows
      BY <1>1, <2>4, <2>6
    <3>2. r = c \/ r < c
      BY <1>3, <2>4, <2>6
    <3>3. Rank(r, rows) = Limit - 1 \/ Rank(r, rows) < Limit - 1
      BY <1>5, <2>4, <3>1, <3>2
    <3>4. Rank(r, rows) < Limit
      BY <1>0, <1>5, <3>1, <3>3
    <3> QED
      BY <1>6, <3>1, <3>4
  <2> QED
    BY <1>1, <1>2, <2>3, <2>4, <2>5, <2>6 DEF page
<1>10. CASE ~(Cardinality(rows) > Limit)
  <2>1. NextCursor(rows) = 0
    BY <1>7, <1>8, <1>10
  <2>2. Cardinality(rows) <= Limit
    BY <1>0, <1>5, <1>10
  <2>3. ASSUME NEW a \in A, a \notin rows PROVE FALSE
    <3>1. ~(Rank(a, A) < Limit + 1)
      BY <1>6, <2>3
    <3>2. Limit < Cardinality(A)
      BY <1>0, <1>5, <3>1
    <3>3. PICK q \in A : Rank(q, A) = Limit
      BY <1>0, <3>2, RanksAreAll
    <3>4. q \in rows
      BY <1>0, <1>6, <3>3
    <3>5. Limit < Cardinality(rows)
      BY <1>4, <1>5, <3>3, <3>4
    <3> QED
      BY <1>10, <3>5
  <2>4. page = A
    BY <1>1, <1>2, <2>2, <2>3
  <2> QED
    BY <1>1, <1>2, <2>1, <2>4 DEF page
<1> QED
  BY <1>9, <1>10

\* What is answered are rows of the table; a page is the lowest of the rows
\* after the request's cursor, and one more says that there are more.
RowsAfter(request, from) == {r \in Matching(request, from) : r > request.after}

LEMMA AnswerRows ==
    ASSUME TableOk, NEW request \in Requests, NEW from \in 0 .. Newest
    PROVE  /\ FiniteRows(Answer(request, from)) /\ Answer(request, from) \subseteq GoldRows
           /\ RowsAt(from) \subseteq GoldRows
           /\ FiniteRows(RowsAfter(request, from)) /\ 0 \notin RowsAfter(request, from)
           /\ request.endpoint = "hourly" =>
                Answer(request, from) = Lowest(RowsAfter(request, from), Limit + 1)
<1>1. RowsAt(from) \in SUBSET GoldRows
  BY TableRows
<1>2. IsFiniteSet(GoldRows) /\ GoldRows \in SUBSET Nat
  <2>1. 1 \in Int /\ NRows \in Int
    BY ApiAssumption
  <2> QED
    BY <2>1, FS_Interval DEF GoldRows
<1>3. \A R \in SUBSET GoldRows : FiniteRows(R)
  BY <1>2, FS_Subset DEF FiniteRows
<1>4. Answer(request, from) \in SUBSET GoldRows /\ RowsAfter(request, from) \in SUBSET GoldRows
  BY <1>1 DEF Answer, RowsAfter, Matching
<1>5. 0 \notin RowsAfter(request, from)
  BY <1>1, ApiAssumption DEF RowsAfter, Matching, GoldRows
<1>6. ASSUME request.endpoint = "hourly"
      PROVE  Answer(request, from) = Lowest(RowsAfter(request, from), Limit + 1)
  <2> DEFINE A == RowsAfter(request, from)
  <2>1. ASSUME NEW r \in Matching(request, from)
        PROVE  {q \in Matching(request, from) : request.after < q /\ q < r} = {q \in A : q < r}
    <3>1. \A q \in Matching(request, from) : q > request.after <=> request.after < q
      OBVIOUS
    <3> QED
      BY <3>1 DEF RowsAfter
  <2>2. \A r \in A : Cardinality({q \in A : q < r}) \in Nat
    BY <1>3, <1>4, RanksGrow DEF Rank
  <2>3. Answer(request, from) = {r \in A : Cardinality({q \in A : q < r}) <= Limit}
    BY <1>6, <2>1 DEF Answer, RowsAfter
  <2> HIDE DEF A
  <2>4. \A r \in A : Cardinality({q \in A : q < r}) <= Limit
                       <=> Cardinality({q \in A : q < r}) < Limit + 1
    BY <2>2, ApiAssumption
  <2>5. Answer(request, from) = Lowest(A, Limit + 1)
    BY <2>3, <2>4 DEF Lowest
  <2> QED
    BY <2>5 DEF A
<1> QED
  BY <1>1, <1>3, <1>4, <1>5, <1>6

-----------------------------------------------------------------------------
(***************************************************************************)
(* Types.  The console counts its loads under way, so that the count never *)
(* falls below 0; the cache never outgrows its capacity.                   *)
(***************************************************************************)
ConsoleRecord == [listed : Seq(GoldRows), cursor : 0 .. NRows, more : BOOLEAN,
                  loading : Nat, stable : SUBSET GoldRows, impatient : Nat]

Loads == {t \in Threads : call[t].console}

OutsideOk ==
    /\ trinoUp \in BOOLEAN /\ outages \in Nat
    /\ served \in BOOLEAN
    /\ probed \in {"ok", "degraded"}

LoadsOk ==
    /\ call \in [Threads -> CallRecord]
    /\ \A t \in Threads : call[t].step = "idle" => ~call[t].console
    /\ console \in ConsoleRecord
    /\ IsFiniteSet(Loads) /\ console.loading = Cardinality(Loads)

RoomOk == Len(entries) <= MaxEntries

LEMMA OutsideStep == OutsideOk /\ [Next]_vars => OutsideOk'
<1> SUFFICES ASSUME OutsideOk, [Next]_vars PROVE OutsideOk'
  OBVIOUS
<1> USE DEF OutsideOk, tableVars, podVars
<1>1. CASE Table
  <2>1. CASE GoldJobCommits \/ OptimizeCommits
    BY <2>1 DEF GoldJobCommits, OptimizeCommits, Commit
  <2>2. CASE TrinoGoes \/ TrinoReturns
    <3>1. trinoUp' \in BOOLEAN
      BY <2>2, Zenon DEF TrinoGoes, TrinoReturns
    <3>2. outages' \in Nat /\ UNCHANGED <<served, probed>>
      BY <2>2 DEF TrinoGoes, TrinoReturns
    <3> QED
      BY <3>1, <3>2
  <2> QED
    BY <1>1, <2>1, <2>2 DEF Table
<1>p. CASE Probe
  BY <1>p DEF Probe
<1>2. CASE Call
  BY <1>2 DEF Call, ClientCalls, ConsoleReset, ConsoleMore, Receive
<1>3. ASSUME NEW t \in Threads, Serve(t) PROVE OutsideOk'
  BY <1>3 DEF Serve, CurrentSnapshot, AskCache, Query, FillCache, Reply, Fail
<1>4. CASE UNCHANGED vars
  BY <1>4 DEF vars
<1> QED
  BY <1>1, <1>p, <1>2, <1>3, <1>4 DEF Next

LEMMA SeqOfMore ==
    ASSUME NEW S, NEW T, S \subseteq T, NEW s \in Seq(S)
    PROVE  s \in Seq(T)
<1>1. Len(s) \in Nat /\ s = [i \in 1 .. Len(s) |-> s[i]] /\ \A i \in 1 .. Len(s) : s[i] \in T
  OBVIOUS
<1> QED
  BY <1>1

LEMMA RemoveAtLength ==
    ASSUME NEW S, NEW s \in Seq(S), NEW i \in 1 .. Len(s)
    PROVE  Len(RemoveAt(s, i)) = Len(s) - 1
<1> DEFINE before == SubSeq(s, 1, i - 1)
           behind == SubSeq(s, i + 1, Len(s))
<1>1. before \in Seq(S) /\ Len(before) = i - 1
  OBVIOUS
<1>2. behind \in Seq(S) /\ Len(behind) = Len(s) - i
  OBVIOUS
<1>3. RemoveAt(s, i) = before \o behind
  BY DEF RemoveAt
<1> HIDE DEF before, behind
<1>4. Len(before \o behind) = Len(before) + Len(behind)
  BY <1>1, <1>2
<1>5. i \in Int /\ Len(s) \in Int
  OBVIOUS
<1> QED
  BY <1>1, <1>2, <1>3, <1>4, <1>5

LEMMA RoomStep == FreshInv /\ RoomOk /\ [Next]_vars => RoomOk'
<1> SUFFICES ASSUME FreshInv, RoomOk, [Next]_vars PROVE RoomOk'
  OBVIOUS
<1> DEFINE E == [key : Requests, value : Values]
<1>0. entries \in Seq(E) /\ MaxEntries \in Nat \ {0}
  <2>1. FiledUnder(cacheId) \subseteq E
    BY DEF FiledUnder
  <2>2. entries \in Seq(FiledUnder(cacheId))
    BY DEF FreshInv, CacheOk
  <2> HIDE DEF E
  <2> QED
    BY <2>1, <2>2, SeqOfMore, CacheAssumption
<1>1. CASE UNCHANGED entries
  BY <1>1 DEF RoomOk
<1>2. ASSUME NEW key PROVE /\ Without(key) \in Seq(E)
                           /\ Cached(key) => Len(Without(key)) = Len(entries) - 1
  <2>1. CASE Cached(key)
    <3>1. Place(key) \in 1 .. Len(entries)
      BY <1>0, <2>1, EntryFound
    <3>2. Without(key) = RemoveAt(entries, Place(key))
      BY <2>1 DEF Without
    <3> HIDE DEF E
    <3> QED
      BY <1>0, <3>1, <3>2, RemoveAtType, RemoveAtLength
  <2>2. CASE ~Cached(key)
    BY <1>0, <2>2 DEF Without
  <2> QED
    BY <2>1, <2>2
<1>3. ASSUME NEW id, NEW key, Get(id, key) PROVE RoomOk'
  <2>1. CASE id = cacheId /\ Cached(key)
    <3>1. entries' = Append(Without(key), EntryOf(key))
      BY <1>3, <2>1 DEF Get, Touched
    <3>2. Len(entries') = Len(entries)
      <4>1. Len(entries') = Len(Without(key)) + 1
        BY <1>2, <3>1
      <4> QED
        BY <1>0, <1>2, <2>1, <4>1
    <3> QED
      BY <3>2 DEF RoomOk
  <2>2. CASE id = cacheId /\ ~Cached(key)
    BY <1>1, <1>3, <2>2 DEF Get, Touched
  <2>3. CASE id # cacheId
    <3>1. entries' = <<>>
      BY <1>3, <2>3 DEF Get
    <3> QED
      BY <1>0, <3>1 DEF RoomOk
  <2> QED
    BY <2>1, <2>2, <2>3
<1>4. ASSUME NEW id, NEW key, NEW value, Put(id, key, value) PROVE RoomOk'
  <2> DEFINE kept == IF id = cacheId THEN Without(key) ELSE <<>>
             s == Append(kept, [key |-> key, value |-> value])
             F == E \union {[key |-> key, value |-> value]}
  <2>1. kept \in Seq(F)
    <3>1. E \subseteq F
      OBVIOUS
    <3>2. Without(key) \in Seq(E)
      BY <1>2
    <3> HIDE DEF E, F
    <3> QED
      BY <3>1, <3>2, SeqOfMore
  <2>2. s \in Seq(F)
    <3>1. [key |-> key, value |-> value] \in F
      OBVIOUS
    <3> HIDE DEF kept, F
    <3> QED
      BY <2>1, <3>1
  <2>3. entries' = LastN(s, MaxEntries)
    BY <1>4 DEF Put
  <2> HIDE DEF s, F
  <2>4. Len(LastN(s, MaxEntries)) <= MaxEntries
    BY <1>0, <2>2 DEF LastN
  <2> QED
    BY <2>3, <2>4 DEF RoomOk
<1>5. CASE Table \/ Probe \/ Call \/ UNCHANGED vars
  <2> USE DEF cacheVars
  <2>1. UNCHANGED entries
    BY <1>5 DEF Table, GoldJobCommits, OptimizeCommits, Commit, TrinoGoes, TrinoReturns, Probe,
               Call, ClientCalls, ConsoleReset, ConsoleMore, Receive, vars
  <2> QED
    BY <1>1, <2>1
<1>6. ASSUME NEW t \in Threads, Serve(t) PROVE RoomOk'
  <2>1. CASE AskCache(t)
    BY <1>3, <2>1 DEF AskCache
  <2>2. CASE FillCache(t)
    BY <1>4, <2>2 DEF FillCache
  <2>3. CASE CurrentSnapshot(t) \/ Query(t) \/ Reply(t) \/ Fail(t)
    <3>1. UNCHANGED entries
      BY <2>3 DEF CurrentSnapshot, Query, Reply, Fail, cacheVars
    <3> QED
      BY <1>1, <3>1
  <2> QED
    BY <1>6, <2>1, <2>2, <2>3 DEF Serve
<1> QED
  BY <1>5, <1>6 DEF Next

\* The calls keep their record type.
LEMMA CallStep == FreshInv /\ FreshInv' /\ LoadsOk /\ [Next]_vars => call' \in [Threads -> CallRecord]
<1> SUFFICES ASSUME FreshInv, FreshInv', LoadsOk, [Next]_vars
             PROVE  call' \in [Threads -> CallRecord]
  OBVIOUS
<1>1. \A t \in Threads : call'[t] \in CallRecord
  BY DEF FreshInv, CallOk
<1>2. UNCHANGED call \/ \E t \in Threads : \E new : call' = [call EXCEPT ![t] = new]
  <2>1. CASE Table \/ Probe \/ UNCHANGED vars
    BY <2>1 DEF Table, GoldJobCommits, OptimizeCommits, Commit, TrinoGoes, TrinoReturns, Probe, vars
  <2>2. ASSUME NEW t \in Threads, NEW request, NEW isConsole, Receive(t, request, isConsole)
        PROVE  \E u \in Threads : \E new : call' = [call EXCEPT ![u] = new]
    BY <2>2 DEF Receive
  <2>3. CASE Call
    BY <2>2, <2>3 DEF Call, ClientCalls, ConsoleReset, ConsoleMore, Threads
  <2>4. ASSUME NEW t \in Threads, Serve(t)
        PROVE  \E u \in Threads : \E new : call' = [call EXCEPT ![u] = new]
    BY <2>4 DEF Serve, CurrentSnapshot, AskCache, Query, FillCache, Reply, Fail
  <2> QED
    BY <2>1, <2>3, <2>4 DEF Next
<1>3. call \in [Threads -> CallRecord]
  BY DEF LoadsOk
<1> QED
  BY <1>1, <1>2, <1>3

\* A thread starts to serve the console, goes on doing so, or has done.
LEMMA LoadsChange ==
    ASSUME LoadsOk, call' \in [Threads -> CallRecord], console' \in ConsoleRecord,
           NEW t \in Threads, NEW new, call' = [call EXCEPT ![t] = new],
           new.step = "idle" => ~new.console,
           console'.loading = console.loading
             + (IF new.console THEN 1 ELSE 0) - (IF call[t].console THEN 1 ELSE 0)
    PROVE  LoadsOk'
<1>1. /\ call \in [Threads -> CallRecord] /\ console \in ConsoleRecord
      /\ IsFiniteSet(Loads) /\ console.loading = Cardinality(Loads)
      /\ \A u \in Threads : call[u].step = "idle" => ~call[u].console
  BY DEF LoadsOk
<1>2. call'[t] = new /\ \A u \in Threads : u # t => call'[u] = call[u]
  BY <1>1
<1>3. new.console \in BOOLEAN /\ call[t].console \in BOOLEAN /\ console.loading \in Nat
  BY <1>1, <1>2 DEF CallRecord, ConsoleRecord
<1>4. \A u \in Threads : call'[u].step = "idle" => ~call'[u].console
  BY <1>1, <1>2
<1>5. IsFiniteSet(Loads') /\ console'.loading = Cardinality(Loads')
  <2>1. CASE new.console /\ ~call[t].console
    <3>1. Loads' = Loads \union {t} /\ t \notin Loads
      BY <1>2, <2>1 DEF Loads
    <3>2. console'.loading = console.loading + 1
      BY <1>3, <2>1
    <3> QED
      BY <1>1, <3>1, <3>2, FS_AddElement
  <2>2. CASE ~new.console /\ call[t].console
    <3>1. Loads' = Loads \ {t} /\ t \in Loads
      BY <1>2, <2>2 DEF Loads
    <3>2. console'.loading = console.loading - 1
      BY <1>3, <2>2
    <3> QED
      BY <1>1, <3>1, <3>2, FS_RemoveElement
  <2>3. CASE (new.console /\ call[t].console) \/ (~new.console /\ ~call[t].console)
    <3>1. Loads' = Loads
      BY <1>2, <2>3 DEF Loads
    <3>2. console'.loading = console.loading
      BY <1>3, <2>3
    <3> QED
      BY <1>1, <3>1, <3>2
  <2> QED
    BY <1>3, <2>1, <2>2, <2>3
<1> QED
  BY <1>4, <1>5 DEF LoadsOk

LEMMA LoadsKept ==
    ASSUME LoadsOk, UNCHANGED call, console' \in ConsoleRecord, console'.loading = console.loading
    PROVE  LoadsOk'
BY DEF LoadsOk, Loads

LEMMA LoadsStep == FreshInv /\ FreshInv' /\ LoadsOk /\ [Next]_vars => LoadsOk'
<1> SUFFICES ASSUME FreshInv, FreshInv', LoadsOk, [Next]_vars PROVE LoadsOk'
  OBVIOUS
<1>0. /\ call' \in [Threads -> CallRecord] /\ call \in [Threads -> CallRecord]
      /\ console \in ConsoleRecord /\ IsFiniteSet(Loads) /\ console.loading = Cardinality(Loads)
      /\ \A t \in Threads : call[t].step = "idle" => ~call[t].console
  BY CallStep DEF LoadsOk
<1>a. console.loading \in Nat /\ console.impatient \in Nat /\ console.stable \subseteq GoldRows
      /\ console.cursor \in 0 .. NRows
  BY <1>0 DEF ConsoleRecord
<1>1. CASE Table \/ Probe \/ UNCHANGED vars
  <2>1. UNCHANGED call
    BY <1>1 DEF Table, GoldJobCommits, OptimizeCommits, Commit, TrinoGoes, TrinoReturns, Probe, vars
  <2>2. UNCHANGED console \/ \E rows : console' = [console EXCEPT !.stable = @ \intersect rows]
    BY <1>1 DEF Table, GoldJobCommits, OptimizeCommits, Commit, TrinoGoes, TrinoReturns, Probe, vars
  <2>3. console' \in ConsoleRecord /\ console'.loading = console.loading
    BY <1>0, <1>a, <2>2 DEF ConsoleRecord
  <2> QED
    BY <2>1, <2>3, LoadsKept
<1>2. ASSUME NEW t \in Threads, NEW request, NEW isConsole \in BOOLEAN,
             Receive(t, request, isConsole), console' \in ConsoleRecord,
             console'.loading = console.loading + (IF isConsole THEN 1 ELSE 0)
      PROVE  LoadsOk'
  <2> DEFINE new == [Idle EXCEPT !.step = "received", !.request = request,
                                 !.console = isConsole, !.since = DataAt(Newest)]
  <2>1. call' = [call EXCEPT ![t] = new] /\ ~call[t].console
    BY <1>0, <1>2 DEF Receive
  <2>2. new.step = "received" /\ new.console = isConsole
    BY DEF Idle
  <2> HIDE DEF new
  <2>3. console'.loading = console.loading
             + (IF new.console THEN 1 ELSE 0) - (IF call[t].console THEN 1 ELSE 0)
    BY <1>2, <1>a, <2>1, <2>2
  <2> QED
    BY <1>0, <1>2, <2>1, <2>2, <2>3, LoadsChange
<1>3. CASE Call
  <2>1. ASSUME NEW t \in Clients, ClientCalls(t) PROVE LoadsOk'
    <3>1. PICK request \in ClientRequests : Receive(t, request, FALSE) /\ UNCHANGED console
      BY <2>1 DEF ClientCalls
    <3>2. console'.loading = console.loading + (IF FALSE THEN 1 ELSE 0)
      BY <1>a, <3>1
    <3>3. t \in Threads
      BY DEF Threads
    <3> QED
      BY <1>0, <1>2, <3>1, <3>2, <3>3
  <2>2. ASSUME NEW t \in Console, ConsoleReset(t) PROVE LoadsOk'
    <3>1. RowsAt(Newest) \subseteq GoldRows
      BY TableRows, DataType DEF FreshInv
    <3>2. console' \in ConsoleRecord /\ console'.loading = console.loading + 1
      BY <1>a, <2>2, <3>1, ApiAssumption DEF ConsoleReset, ConsoleRecord
    <3> QED
      BY <1>2, <2>2, <3>2 DEF ConsoleReset, Threads
  <2>3. ASSUME NEW t \in Console, ConsoleMore(t) PROVE LoadsOk'
    <3>1. console' \in ConsoleRecord /\ console'.loading = console.loading + 1
      <4>1. PICK rows : console' = [console EXCEPT !.more = FALSE, !.loading = console.loading + 1,
                                                   !.stable = console.stable \intersect rows]
        BY <2>3 DEF ConsoleMore
      <4>2. console.loading + 1 \in Nat /\ console.stable \intersect rows \in SUBSET GoldRows
        BY <1>a
      <4> QED
        BY <1>0, <4>1, <4>2 DEF ConsoleRecord
    <3> QED
      BY <1>2, <2>3, <3>1 DEF ConsoleMore, Threads
  <2> QED
    BY <1>3, <2>1, <2>2, <2>3 DEF Call
<1>4. ASSUME NEW t \in Threads, Serve(t) PROVE LoadsOk'
  <2>0. call[t] \in CallRecord /\ call[t].console \in BOOLEAN /\ CallOk(call[t])
    BY <1>0 DEF CallRecord, FreshInv
  <2>1. CASE CurrentSnapshot(t) \/ AskCache(t) \/ Query(t) \/ FillCache(t)
    <3> DEFINE new == call'[t]
    <3>1. call' = [call EXCEPT ![t] = new] /\ UNCHANGED console
      BY <1>0, <2>1 DEF CurrentSnapshot, AskCache, Query, FillCache
    <3>2. new.console = call[t].console /\ new.step # "idle"
      BY <1>0, <2>0, <2>1 DEF CurrentSnapshot, AskCache, Query, FillCache, CallRecord
    <3> HIDE DEF new
    <3>3. console'.loading = console.loading
               + (IF new.console THEN 1 ELSE 0) - (IF call[t].console THEN 1 ELSE 0)
      BY <1>a, <2>0, <3>1, <3>2
    <3> QED
      BY <1>0, <3>1, <3>2, <3>3, LoadsChange
  <2>2. CASE Reply(t) \/ Fail(t)
    <3>1. call' = [call EXCEPT ![t] = Idle] /\ Idle.step = "idle" /\ ~Idle.console
      BY <2>2 DEF Reply, Fail, Idle
    <3>2. CASE ~call[t].console
      <4>1. UNCHANGED console
        BY <2>2, <3>2 DEF Reply, Fail
      <4>2. console'.loading = console.loading
               + (IF Idle.console THEN 1 ELSE 0) - (IF call[t].console THEN 1 ELSE 0)
        BY <1>a, <3>1, <3>2, <4>1
      <4> QED
        BY <1>0, <3>1, <4>1, <4>2, LoadsChange
    <3>3. CASE call[t].console
      <4>1. console.loading - 1 \in Nat
        <5>1. t \in Loads
          BY <3>3 DEF Loads
        <5>2. Cardinality(Loads) # 0
          BY <1>0, <5>1, FS_EmptySet
        <5> QED
          BY <1>0, <1>a, <5>2
      <4>2. CASE Fail(t)
        <5>1. console' \in ConsoleRecord /\ console'.loading = console.loading - 1
          BY <1>0, <3>3, <4>1, <4>2 DEF Fail, ConsoleRecord
        <5>2. console'.loading = console.loading
                 + (IF Idle.console THEN 1 ELSE 0) - (IF call[t].console THEN 1 ELSE 0)
          BY <1>a, <3>1, <3>3, <5>1
        <5> QED
          BY <1>0, <3>1, <5>1, <5>2, LoadsChange
      <4>3. CASE Reply(t)
        <5> DEFINE rows == Answer(call[t].value.request, call[t].value.from)
                   page == Lowest(rows, Limit)
        <5>1. /\ TableOk /\ call[t].step = "reply"
              /\ call[t].value.request \in Requests /\ call[t].value.from \in 0 .. Newest
          BY <2>0, <4>3 DEF Reply, FreshInv, CallOk, CallRecord, Values
        <5>2. FiniteRows(rows) /\ rows \subseteq GoldRows /\ NextCursor(rows) \in 0 .. NRows
          BY <4>3, <5>1, AnswerRows, CursorIsRow
        <5>3. console' = [console EXCEPT !.listed = @ \o InOrder(page), !.cursor = NextCursor(rows),
                                         !.more = NextCursor(rows) # 0, !.loading = @ - 1]
          BY <3>3, <4>3 DEF Reply
        <5> HIDE DEF rows
        <5>4. FiniteRows(page) /\ page \subseteq GoldRows
          BY <5>2, LowestRows, ApiAssumption
        <5> HIDE DEF page
        <5>5. InOrder(page) \in Seq(GoldRows)
          BY <5>4, OrderedRows, SeqOfMore
        <5>6. (console.listed \o InOrder(page)) \in Seq(GoldRows)
          BY <1>0, <5>5 DEF ConsoleRecord
        <5>7. console' \in ConsoleRecord /\ console'.loading = console.loading - 1
          BY <1>0, <4>1, <5>2, <5>3, <5>6 DEF ConsoleRecord
        <5>8. console'.loading = console.loading
                 + (IF Idle.console THEN 1 ELSE 0) - (IF call[t].console THEN 1 ELSE 0)
          BY <1>a, <3>1, <3>3, <5>7
        <5> QED
          BY <1>0, <3>1, <5>7, <5>8, LoadsChange
      <4> QED
        BY <2>2, <4>2, <4>3
    <3> QED
      BY <2>0, <3>2, <3>3
  <2> QED
    BY <1>4, <2>1, <2>2 DEF Serve
<1> QED
  BY <1>1, <1>3, <1>4 DEF Next

ServeInv == FreshInv /\ ConsoleOk /\ OutsideOk /\ RoomOk /\ LoadsOk

LEMMA ServeInit == Init => ServeInv
<1> SUFFICES ASSUME Init PROVE ServeInv
  OBVIOUS
<1>1. OutsideOk
  BY DEF Init, OutsideOk
<1>2. RoomOk
  BY CacheAssumption DEF Init, CacheInit, RoomOk
<1>3. LoadsOk
  <2>1. call \in [Threads -> CallRecord] /\ \A t \in Threads : ~call[t].console
    BY IdleType DEF Init
  <2>2. Loads = {}
    BY <2>1 DEF Loads
  <2>3. console \in ConsoleRecord /\ console.loading = 0
    BY ApiAssumption DEF Init, ConsoleRecord
  <2> QED
    BY <2>1, <2>2, <2>3, FS_EmptySet DEF LoadsOk
<1> QED
  BY <1>1, <1>2, <1>3, FreshInit, ConsoleInit DEF ServeInv

LEMMA ServeStep == ServeInv /\ [Next]_vars => ServeInv'
<1> SUFFICES ASSUME ServeInv, [Next]_vars PROVE ServeInv'
  OBVIOUS
<1>1. FreshInv' /\ ConsoleOk'
  BY FreshStep, ConsoleStep DEF ServeInv
<1>2. OutsideOk' /\ RoomOk' /\ LoadsOk'
  BY <1>1, OutsideStep, RoomStep, LoadsStep DEF ServeInv
<1> QED
  BY <1>1, <1>2 DEF ServeInv

LEMMA ServeTypes == ServeInv => TypeOK
<1> SUFFICES ASSUME ServeInv PROVE TypeOK
  OBVIOUS
<1>1. FiledUnder(cacheId) \subseteq [key : Requests, value : Values]
  BY DEF FiledUnder
<1>2. entries \in Seq(FiledUnder(cacheId))
  BY DEF ServeInv, FreshInv, CacheOk
<1>3. entries \in Seq([key : Requests, value : Values])
  BY <1>1, <1>2, SeqOfMore
<1>4. /\ cacheId \in 0 .. Newest
      /\ snapshots \in Seq([data : Nat, rows : SUBSET GoldRows])
  BY DEF ServeInv, FreshInv, CacheOk, TableOk
<1>5. call \in [Threads -> [step : {"idle", "received", "known", "missed", "read", "reply"},
                            request : Requests, console : BOOLEAN, since : Nat,
                            id : Nat, value : Values]]
  BY DEF ServeInv, LoadsOk, CallRecord, Steps
<1>6. console \in [listed : Seq(GoldRows), cursor : 0 .. NRows, more : BOOLEAN,
                   loading : Nat, stable : SUBSET GoldRows, impatient : Nat]
  BY DEF ServeInv, LoadsOk, ConsoleRecord
<1>7. Len(entries) <= MaxEntries
  BY DEF ServeInv, RoomOk
<1> QED
  BY <1>3, <1>4, <1>5, <1>6, <1>7, Zenon DEF TypeOK, ServeInv, OutsideOk

\* The type invariant of GoldApi: the bounded cache holds answers of the table
\* it is filed under, and the console's count of loads under way never goes
\* below 0, however many of them overlap and fail.
THEOREM ApiTypeCorrect == Spec => []TypeOK
BY ServeInit, ServeStep, ServeTypes, PTL DEF Spec

-----------------------------------------------------------------------------
(***************************************************************************)
(* The walk of a console that does one load at a time.  It has shown all   *)
(* the rows up to the cursor it asked or will ask from that have been in   *)
(* the table all the time, and none after it.  Rows that stay are in every *)
(* snapshot a page can come from, the one looked up or a later one.  That  *)
(* none is missing needs the text of the form's filters to be theirs alone.*)
(***************************************************************************)
OwnText == \A f \in FormFilters, g \in Filters : KeyText[g] = KeyText[f] => g = f

Shown(con, r) == \E i \in DOMAIN con.listed : con.listed[i] = r

Walked(con, pos) ==
    /\ \A i \in DOMAIN con.listed : con.listed[i] <= pos
    /\ OwnText => \A r \in con.stable : r <= pos => Shown(con, r)

Increasing(seq) == \A i, j \in DOMAIN seq : i < j => seq[i] < seq[j]

LoadOk(c) ==
    /\ c.request.endpoint = "hourly" /\ c.request.filter \in FormFilters
    /\ console.stable \subseteq Selects[c.request.filter]
    /\ Walked(console, c.request.after)
    /\ c.step \in {"known", "missed", "read"} =>
         \A i \in c.id .. Newest : console.stable \subseteq RowsAt(i)
    /\ c.step = "reply" => console.stable \subseteq RowsAt(c.value.from)

WalkInv ==
    /\ Increasing(console.listed)
    /\ console.stable \subseteq RowsAt(Newest)
    /\ \A t, u \in Threads : call[t].console /\ call[u].console => t = u
    /\ console.more => Walked(console, console.cursor) /\ \A t \in Threads : ~call[t].console
    /\ \A t \in Threads : call[t].console => LoadOk(call[t])

LEMMA WalkInit == Init => WalkInv
BY IdleType DEF Init, WalkInv, Increasing, RowsAt, Newest

\* Rows that are no longer in the table are no longer asked for.
LEMMA WalkedFewer ==
    ASSUME NEW con, NEW more, more.listed = con.listed, more.stable \subseteq con.stable,
           NEW pos, Walked(con, pos)
    PROVE  Walked(more, pos)
BY DEF Walked, Shown

LEMMA CommitWalks ==
    ASSUME ServeInv, WalkInv, NEW data, NEW rows \in SUBSET GoldRows, Commit(data, rows)
    PROVE  WalkInv'
<1>1. /\ snapshots \in Seq([data : Nat, rows : SUBSET GoldRows]) /\ Newest \in Nat
      /\ call \in [Threads -> CallRecord] /\ console \in ConsoleRecord
      /\ \A t \in Threads : CallOk(call[t])
  BY DataType DEF ServeInv, FreshInv, LoadsOk, TableOk
<1>2. /\ UNCHANGED call /\ console' = [console EXCEPT !.stable = @ \intersect rows]
      /\ snapshots' = Append(snapshots, [data |-> data, rows |-> rows])
  BY DEF Commit
<1>3. /\ Newest' = Newest + 1 /\ \A i \in 0 .. Newest : RowsAt(i)' = RowsAt(i)
      /\ \A n : n = Newest + 1 => RowsAt(n)' = rows
  <2>1. /\ Len(snapshots') = Len(snapshots) + 1
        /\ snapshots'[Len(snapshots) + 1].rows = rows
        /\ \A i \in 1 .. Len(snapshots) : snapshots'[i] = snapshots[i]
    BY <1>1, <1>2
  <2>2. ASSUME NEW i \in 0 .. Newest PROVE RowsAt(i)' = RowsAt(i)
    BY <1>1, <2>1 DEF RowsAt, Newest
  <2>3. ASSUME NEW n, n = Newest + 1 PROVE RowsAt(n)' = rows
    <3>1. n # 0 /\ n = Len(snapshots) + 1
      BY <1>1, <2>3 DEF Newest
    <3> QED
      BY <2>1, <3>1 DEF RowsAt
  <2> QED
    BY <2>1, <2>2, <2>3 DEF Newest
<1>4. /\ console'.listed = console.listed /\ console'.cursor = console.cursor
      /\ console'.more = console.more /\ console'.stable = console.stable \intersect rows
  BY <1>1, <1>2 DEF ConsoleRecord
<1>5. \A pos : Walked(console, pos) => Walked(console', pos)
  BY <1>4, WalkedFewer
<1>6. ASSUME NEW t \in Threads, call[t].console PROVE LoadOk(call[t])'
  <2>1. LoadOk(call[t]) /\ CallOk(call[t]) /\ call[t] \in CallRecord
    BY <1>1, <1>6 DEF WalkInv
  <2>2. ASSUME call[t].step \in {"known", "missed", "read"}
        PROVE  \A i \in call[t].id .. Newest' : console'.stable \subseteq RowsAt(i)'
    <3>1. call[t].id \in 0 .. Newest
      BY <2>1, <2>2 DEF CallOk
    <3>2. \A i \in call[t].id .. Newest : console.stable \subseteq RowsAt(i)
      BY <2>1, <2>2 DEF LoadOk
    <3> SUFFICES ASSUME NEW i \in call[t].id .. Newest' PROVE console'.stable \subseteq RowsAt(i)'
      OBVIOUS
    <3>3. i = Newest + 1 \/ i \in call[t].id .. Newest
      BY <1>1, <1>3, <3>1
    <3>4. CASE i = Newest + 1
      BY <1>3, <1>4, <3>4
    <3>5. CASE i \in call[t].id .. Newest
      <4>1. i \in 0 .. Newest
        BY <1>1, <3>1, <3>5
      <4> QED
        BY <1>3, <1>4, <3>2, <3>5, <4>1
    <3> QED
      BY <3>3, <3>4, <3>5
  <2>3. ASSUME call[t].step = "reply"
        PROVE  console'.stable \subseteq RowsAt(call[t].value.from)'
    <3>1. call[t].value.from \in 0 .. Newest
      BY <2>1, <2>3 DEF CallOk
    <3>2. RowsAt(call[t].value.from)' = RowsAt(call[t].value.from)
      <4>1. PICK from \in 0 .. Newest : from = call[t].value.from
        BY <3>1
      <4>2. RowsAt(from)' = RowsAt(from)
        BY <1>3
      <4> QED
        BY <1>2, <4>1, <4>2 DEF RowsAt
    <3> QED
      BY <1>4, <2>1, <2>3, <3>2 DEF LoadOk
  <2>4. console'.stable \subseteq Selects[call[t].request.filter]
    BY <1>4, <2>1 DEF LoadOk
  <2> QED
    BY <1>2, <1>5, <2>1, <2>2, <2>3, <2>4 DEF LoadOk
<1>7. console'.stable \subseteq RowsAt(Newest)'
  <2>1. RowsAt(Newest)' = rows
    <3>1. PICK n : n = Newest + 1
      OBVIOUS
    <3>2. RowsAt(n)' = rows
      BY <1>3, <3>1
    <3> QED
      BY <1>3, <3>1, <3>2 DEF RowsAt
  <2> QED
    BY <1>4, <2>1
<1>8. \A t \in Threads : call'[t] = call[t]
  BY <1>2
<1> QED
  BY <1>2, <1>4, <1>5, <1>6, <1>7, <1>8 DEF WalkInv

\* One thread moves on and the page stays as it is.
LEMMA WalkOneThread ==
    ASSUME LoadsOk, WalkInv, UNCHANGED snapshots, NEW t \in Threads, NEW new,
           call' = [call EXCEPT ![t] = new], new.console => call[t].console /\ LoadOk(new),
           console'.listed = console.listed, console'.stable = console.stable,
           console'.cursor = console.cursor, console'.more = console.more
    PROVE  WalkInv'
<1>1. Newest' = Newest /\ \A i : RowsAt(i)' = RowsAt(i)
  BY DEF Newest, RowsAt
<1>2. \A pos : Walked(console, pos) => Walked(console', pos)
  BY WalkedFewer
<1>3. call'[t] = new /\ \A u \in Threads : u # t => call'[u] = call[u]
  BY DEF LoadsOk
<1>4. \A c : LoadOk(c) => LoadOk(c)'
  BY <1>1, <1>2 DEF LoadOk
<1>5. \A u \in Threads : call'[u].console => call[u].console /\ LoadOk(call'[u])
  BY <1>3 DEF WalkInv
<1>6. ASSUME NEW u \in Threads, call'[u].console PROVE LoadOk(call[u])'
  <2>1. PICK c : c = call'[u]
    OBVIOUS
  <2>2. LoadOk(c)'
    BY <1>4, <1>5, <1>6, <2>1
  <2> QED
    BY <2>1, <2>2 DEF LoadOk
<1>7. RowsAt(Newest)' = RowsAt(Newest)
  BY DEF RowsAt, Newest
<1> QED
  BY <1>2, <1>5, <1>6, <1>7 DEF WalkInv

LEMMA WalkSame ==
    ASSUME WalkInv, UNCHANGED <<snapshots, call, console>>
    PROVE  WalkInv'
BY DEF WalkInv, LoadOk, RowsAt, Newest

\* The steps of a request before it is answered.
LEMMA ServeWalks ==
    ASSUME ServeInv, WalkInv, NEW t \in Threads,
           CurrentSnapshot(t) \/ AskCache(t) \/ Query(t) \/ FillCache(t)
    PROVE  WalkInv'
<1>1. /\ LoadsOk /\ FreshInv /\ call \in [Threads -> CallRecord] /\ CallOk(call[t])
      /\ call[t] \in CallRecord /\ Newest \in Nat /\ console.stable \subseteq RowsAt(Newest)
  BY DataType DEF ServeInv, LoadsOk, FreshInv, WalkInv
<1> DEFINE new == call'[t]
<1>2. call' = [call EXCEPT ![t] = new] /\ UNCHANGED <<snapshots, console>>
  BY <1>1 DEF CurrentSnapshot, AskCache, Query, FillCache, tableVars
<1>3. ASSUME new.console PROVE call[t].console /\ LoadOk(new)
  <2>1. call[t].console
    BY <1>1, <1>3 DEF CurrentSnapshot, AskCache, Query, FillCache, CallRecord
  <2>2. LoadOk(call[t])
    BY <2>1 DEF WalkInv
  <2>3. CASE CurrentSnapshot(t)
    <3>1. new = [call[t] EXCEPT !.step = "known", !.id = Newest]
      BY <1>1, <2>3 DEF CurrentSnapshot
    <3>2. new.request = call[t].request /\ new.step = "known" /\ new.id = Newest
      BY <1>1, <3>1 DEF CallRecord
    <3>3. \A i \in Newest .. Newest : i = Newest
      BY <1>1
    <3> HIDE DEF new
    <3> QED
      BY <1>1, <2>1, <2>2, <3>2, <3>3 DEF LoadOk
  <2>4. CASE AskCache(t) /\ ~Hit(call[t].id, CacheKey(call[t].request))
    <3>1. new = [call[t] EXCEPT !.step = "missed"] /\ call[t].step = "known"
      BY <1>1, <2>4 DEF AskCache
    <3>2. new.request = call[t].request /\ new.step = "missed" /\ new.id = call[t].id
      BY <1>1, <3>1 DEF CallRecord
    <3> HIDE DEF new
    <3> QED
      BY <2>1, <2>2, <3>1, <3>2 DEF LoadOk
  <2>5. CASE AskCache(t) /\ Hit(call[t].id, CacheKey(call[t].request))
    <3> DEFINE value == EntryOf(CacheKey(call[t].request)).value
    <3>1. new = [call[t] EXCEPT !.step = "reply", !.value = value] /\ call[t].step = "known"
      BY <1>1, <2>5 DEF AskCache
    <3>2. EntryOf(CacheKey(call[t].request)) \in FiledUnder(call[t].id)
      BY <1>1, <2>5, EntryFound DEF FreshInv, CacheOk, Hit
    <3>3. value.from \in call[t].id .. Newest
      BY <3>2 DEF FiledUnder
    <3> HIDE DEF value
    <3>4. new.request = call[t].request /\ new.step = "reply" /\ new.value = value
      BY <1>1, <3>1 DEF CallRecord
    <3> HIDE DEF new
    <3> QED
      BY <2>1, <2>2, <3>1, <3>3, <3>4 DEF LoadOk
  <2>6. CASE Query(t)
    <3>1. /\ new = [call[t] EXCEPT !.step = "read",
                                   !.value = [request |-> call[t].request, from |-> Newest]]
          /\ call[t].step = "missed"
      BY <1>1, <2>6 DEF Query
    <3>2. new.request = call[t].request /\ new.step = "read" /\ new.id = call[t].id
      BY <1>1, <3>1 DEF CallRecord
    <3> HIDE DEF new
    <3> QED
      BY <2>1, <2>2, <3>1, <3>2 DEF LoadOk
  <2>7. CASE FillCache(t)
    <3>1. new = [call[t] EXCEPT !.step = "reply"] /\ call[t].step = "read"
      BY <1>1, <2>7 DEF FillCache
    <3>2. new.request = call[t].request /\ new.step = "reply" /\ new.value = call[t].value
      BY <1>1, <3>1 DEF CallRecord
    <3>3. call[t].value.from \in call[t].id .. Newest
      BY <1>1, <3>1 DEF CallOk
    <3> HIDE DEF new
    <3> QED
      BY <2>1, <2>2, <3>1, <3>2, <3>3 DEF LoadOk
  <2> QED
    BY <2>3, <2>4, <2>5, <2>6, <2>7
<1> HIDE DEF new
<1> QED
  BY <1>1, <1>2, <1>3, WalkOneThread

\* The console's page is answered: what it shows now, and up to where.
LEMMA PageShown ==
    ASSUME ServeInv, WalkInv, NEW t \in Threads, Reply(t), call[t].console
    PROVE  /\ Increasing(console'.listed) /\ console'.stable = console.stable
           /\ console'.more => Walked(console', console'.cursor)
           /\ ~console'.more /\ OwnText => \A r \in console'.stable : Shown(console', r)
<1> DEFINE request == call[t].value.request
           from == call[t].value.from
           M == Matching(request, from)
           A == RowsAfter(request, from)
           rows == Answer(request, from)
           page == Lowest(rows, Limit)
           cursor == NextCursor(rows)
<1>1. /\ call[t] \in CallRecord /\ call[t].step = "reply" /\ TableOk /\ console \in ConsoleRecord
      /\ request \in Requests /\ call[t].request \in Requests /\ from \in 0 .. Newest
      /\ CacheKey(request) = CacheKey(call[t].request)
  BY DEF ServeInv, LoadsOk, FreshInv, CallOk, CallRecord, Reply, Values
<1>b. /\ request.endpoint = call[t].request.endpoint /\ request.after = call[t].request.after
      /\ KeyText[request.filter] = KeyText[call[t].request.filter]
      /\ request.after \in Nat /\ request.filter \in Filters
  BY <1>1, KeyFields, ApiAssumption DEF Requests
<1>2. /\ request.endpoint = "hourly" /\ Walked(console, request.after)
      /\ OwnText => console.stable \subseteq M
  <2>1. LoadOk(call[t]) /\ call[t].step = "reply"
    BY <1>1 DEF WalkInv
  <2>2. OwnText => request.filter = call[t].request.filter
    BY <1>b, <2>1 DEF LoadOk, OwnText
  <2> QED
    BY <1>b, <2>1, <2>2 DEF LoadOk, Matching
<1>3. /\ rows = Lowest(A, Limit + 1) /\ FiniteRows(A) /\ 0 \notin A /\ M \subseteq GoldRows
      /\ \A r \in M : r \in A <=> r > request.after
      /\ A \subseteq M
  BY <1>1, <1>2, AnswerRows DEF RowsAfter, Matching
<1>4. console' = [console EXCEPT !.listed = @ \o InOrder(page), !.cursor = cursor,
                                 !.more = cursor # 0, !.loading = @ - 1]
  BY DEF Reply
<1>5. \A r \in M : r \in Nat
  BY <1>3, ApiAssumption DEF GoldRows
<1>a. PICK after : after = request.after
  OBVIOUS
<1> HIDE DEF A, M, rows, from, request
<1>6. /\ FiniteRows(page) /\ page \subseteq A
      /\ cursor = 0 => page = A
      /\ cursor # 0 => /\ cursor \in A
                       /\ \A r \in page : r <= cursor
                       /\ \A r \in A : r <= cursor => r \in page
  BY <1>3, PageRows
<1> HIDE DEF page, cursor
<1>7. PICK next : next = InOrder(page)
  OBVIOUS
<1>8. /\ next \in Seq(page)
      /\ \A i, j \in DOMAIN next : i < j => next[i] < next[j]
      /\ \A r \in page : \E i \in DOMAIN next : next[i] = r
  BY <1>6, <1>7, OrderedRows
<1>9. PICK old : old = console.listed
  OBVIOUS
<1>10. /\ old \in Seq(GoldRows) /\ Increasing(old)
       /\ \A i \in 1 .. Len(old) : old[i] <= after
  BY <1>1, <1>2, <1>9, <1>a DEF ConsoleRecord, WalkInv, Walked
<1>11. next \in Seq(GoldRows) /\ \A i \in 1 .. Len(next) : next[i] \in page /\ next[i] > after
  <2>1. page \subseteq GoldRows /\ \A r \in page : r > after
    BY <1>3, <1>6, <1>a
  <2>2. next \in Seq(GoldRows)
    BY <1>8, <2>1, SeqOfMore
  <2>3. \A i \in 1 .. Len(next) : next[i] \in page
    BY <1>8
  <2> QED
    BY <2>1, <2>2, <2>3
<1>12. /\ console'.listed = old \o next /\ console'.stable = console.stable
       /\ console'.cursor = cursor /\ console'.more = (cursor # 0)
  BY <1>1, <1>4, <1>7, <1>9 DEF ConsoleRecord
<1>13. /\ (old \o next) \in Seq(GoldRows)
       /\ DOMAIN (old \o next) = 1 .. Len(old) + Len(next)
       /\ Len(old) \in Nat /\ Len(next) \in Nat
       /\ DOMAIN old = 1 .. Len(old) /\ DOMAIN next = 1 .. Len(next)
       /\ \A i \in 1 .. Len(old) : (old \o next)[i] = old[i]
       /\ \A i \in 1 .. Len(next) : (old \o next)[Len(old) + i] = next[i]
       /\ \A i \in 1 .. Len(old) + Len(next) :
            i \in 1 .. Len(old) \/ (i - Len(old) \in 1 .. Len(next)
                                     /\ (old \o next)[i] = next[i - Len(old)])
  BY <1>10, <1>11
<1>14. PICK all : all = old \o next
  OBVIOUS
<1>15. /\ \A i \in 1 .. Len(old) : old[i] \in Nat
       /\ \A i \in 1 .. Len(next) : next[i] \in Nat
       /\ after \in Nat
  BY <1>b, <1>10, <1>11, <1>a, ApiAssumption DEF GoldRows
<1>16. Increasing(all)
  <2> SUFFICES ASSUME NEW i \in DOMAIN all, NEW j \in DOMAIN all, i < j
               PROVE  all[i] < all[j]
    BY DEF Increasing
  <2>0. i \in 1 .. Len(old) + Len(next) /\ j \in 1 .. Len(old) + Len(next)
    BY <1>13, <1>14
  <2>1. CASE i \in 1 .. Len(old) /\ j \in 1 .. Len(old)
    BY <1>10, <1>13, <1>14, <2>1 DEF Increasing
  <2>2. CASE i \in 1 .. Len(old) /\ j \notin 1 .. Len(old)
    <3>1. all[i] = old[i] /\ old[i] <= after /\ old[i] \in Nat
      BY <1>10, <1>13, <1>14, <1>15, <2>2
    <3>2. PICK k \in 1 .. Len(next) : all[j] = next[k]
      BY <1>13, <1>14, <2>0, <2>2
    <3>3. next[k] > after /\ next[k] \in Nat
      BY <1>11, <1>15
    <3> QED
      BY <1>15, <3>1, <3>2, <3>3
  <2>3. CASE i \notin 1 .. Len(old)
    <3>1. j \notin 1 .. Len(old)
      BY <1>13, <2>0, <2>3
    <3>2. /\ i - Len(old) \in 1 .. Len(next) /\ all[i] = next[i - Len(old)]
          /\ j - Len(old) \in 1 .. Len(next) /\ all[j] = next[j - Len(old)]
      BY <1>13, <1>14, <2>0, <2>3, <3>1
    <3>3. i - Len(old) < j - Len(old)
      BY <1>13, <2>0
    <3> QED
      BY <1>8, <1>13, <3>2, <3>3
  <2> QED
    BY <2>1, <2>2, <2>3
<1>17. \A r \in page : \E i \in DOMAIN all : all[i] = r
  <2> SUFFICES ASSUME NEW r \in page PROVE \E i \in DOMAIN all : all[i] = r
    OBVIOUS
  <2>1. PICK k \in 1 .. Len(next) : next[k] = r
    BY <1>8, <1>13
  <2>2. Len(old) + k \in DOMAIN all /\ all[Len(old) + k] = r
    BY <1>13, <1>14, <2>1
  <2> QED
    BY <2>2
<1>18. OwnText => \A r \in console.stable : r <= after => \E i \in DOMAIN all : all[i] = r
  <2> SUFFICES ASSUME OwnText, NEW r \in console.stable, r <= after PROVE \E i \in DOMAIN all : all[i] = r
    OBVIOUS
  <2>1. PICK k \in 1 .. Len(old) : old[k] = r
    BY <1>2, <1>9, <1>13, <1>a DEF Walked, Shown
  <2>2. k \in DOMAIN all /\ all[k] = r
    BY <1>13, <1>14, <2>1
  <2> QED
    BY <2>2
<1>19. ASSUME OwnText, NEW r \in console.stable, r \in page \/ r \notin A
       PROVE  \E i \in DOMAIN all : all[i] = r
  <2>1. CASE r \in page
    BY <1>17, <2>1
  <2>2. CASE r \notin A
    <3>1. r \in M /\ r \in Nat /\ ~(r > after)
      BY <1>2, <1>3, <1>5, <1>19, <1>a, <2>2
    <3> QED
      BY <1>15, <1>18, <1>19, <3>1
  <2> QED
    BY <1>19, <2>1, <2>2
<1>20. ASSUME cursor = 0, OwnText PROVE \A r \in console'.stable : Shown(console', r)
  <2>1. \A r \in console.stable : r \in page \/ r \notin A
    BY <1>6, <1>20
  <2> QED
    BY <1>12, <1>14, <1>19, <1>20, <2>1 DEF Shown
<1>21. ASSUME cursor # 0 PROVE Walked(console', cursor)
  <2>1. cursor \in A /\ cursor > after /\ cursor \in Nat
    BY <1>3, <1>5, <1>6, <1>21, <1>a
  <2>2. ASSUME NEW i \in DOMAIN all PROVE all[i] <= cursor
    <3>1. CASE i \in 1 .. Len(old)
      <4>1. all[i] = old[i] /\ old[i] <= after /\ old[i] \in Nat
        BY <1>10, <1>13, <1>14, <1>15, <3>1
      <4> QED
        BY <1>15, <2>1, <4>1
    <3>2. CASE i \notin 1 .. Len(old)
      <4>1. PICK k \in 1 .. Len(next) : all[i] = next[k]
        BY <1>13, <1>14, <2>2, <3>2
      <4> QED
        BY <1>6, <1>11, <1>21, <4>1
    <3> QED
      BY <3>1, <3>2
  <2>3. ASSUME OwnText, NEW r \in console.stable, r <= cursor PROVE \E i \in DOMAIN all : all[i] = r
    BY <1>6, <1>19, <1>21, <2>3
  <2> QED
    BY <1>12, <1>14, <2>2, <2>3 DEF Walked, Shown
<1> QED
  BY <1>12, <1>14, <1>16, <1>20, <1>21

LEMMA ReplyWalks ==
    ASSUME ServeInv, WalkInv, NEW t \in Threads, Reply(t) \/ Fail(t)
    PROVE  WalkInv'
<1>1. /\ LoadsOk /\ call \in [Threads -> CallRecord] /\ console \in ConsoleRecord
  BY DEF ServeInv, LoadsOk
<1>2. call' = [call EXCEPT ![t] = Idle] /\ ~Idle.console /\ UNCHANGED snapshots
  BY DEF Reply, Fail, Idle, tableVars
<1>3. CASE Fail(t) \/ ~call[t].console
  <2>1. /\ console'.listed = console.listed /\ console'.stable = console.stable
        /\ console'.cursor = console.cursor /\ console'.more = console.more
    BY <1>1, <1>3 DEF Reply, Fail, ConsoleRecord
  <2> QED
    BY <1>1, <1>2, <2>1, WalkOneThread
<1>4. CASE Reply(t) /\ call[t].console
  <2>1. \A u \in Threads : ~call'[u].console
    BY <1>1, <1>2, <1>4 DEF WalkInv
  <2>2. /\ Increasing(console'.listed) /\ console'.stable = console.stable
        /\ console'.more => Walked(console', console'.cursor)
    BY <1>4, PageShown
  <2>3. RowsAt(Newest)' = RowsAt(Newest)
    BY <1>2 DEF RowsAt, Newest
  <2> QED
    BY <2>1, <2>2, <2>3 DEF WalkInv
<1> QED
  BY <1>3, <1>4

\* A load begins while none is under way.
LEMMA ReceiveWalks ==
    ASSUME ServeInv, NEW t \in Threads, NEW request, request.endpoint = "hourly",
           request.filter \in FormFilters, console'.stable \subseteq Selects[request.filter],
           Receive(t, request, TRUE), \A u \in Threads : ~call[u].console,
           Increasing(console'.listed), console'.stable \subseteq RowsAt(Newest),
           Walked(console', request.after), ~console'.more
    PROVE  WalkInv'
<1> DEFINE new == [Idle EXCEPT !.step = "received", !.request = request,
                               !.console = TRUE, !.since = DataAt(Newest)]
<1>1. /\ call \in [Threads -> CallRecord] /\ call' = [call EXCEPT ![t] = new]
      /\ UNCHANGED snapshots
  BY DEF ServeInv, LoadsOk, Receive, tableVars
<1>2. new.step = "received" /\ new.request = request
  BY DEF Idle
<1> HIDE DEF new
<1>3. call'[t] = new /\ \A u \in Threads : u # t => ~call'[u].console
  BY <1>1
<1>4. LoadOk(call[t])'
  BY <1>2, <1>3 DEF LoadOk
<1>5. RowsAt(Newest)' = RowsAt(Newest)
  BY <1>1 DEF RowsAt, Newest
<1>6. \A u, v \in Threads : call'[u].console /\ call'[v].console => u = v
  BY <1>3
<1>7. \A u \in Threads : call'[u].console => LoadOk(call[u])'
  BY <1>3, <1>4
<1> QED
  BY <1>5, <1>6, <1>7 DEF WalkInv

LEMMA WalkStep ==
    ASSUME MaxImpatient = 0
    PROVE  ServeInv /\ WalkInv /\ [Next]_vars => WalkInv'
<1> SUFFICES ASSUME ServeInv, WalkInv, [Next]_vars PROVE WalkInv'
  OBVIOUS
<1>0. /\ console \in ConsoleRecord /\ LoadsOk /\ FreshInv
      /\ IsFiniteSet(Loads) /\ console.loading = Cardinality(Loads)
  BY DEF ServeInv, LoadsOk
<1>1. CASE Table
  <2>1. CASE GoldJobCommits
    BY <2>1, CommitWalks DEF GoldJobCommits
  <2>2. CASE OptimizeCommits
    <3>1. RowsAt(Newest) \in SUBSET GoldRows
      BY <1>0, TableRows, DataType DEF FreshInv
    <3> QED
      BY <2>2, <3>1, CommitWalks DEF OptimizeCommits
  <2>3. CASE TrinoGoes \/ TrinoReturns
    BY <2>3, WalkSame DEF TrinoGoes, TrinoReturns
  <2> QED
    BY <1>1, <2>1, <2>2, <2>3 DEF Table
<1>2. CASE Probe \/ UNCHANGED vars
  BY <1>2, WalkSame DEF Probe, tableVars, vars
<1>3. CASE Call
  <2>1. ASSUME NEW t \in Clients, ClientCalls(t) PROVE WalkInv'
    <3>1. PICK request \in ClientRequests : Receive(t, request, FALSE)
      BY <2>1 DEF ClientCalls
    <3> DEFINE new == [Idle EXCEPT !.step = "received", !.request = request,
                                   !.console = FALSE, !.since = DataAt(Newest)]
    <3>2. call' = [call EXCEPT ![t] = new] /\ ~new.console /\ UNCHANGED <<snapshots, console>>
      BY <2>1, <3>1 DEF ClientCalls, Receive, Idle, tableVars
    <3>3. t \in Threads
      BY DEF Threads
    <3> HIDE DEF new
    <3> QED
      BY <1>0, <3>2, <3>3, WalkOneThread
  <2>2. ASSUME NEW t \in Console, ConsoleReset(t) PROVE WalkInv'
    <3>1. \A u \in Threads : ~call[u].console
      <4>1. console.loading = 0
        BY <1>0, <2>2 DEF ConsoleReset, ConsoleRecord
      <4>2. Loads = {}
        BY <1>0, <4>1, FS_EmptySet
      <4> QED
        BY <4>2 DEF Loads
    <3>a. PICK filter \in FormFilters :
            /\ Receive(t, Hourly(filter, 0), TRUE)
            /\ console' = [listed |-> <<>>, cursor |-> 0, more |-> FALSE,
                           loading |-> console.loading + 1,
                           stable |-> RowsAt(Newest) \intersect Selects[filter],
                           impatient |-> console.impatient
                                           + (IF console.loading > 0 THEN 1 ELSE 0)]
      BY <2>2, Zenon DEF ConsoleReset
    <3>2. /\ Receive(t, Hourly(filter, 0), TRUE)
          /\ console'.listed = <<>> /\ ~console'.more
          /\ console'.stable = RowsAt(Newest) \intersect Selects[filter]
      BY <3>a
    <3>3. RowsAt(Newest) \subseteq GoldRows
      BY <1>0, TableRows, DataType DEF FreshInv
    <3>4. Walked(console', 0) /\ Increasing(console'.listed)
      BY <3>2, <3>3, ApiAssumption DEF Walked, Increasing, GoldRows
    <3>5. /\ Hourly(filter, 0).endpoint = "hourly" /\ Hourly(filter, 0).filter = filter
          /\ Hourly(filter, 0).after = 0
      BY DEF Hourly
    <3> QED
      BY <3>1, <3>2, <3>4, <3>5, ReceiveWalks DEF Threads
  <2>3. ASSUME NEW t \in Console, ConsoleMore(t) PROVE WalkInv'
    <3>1. PICK filter \in FormFilters :
            /\ Receive(t, Hourly(filter, console.cursor), TRUE)
            /\ console'.listed = console.listed /\ ~console'.more /\ console.more
            /\ console'.stable = console.stable \intersect Selects[filter]
      BY <1>0, <2>3 DEF ConsoleMore, ConsoleRecord
    <3>2. /\ Walked(console, console.cursor) /\ \A u \in Threads : ~call[u].console
          /\ Increasing(console.listed) /\ console.stable \subseteq RowsAt(Newest)
      BY <3>1 DEF WalkInv
    <3>3. Walked(console', console.cursor)
      BY <3>1, <3>2, WalkedFewer
    <3>4. /\ Hourly(filter, console.cursor).endpoint = "hourly"
          /\ Hourly(filter, console.cursor).filter = filter
          /\ Hourly(filter, console.cursor).after = console.cursor
      BY DEF Hourly
    <3> QED
      BY <3>1, <3>2, <3>3, <3>4, ReceiveWalks DEF Threads
  <2> QED
    BY <1>3, <2>1, <2>2, <2>3 DEF Call
<1>4. ASSUME NEW t \in Threads, Serve(t) PROVE WalkInv'
  BY <1>4, ServeWalks, ReplyWalks DEF Serve
<1> QED
  BY <1>1, <1>2, <1>3, <1>4 DEF Next

\* An answer reaches its thread by Reply alone.
LEMMA AnsweredByReply ==
    ASSUME ServeInv, Next, NEW t \in Threads, call[t].step = "reply", call'[t].step = "idle"
    PROVE  Reply(t)
<1>1. call \in [Threads -> CallRecord]
  BY DEF ServeInv, LoadsOk
<1>2. CASE Table \/ Probe
  BY <1>2 DEF Table, GoldJobCommits, OptimizeCommits, Commit, TrinoGoes, TrinoReturns, Probe
<1>3. ASSUME NEW u \in Threads, NEW request, NEW isConsole, Receive(u, request, isConsole)
      PROVE  FALSE
  BY <1>1, <1>3 DEF Receive
<1>4. CASE Call
  BY <1>3, <1>4 DEF Call, ClientCalls, ConsoleReset, ConsoleMore, Threads
<1>5. ASSUME NEW u \in Threads, Serve(u), u # t PROVE FALSE
  BY <1>1, <1>5 DEF Serve, CurrentSnapshot, AskCache, Query, FillCache, Reply, Fail
<1>6. CASE Serve(t)
  BY <1>6 DEF Serve, CurrentSnapshot, AskCache, Query, FillCache, Fail
<1> QED
  BY <1>2, <1>4, <1>5, <1>6 DEF Next

\* A console that does one load at a time lists rows in order and none twice,
\* though its pages come from different snapshots.
THEOREM ListIsOrdered ==
    ASSUME MaxImpatient = 0
    PROVE  Spec => []ListedInOrder
<1>1. WalkInv => ListedInOrder
  BY DEF WalkInv, Increasing, ListedInOrder
<1> QED
  BY <1>1, ServeInit, ServeStep, WalkInit, WalkStep, PTL DEF Spec

\* At the end of its walk it has shown every row that was in the table from
\* its first page on and that the form let through, if no filter that API
\* clients send leaves the text of one of the form's in the cache key.
THEOREM WalkIsComplete ==
    ASSUME MaxImpatient = 0, OwnText
    PROVE  Spec => WalkMissesNothing
<1> DEFINE Complete ==
      \A t \in Threads :
         call[t].step = "reply" /\ call[t].console /\ call'[t].step = "idle"
           /\ console'.loading = 0 /\ ~console'.more =>
         \A r \in console'.stable : \E i \in DOMAIN console'.listed : console'.listed[i] = r
<1>1. ServeInv /\ WalkInv /\ [Next]_vars => [Complete]_vars
  <2> SUFFICES ASSUME ServeInv, WalkInv, Next, NEW t \in Threads,
                      call[t].step = "reply", call[t].console, call'[t].step = "idle",
                      ~console'.more
               PROVE  \A r \in console'.stable :
                        \E i \in DOMAIN console'.listed : console'.listed[i] = r
    OBVIOUS
  <2>1. Reply(t)
    BY AnsweredByReply
  <2> QED
    BY <2>1, PageShown DEF Shown
<1> QED
  BY <1>1, ServeInit, ServeStep, WalkInit, WalkStep, PTL DEF Spec, WalkMissesNothing
=============================================================================
