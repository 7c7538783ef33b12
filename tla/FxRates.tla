------------------------------ MODULE FxRates ------------------------------
(***************************************************************************)
(* How a payment gets its USD rate: the extraction of a window of daily    *)
(* rates (snowflake_etl/src/extract_fx_rates.py), RAW.RAW_FX_RATES, which  *)
(* keeps every rate ever loaded, the calendar and the gap-free dimension   *)
(* over it (dim_date.sql, dim_fx_rates.sql) and the fact that joins them.  *)
(* A rate is named by its currency and the day it was published for, so    *)
(* that the fact shows which day's rate a payment was converted with.      *)
(* Staging, load and reconciliation are those of SnowflakeRuns, here       *)
(* without faults.                                                         *)
(***************************************************************************)
EXTENDS Integers, Sequences, FiniteSetsExt

CONSTANTS Quotes,        \* QUOTE_CURRENCIES
          Window,        \* days of default_window
          Cap,           \* days the calendar can hold
          MaxAttempts,   \* max_attempts of _get_json_with_retry
          BadDays,       \* wrong days of creation, long past or ahead
          None,          \* NULL
          MaxDay,        \* bound: days
          MaxPayments    \* bound: distinct (currency, day) of payments

ASSUME FxAssumption ==
    /\ "USD" \notin Quotes
    /\ {Window, Cap, MaxAttempts} \subseteq Nat \ {0}
    /\ {MaxDay, MaxPayments} \subseteq Nat
    /\ BadDays \subseteq Int
    /\ None \notin Int

VARIABLES today,
          published,   \* rates the ECB has published
          payments,    \* currency and day of creation of each payment
          run,         \* what the run does
          asof,        \* the day its window ends
          answers,     \* what the API has answered to this fetch
          staged,      \* the rates and the payments it has staged
          raw,         \* RAW_FX_RATES
          covered,     \* the last day of the last window loaded
          fact         \* the day whose rate each payment is converted with

vars == <<today, published, payments, run, asof, answers, staged, raw, covered, fact>>

Currencies == Quotes \union {"USD"}

\* A 200 with a body; a timeout, 429, 5xx or a body that is no JSON; a 4xx.
Answers == {"ok", "transient", "client_error"}

Rates == Currencies \X (0 .. MaxDay)

TypeOK ==
    /\ today \in 0 .. MaxDay /\ asof \in 0 .. today
    /\ published \subseteq Rates /\ raw \subseteq published
    /\ payments \subseteq Currencies \X (BadDays \union 0 .. today)
    /\ run \in {"idle", "staging", "loaded", "built", "failed"}
    /\ Len(answers) <= MaxAttempts /\ \A i \in DOMAIN answers : answers[i] \in Answers
    /\ "fx" \in DOMAIN staged => staged.fx \subseteq published
    /\ "payments" \in DOMAIN staged => staged.payments \subseteq payments
    /\ covered \in 0 .. today
    /\ \A p \in DOMAIN fact : fact[p] \in (0 .. MaxDay) \union {None}

Init ==
    /\ today = 0 /\ asof = 0
    /\ published = Currencies \X {0}
    /\ payments = {}
    /\ run = "idle" /\ answers = <<>> /\ staged = <<>>
    /\ raw = {} /\ covered = 0
    /\ fact = <<>>

(***************************************************************************)
(* The world: days, the ECB, the payments.                                 *)
(***************************************************************************)
\* Rates are extracted at least once per window.
NextDay ==
    /\ today < MaxDay
    /\ today + 1 - covered <= Window
    /\ today' = today + 1
    /\ UNCHANGED <<published, payments, run, asof, answers, staged, raw, covered, fact>>

\* A business day; a currency may be missing from its rates.
Publish(quotes) ==
    /\ \A c \in Currencies : <<c, today>> \notin published
    /\ published' = published \union ((quotes \union {"USD"}) \X {today})
    /\ UNCHANGED <<today, payments, run, asof, answers, staged, raw, covered, fact>>

Pay(c, day) ==
    /\ Cardinality(payments) < MaxPayments
    /\ payments' = payments \union {<<c, day>>}
    /\ UNCHANGED <<today, published, run, asof, answers, staged, raw, covered, fact>>

(***************************************************************************)
(* stage_fx_rates, stage_payments, the load.                               *)
(***************************************************************************)
StartRun ==
    /\ run \in {"idle", "failed"}
    /\ run' = "staging"
    /\ asof' = today
    /\ answers' = <<>> /\ staged' = <<>>
    /\ UNCHANGED <<today, published, payments, raw, covered, fact>>

\* Mutant: the window is one day short.
MutantDefaultWindow == asof - Window + 1 .. asof

DefaultWindow == asof - Window .. asof

\* The files of the run with those of one more source.
Upload(source, rows) ==
    [f \in DOMAIN staged \union {source} |-> IF f = source THEN rows ELSE staged[f]]

\* Mutant: the attempts are counted from zero.
MutantFetch(answer) ==
    /\ run = "staging" /\ "fx" \notin DOMAIN staged
    /\ Len(answers) <= MaxAttempts
    /\ answers' = Append(answers, answer)
    /\ IF answer = "ok"
       THEN staged' = Upload("fx", {r \in published : r[2] \in DefaultWindow})
       ELSE UNCHANGED staged
    /\ UNCHANGED <<today, published, payments, run, asof, raw, covered, fact>>

\* One attempt of _get_json_with_retry.  raise_for_status raises for a 4xx,
\* and the handler that catches it retries whatever it has caught.
Fetch(answer) ==
    /\ run = "staging" /\ "fx" \notin DOMAIN staged
    /\ Len(answers) < MaxAttempts
    /\ answers' = Append(answers, answer)
    /\ IF answer = "ok"
       THEN staged' = Upload("fx", {r \in published : r[2] \in DefaultWindow})
       ELSE UNCHANGED staged
    /\ UNCHANGED <<today, published, payments, run, asof, raw, covered, fact>>

\* The attempts are used up: the task fails, and a later run starts over.
GiveUp ==
    /\ run = "staging" /\ "fx" \notin DOMAIN staged
    /\ Len(answers) = MaxAttempts
    /\ run' = "idle"
    /\ UNCHANGED <<today, published, payments, asof, answers, staged, raw, covered, fact>>

StagePayments ==
    /\ run = "staging" /\ "payments" \notin DOMAIN staged
    /\ staged' = Upload("payments", payments)
    /\ UNCHANGED <<today, published, payments, run, asof, answers, raw, covered, fact>>

\* Mutant: the rates of the run replace the earlier ones.
MutantLoad ==
    /\ run = "staging" /\ {"fx", "payments"} \subseteq DOMAIN staged
    /\ run' = IF {} \in {staged.fx, staged.payments} THEN "idle" ELSE "loaded"
    /\ raw' = staged.fx /\ covered' = asof
    /\ UNCHANGED <<today, published, payments, asof, answers, staged, fact>>

\* COPY adds to RAW; reconcile_snapshot then refuses a dataset without rows.
Load ==
    /\ run = "staging" /\ {"fx", "payments"} \subseteq DOMAIN staged
    /\ run' = IF {} \in {staged.fx, staged.payments} THEN "idle" ELSE "loaded"
    /\ raw' = raw \union staged.fx /\ covered' = asof
    /\ UNCHANGED <<today, published, payments, asof, answers, staged, fact>>

(***************************************************************************)
(* dbt.                                                                    *)
(***************************************************************************)
\* The days of the rates loaded and of the payments of the snapshot.
Dates == {r[2] : r \in raw \union staged.payments}

\* The spine: Cap days from the first date of either side, cut at the last.
DimDate == Min(Dates) .. Min({Max(Dates), Min(Dates) + Cap - 1})

\* Mutant: no backward fill at the leading edge.
MutantDimFxRate(c, day) ==
    LET known == {d \in DimDate : <<c, d>> \in raw}
        before == {d \in known : d <= day}
    IN  IF day \notin DimDate \/ before = {} THEN None ELSE Max(before)

\* The rate of the last day that has one, else of the next day that has one.
DimFxRate(c, day) ==
    LET known == {d \in DimDate : <<c, d>> \in raw}
        before == {d \in known : d <= day}
    IN  IF day \notin DimDate \/ known = {} THEN None
        ELSE IF before = {} THEN Min(known) ELSE Max(before)

\* dbt run: every model from the newest snapshot.
Build ==
    /\ run = "loaded"
    /\ run' = "built"
    /\ fact' = [p \in staged.payments |-> DimFxRate(p[1], p[2])]
    /\ UNCHANGED <<today, published, payments, asof, answers, staged, raw, covered>>

\* dbt test: not_null(usd_amount), not_null(rate_to_usd) of the dimension with
\* no_null_or_zero_fx_rate, and no_future_timestamps.  How far its one day of
\* slack reaches into tomorrow is a matter of hours.
TestsPass(slack) ==
    /\ \A p \in DOMAIN fact : fact[p] # None
    /\ \A r \in raw, day \in DimDate : DimFxRate(r[1], day) # None
    /\ \A p \in staged.payments : p[2] <= today + slack

\* retries=0
DbtTest ==
    /\ run = "built"
    /\ \E slack \in {0, 1} : run' = IF TestsPass(slack) THEN "idle" ELSE "failed"
    /\ UNCHANGED <<today, published, payments, asof, answers, staged, raw, covered, fact>>

Next ==
    \/ NextDay
    \/ \E quotes \in SUBSET Quotes : Publish(quotes)
    \/ \E c \in Currencies, day \in BadDays \union {today} : Pay(c, day)
    \/ StartRun \/ (\E answer \in Answers : Fetch(answer)) \/ GiveUp
    \/ StagePayments \/ Load
    \/ Build \/ DbtTest

Spec == Init /\ [][Next]_vars

(***************************************************************************)
(* Properties.                                                             *)
(***************************************************************************)
\* The calendar, which starts at the first of the dates, contains the day.
Reached(day) == \A d \in Dates : day - d < Cap

\* A payment is converted with the last rate the ECB published up to its
\* day, wherever the windows of the extractions ended and whatever other
\* payments are dated: a holiday's payment and one whose currency was missing
\* that day included, unless the calendar is cut off before its day.
BuildsFromWhatWasPublished ==
    [][Build => \A p \in DOMAIN fact' :
           p[2] \in 0 .. asof - 1 /\ Reached(p[2]) =>
               fact'[p] = Max({d \in 0 .. p[2] : <<p[1], d>> \in published})]_vars

\* Once a payment is converted with the rate of its own day, no later build
\* converts it with another one: a rate outlives the window it came in.
RatesSettle ==
    [][Build => \A p \in DOMAIN fact \intersect DOMAIN fact' :
           fact[p] = p[2] /\ Reached(p[2]) => fact'[p] = p[2]]_vars

\* A run that the tests stop has a payment dated ahead, or dates a calendar's
\* length apart: no holiday, no missing currency, no rate that comes late and
\* no other wrong date stops one (dim_date.sql, dim_fx_rates.sql and the tests
\* on them).
OnlyFarDatesStopRuns ==
    [][DbtTest /\ run' = "failed" =>
           \/ \E p \in staged.payments : p[2] > today
           \/ \E day \in Dates : ~Reached(day)]_vars

\* "a bad timestamp can no longer stop the pipeline" (no_future_timestamps.sql).
\* Not checked by a run: see README, Known disagreements.
NoRunStopped == run # "failed"

\* 429 and 5xx are worth retrying, "4xx are not" (_get_json_with_retry).
\* Not checked by a run: see README, Known disagreements.
ClientErrorsAreNotRetried ==
    \A i \in 1 .. Len(answers) - 1 : answers[i] # "client_error"
=============================================================================
