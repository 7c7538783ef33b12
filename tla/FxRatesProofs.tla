--------------------------- MODULE FxRatesProofs ---------------------------
(***************************************************************************)
(* Theorems about FxRates, for every set of currencies, every window,      *)
(* every number of attempts and every history of the ECB.                  *)
(*                                                                         *)
(* A rate of a day that is over never changes, and no window ends before   *)
(* the next one starts, so RAW_FX_RATES holds every rate published for a   *)
(* day before the last window's end (Covered).  The calendar contains the  *)
(* dates that are less than its length after the first (CalendarIs), so    *)
(* the fill of the dimension finds what it should for them.                *)
(***************************************************************************)
EXTENDS FxRates, NumberLemmas

-----------------------------------------------------------------------------
(***************************************************************************)
(* The invariants.                                                         *)
(***************************************************************************)
\* The days of the rows lie between two of them.
Bounded(rows) == \E lo \in Int, hi \in Int : \A p \in rows : p[2] \in lo .. hi

TypeInv ==
    /\ today \in 0 .. MaxDay /\ asof \in 0 .. today /\ covered \in 0 .. asof
    /\ published \subseteq Currencies \X (0 .. today) /\ raw \subseteq published
    /\ payments \subseteq Currencies \X (BadDays \union 0 .. today)
    /\ Bounded(payments)
    /\ run \in {"idle", "staging", "loaded", "built", "failed"}
    /\ answers \in Seq(Answers) /\ Len(answers) <= MaxAttempts
    /\ "fx" \in DOMAIN staged => staged.fx \subseteq published
    /\ "payments" \in DOMAIN staged => staged.payments \subseteq payments
    /\ run \in {"loaded", "built"} => "payments" \in DOMAIN staged
    /\ DOMAIN fact \subseteq payments
    /\ \A p \in DOMAIN fact : fact[p] \in (0 .. MaxDay) \union {None}

\* The first day's rates.
Opening == Currencies \X {0}

\* What a fetch for the window in hand must have found.
Owed == {r \in published : asof - Window <= r[2] /\ (r[2] < asof \/ r[2] = 0)}

\* Every rate of a day before the last window's end is in RAW_FX_RATES.
Covered ==
    /\ Opening \subseteq published
    /\ today - covered <= Window
    /\ \A r \in published : r[2] < covered => r \in raw
    /\ "fx" \in DOMAIN staged => Owed \subseteq staged.fx
    /\ run \in {"loaded", "built"} => covered = asof /\ Opening \subseteq raw

\* The fact that is tested is the one of the snapshot and the rates in hand,
\* and a payment that has its own day's rate has it from RAW_FX_RATES.
Converted ==
    /\ run = "built" => fact = [p \in staged.payments |-> DimFxRate(p[1], p[2])]
    /\ \A p \in DOMAIN fact : fact[p] = p[2] => p \in raw

-----------------------------------------------------------------------------
(***************************************************************************)
(* Min and Max of FiniteSetsExt, and what the fill makes of them.          *)
(***************************************************************************)
LEMMA MaxOfBounded ==
    ASSUME NEW lo \in Int, NEW hi \in Int, NEW T, T \subseteq lo..hi, T # {}
    PROVE  Max(T) \in T /\ \A y \in T : y <= Max(T)
<1>1. PICK x \in T : \A y \in T : y <= x
  BY IntervalMax
<1>2. \E z \in T : \A y \in T : z >= y
  BY <1>1
<1>3. Max(T) \in T /\ \A y \in T : Max(T) >= y
  BY <1>2, Zenon DEF Max
<1> QED
  BY <1>3

LEMMA MinOfBounded ==
    ASSUME NEW lo \in Int, NEW hi \in Int, NEW T, T \subseteq lo..hi, T # {}
    PROVE  Min(T) \in T /\ \A y \in T : Min(T) <= y
<1>1. \E x \in T : \A y \in T : x <= y
  BY IntervalMin
<1> QED
  BY <1>1, Zenon DEF Min

\* The days a currency has a rate for in the calendar.
KnownDays(c) == {d \in DimDate : <<c, d>> \in raw}

LEMMA KnownDaysAre ==
    ASSUME TypeInv, NEW c
    PROVE  KnownDays(c) \subseteq 0..today /\ today \in Nat /\ today <= MaxDay
<1>1. ASSUME NEW d, <<c, d>> \in raw PROVE d \in 0..today
  BY <1>1 DEF TypeInv
<1> QED
  BY <1>1, FxAssumption DEF TypeInv, KnownDays

\* The fill gives a day of the rates or none, and none only for a day outside
\* the calendar or a currency without a rate.
LEMMA Fill ==
    ASSUME TypeInv, NEW c, NEW day
    PROVE  /\ DimFxRate(c, day) \in (0 .. MaxDay) \union {None}
           /\ day \in DimDate /\ KnownDays(c) # {} => DimFxRate(c, day) # None
           /\ DimFxRate(c, day) # None => DimFxRate(c, day) \in KnownDays(c)
<1> DEFINE known == KnownDays(c)
           before == {d \in known : d <= day}
<1>1. known \subseteq 0..today /\ today \in Nat /\ today <= MaxDay /\ MaxDay \in Nat
  BY KnownDaysAre, FxAssumption
<1>0. 0 \in Int /\ today \in Int
  BY <1>1
<1>2. DimFxRate(c, day) = IF day \notin DimDate \/ known = {} THEN None
                          ELSE IF before = {} THEN Min(known) ELSE Max(before)
  BY DEF DimFxRate, KnownDays
<1>3. before \subseteq known
  OBVIOUS
<1> HIDE DEF known, before
<1>4. known # {} => Min(known) \in known
  BY <1>0, <1>1, MinOfBounded
<1>5. before # {} => Max(before) \in before
  BY <1>0, <1>1, <1>3, MaxOfBounded
<1>6. None \notin 0..today /\ \A d \in 0..today : d \in 0..MaxDay
  BY <1>1, FxAssumption
<1>7. day \in DimDate /\ known # {} => DimFxRate(c, day) \in known
  BY <1>2, <1>3, <1>4, <1>5, Zenon
<1>8. DimFxRate(c, day) = None \/ DimFxRate(c, day) \in known
  BY <1>2, <1>7, Zenon
<1>9. known = KnownDays(c)
  BY DEF known
<1> QED
  BY <1>1, <1>6, <1>7, <1>8, <1>9

\* A day of the calendar gets the last rate up to it.
LEMMA FillIsLast ==
    ASSUME TypeInv, NEW c, NEW day \in DimDate, {d \in KnownDays(c) : d <= day} # {}
    PROVE  DimFxRate(c, day) = Max({d \in KnownDays(c) : d <= day})
  BY DEF DimFxRate, KnownDays

\* The calendar starts at the first date and contains those that it reaches.
LEMMA CalendarIs ==
    ASSUME TypeInv, "payments" \in DOMAIN staged, Opening \subseteq raw
    PROVE  /\ Dates \subseteq Int
           /\ \A day \in Dates : day \in DimDate <=> Reached(day)
           /\ \A d \in Dates, day \in Dates : d <= day /\ Reached(day) => d \in DimDate
<1> DEFINE first == Min(Dates)
           last == Max(Dates)
           end == Min({last, first + Cap - 1})
<1>1. PICK lo \in Int, hi \in Int : \A p \in payments : p[2] \in lo .. hi
  BY DEF TypeInv, Bounded
<1> DEFINE low == IF lo < 0 THEN lo ELSE 0
           high == IF hi > MaxDay THEN hi ELSE MaxDay
<1>2. low \in Int /\ high \in Int /\ Cap \in Nat \ {0} /\ MaxDay \in Nat
  BY FxAssumption
<1>3. Dates \subseteq low .. high
  <2>1. ASSUME NEW r \in raw PROVE r[2] \in low .. high
    <3>1. r[2] \in 0 .. today /\ today \in 0 .. MaxDay
      BY <2>1 DEF TypeInv
    <3> QED
      BY <1>2, <3>1
  <2>2. ASSUME NEW r \in staged.payments PROVE r[2] \in low .. high
    <3>1. r[2] \in lo .. hi
      BY <1>1, <2>2 DEF TypeInv
    <3> QED
      BY <1>2, <3>1
  <2> QED
    BY <2>1, <2>2 DEF Dates
<1>4. 0 \in Dates
  <2>1. <<"USD", 0>> \in raw
    BY DEF Opening, Currencies
  <2> QED
    BY <2>1 DEF Dates
<1> HIDE DEF low, high
<1>5. Dates \subseteq Int
  BY <1>2, <1>3
<1>6. first \in Dates /\ \A d \in Dates : first <= d
  BY <1>2, <1>3, <1>4, MinOfBounded
<1>7. last \in Dates /\ \A d \in Dates : d <= last
  BY <1>2, <1>3, <1>4, MaxOfBounded
<1>8. DimDate = first .. end
  BY Zenon DEF DimDate
<1> HIDE DEF first, last
<1>9. first \in Int /\ last \in Int /\ first <= last /\ first + Cap - 1 \in Int
      /\ first <= first + Cap - 1
  BY <1>2, <1>5, <1>6, <1>7
<1>10. end \in {last, first + Cap - 1} /\ end <= last /\ end <= first + Cap - 1
  <2> DEFINE top == IF last > first + Cap - 1 THEN last ELSE first + Cap - 1
         cut == {last, first + Cap - 1}
  <2>1. cut \subseteq first .. top /\ top \in Int /\ cut # {}
    BY <1>9
  <2>2. end = Min(cut) /\ last \in cut /\ first + Cap - 1 \in cut
    OBVIOUS
  <2>3. \A e \in cut : e = last \/ e = first + Cap - 1
    OBVIOUS
  <2> HIDE DEF top, cut, end
  <2>4. Min(cut) \in cut /\ \A y \in cut : Min(cut) <= y
    BY <1>9, <2>1, MinOfBounded
  <2> QED
    BY <2>2, <2>3, <2>4
<1> HIDE DEF end
<1>11. ASSUME NEW day \in Dates PROVE Reached(day) <=> day < first + Cap
  BY <1>2, <1>5, <1>6, <1>11 DEF Reached
<1>12. ASSUME NEW day \in Dates PROVE day \in DimDate <=> day < first + Cap
  <2>1. day \in Int /\ first <= day /\ day <= last
    BY <1>5, <1>6, <1>7, <1>12
  <2>2. end \in Int
    BY <1>9, <1>10
  <2> QED
    BY <1>2, <1>8, <1>9, <1>10, <2>1, <2>2
<1>13. \A d \in Dates, day \in Dates : d <= day /\ day < first + Cap => d < first + Cap
  BY <1>2, <1>5, <1>9
<1> QED
  BY <1>5, <1>11, <1>12, <1>13

\* Of a run that is loaded or built, the calendar has the dates it reaches, and
\* when it reaches the first rates a day in it has one.
LEMMA BuildFinds ==
    ASSUME TypeInv, "payments" \in DOMAIN staged, Opening \subseteq raw, Reached(0),
           NEW c \in Currencies, NEW day \in DimDate
    PROVE  DimFxRate(c, day) # None
<1>1. <<c, 0>> \in raw
  BY DEF Opening
<1>2. 0 \in Dates
  BY <1>1 DEF Dates
<1>3. 0 \in KnownDays(c)
  BY <1>1, <1>2, CalendarIs DEF KnownDays
<1> QED
  BY <1>3, Fill

\* The days up to a payment's that have a rate in RAW_FX_RATES.
DaysUpTo(c, day) == {d \in 0..day : <<c, d>> \in raw}

LEMMA BuildIsLast ==
    ASSUME TypeInv, "payments" \in DOMAIN staged, Opening \subseteq raw,
           NEW p \in staged.payments, Reached(p[2]), DaysUpTo(p[1], p[2]) # {}
    PROVE  /\ DimFxRate(p[1], p[2]) = Max(DaysUpTo(p[1], p[2]))
           /\ Max(DaysUpTo(p[1], p[2])) \in DaysUpTo(p[1], p[2])
           /\ \A d \in DaysUpTo(p[1], p[2]) : d <= Max(DaysUpTo(p[1], p[2]))
<1>1. p[2] \in Dates /\ p[2] \in Int /\ p[2] \in DimDate
  BY CalendarIs DEF Dates
<1>2. ASSUME NEW d, <<p[1], d>> \in raw, d <= p[2] PROVE d \in KnownDays(p[1])
  <2>1. d \in Dates
    BY <1>2 DEF Dates
  <2> QED
    BY <1>1, <1>2, <2>1, CalendarIs DEF KnownDays
<1>3. KnownDays(p[1]) \subseteq 0..today /\ today \in Nat
  BY KnownDaysAre
<1>4. {d \in KnownDays(p[1]) : d <= p[2]} = DaysUpTo(p[1], p[2])
  <2>1. ASSUME NEW d \in KnownDays(p[1]), d <= p[2] PROVE d \in DaysUpTo(p[1], p[2])
    BY <1>1, <1>3, <2>1 DEF DaysUpTo, KnownDays
  <2>2. ASSUME NEW d \in DaysUpTo(p[1], p[2]) PROVE d \in KnownDays(p[1]) /\ d <= p[2]
    BY <1>1, <1>2, <2>2 DEF DaysUpTo
  <2> QED
    BY <2>1, <2>2
<1>5. DimFxRate(p[1], p[2]) = Max(DaysUpTo(p[1], p[2]))
  BY <1>1, <1>4, FillIsLast
<1>6. DaysUpTo(p[1], p[2]) \subseteq 0..p[2] /\ 0 \in Int
  BY DEF DaysUpTo
<1> QED
  BY <1>1, <1>5, <1>6, MaxOfBounded

-----------------------------------------------------------------------------
(***************************************************************************)
(* Type correctness.                                                       *)
(***************************************************************************)
LEMMA TypeInit == Init => TypeInv
<1> SUFFICES ASSUME Init PROVE TypeInv
  OBVIOUS
<1>1. Bounded(payments)
  <2>1. 0 \in Int /\ \A p \in payments : p[2] \in 0 .. 0
    BY DEF Init
  <2> QED
    BY <2>1 DEF Bounded
<1>2. answers \in Seq(Answers) /\ Len(answers) <= MaxAttempts
  BY FxAssumption DEF Init
<1> QED
  BY <1>1, <1>2, FxAssumption DEF Init, TypeInv, Currencies

LEMMA DaysAreInts == TypeInv => today \in Int /\ \A p \in payments : p[2] \in Int
  BY DEF TypeInv, Bounded

LEMMA TypeStep == TypeInv /\ [Next]_vars => TypeInv'
<1> SUFFICES ASSUME TypeInv, [Next]_vars PROVE TypeInv'
  OBVIOUS
<1> USE FxAssumption
<1>1. CASE NextDay
  BY <1>1 DEF TypeInv, NextDay
<1>2. ASSUME NEW quotes \in SUBSET Quotes, Publish(quotes) PROVE TypeInv'
  BY <1>2 DEF TypeInv, Publish, Currencies
<1>3. ASSUME NEW c \in Currencies, NEW day \in BadDays \union {today}, Pay(c, day) PROVE TypeInv'
  <2>1. PICK lo \in Int, hi \in Int : \A p \in payments : p[2] \in lo .. hi
    BY DEF TypeInv, Bounded
  <2> DEFINE low == IF day < lo THEN day ELSE lo
             high == IF day > hi THEN day ELSE hi
  <2>5. today \in Int
    BY DEF TypeInv
  <2>6. day \in Int
    BY <1>3, <2>5
  <2>2. day \in Int /\ low \in Int /\ high \in Int
    BY <2>6
  <2>3. ASSUME NEW p \in payments' PROVE p[2] \in low .. high
    <3>1. p \in payments \/ p = <<c, day>>
      BY <1>3, <2>3 DEF Pay
    <3> QED
      BY <2>1, <2>2, <3>1
  <2> HIDE DEF low, high
  <2>4. Bounded(payments')
    BY <2>2, <2>3 DEF Bounded
  <2> QED
    BY <1>3, <2>4 DEF TypeInv, Pay
<1>4. CASE StartRun
  BY <1>4 DEF TypeInv, StartRun
<1>5. ASSUME NEW answer \in Answers, Fetch(answer) PROVE TypeInv'
  <2>1. answers' \in Seq(Answers) /\ Len(answers') <= MaxAttempts
    BY <1>5 DEF TypeInv, Fetch, Upload
  <2>2. "fx" \in DOMAIN staged' => staged'.fx \subseteq published
    BY <1>5 DEF TypeInv, Fetch, Upload
  <2>3. "payments" \in DOMAIN staged' => staged'.payments \subseteq payments
    BY <1>5 DEF TypeInv, Fetch, Upload
  <2> QED
    BY <1>5, <2>1, <2>2, <2>3 DEF TypeInv, Fetch, Upload
<1>6. CASE GiveUp
  BY <1>6 DEF TypeInv, GiveUp
<1>7. CASE StagePayments
  BY <1>7 DEF TypeInv, StagePayments, Upload
<1>8. CASE Load
  <2>1. run' \in {"idle", "loaded"} /\ "payments" \in DOMAIN staged /\ staged' = staged
    BY <1>8 DEF Load
  <2>2. raw' \subseteq published /\ covered' \in 0 .. asof
    BY <1>8 DEF TypeInv, Load
  <2> QED
    BY <1>8, <2>1, <2>2 DEF TypeInv, Load
<1>9. CASE Build
  <2>1. staged.payments \subseteq payments
    BY <1>9 DEF TypeInv, Build
  <2>2. DOMAIN fact' = staged.payments
    BY <1>9 DEF Build
  <2>3. ASSUME NEW p \in DOMAIN fact' PROVE fact'[p] \in (0 .. MaxDay) \union {None}
    <3>1. fact'[p] = DimFxRate(p[1], p[2])
      BY <1>9, <2>2 DEF Build
    <3> QED
      BY <3>1, Fill, Zenon
  <2> QED
    BY <1>9, <2>1, <2>2, <2>3 DEF TypeInv, Build
<1>10. CASE DbtTest
  BY <1>10 DEF TypeInv, DbtTest
<1>11. CASE UNCHANGED vars
  BY <1>11 DEF TypeInv, vars
<1> QED
  BY <1>1, <1>2, <1>3, <1>4, <1>5, <1>6, <1>7, <1>8, <1>9, <1>10, <1>11 DEF Next

-----------------------------------------------------------------------------
(***************************************************************************)
(* RAW_FX_RATES has what the fill needs.                                   *)
(***************************************************************************)
LEMMA CoveredInit == Init => Covered
  BY FxAssumption DEF Init, Covered, Opening

\* Rates are published for the day in hand only, and a window ends there or
\* before: what a window owes is published when it is fetched.
LEMMA OwedStands ==
    ASSUME TypeInv, Covered, NEW quotes \in SUBSET Quotes, Publish(quotes)
    PROVE  Owed' = Owed /\ \A r \in published' \ published : r[2] >= asof /\ r[2] # 0
<1>1. ASSUME NEW r \in published' \ published PROVE r[2] = today /\ r[1] \in Currencies
  BY <1>1 DEF Publish, Currencies
<1>2. today # 0
  <2>1. <<"USD", 0>> \in published
    BY DEF Covered, Opening, Currencies
  <2> QED
    BY <2>1 DEF Publish, Currencies
<1>3. ASSUME NEW r \in published' \ published PROVE r[2] >= asof /\ r[2] # 0
  BY <1>1, <1>2, <1>3, FxAssumption DEF TypeInv
<1>4. published \subseteq published' /\ asof' = asof /\ asof \in Int
  BY FxAssumption DEF Publish, TypeInv
<1>5. ASSUME NEW r \in published' \ published PROVE ~(r[2] < asof \/ r[2] = 0)
  <2>1. r[2] \in Int
    BY <1>1, <1>5, FxAssumption DEF TypeInv
  <2> QED
    BY <1>3, <1>4, <1>5, <2>1
<1> QED
  BY <1>3, <1>4, <1>5 DEF Owed

LEMMA CoveredStep == TypeInv /\ Covered /\ [Next]_vars => Covered'
<1> SUFFICES ASSUME TypeInv, Covered, [Next]_vars PROVE Covered'
  OBVIOUS
<1> USE FxAssumption
<1>1. CASE NextDay
  <2>1. /\ today' = today + 1 /\ today + 1 - covered <= Window /\ covered' = covered
        /\ UNCHANGED <<published, run, asof, staged, raw>>
    BY <1>1 DEF NextDay
  <2>2. Owed' = Owed
    BY <2>1 DEF Owed
  <2>3. today' - covered' <= Window
    BY <2>1 DEF TypeInv
  <2>4. (\A r \in published : r[2] < covered => r \in raw)'
    BY <2>1 DEF Covered
  <2>5. /\ ("fx" \in DOMAIN staged => Owed \subseteq staged.fx)'
        /\ (run \in {"loaded", "built"} => covered = asof /\ Opening \subseteq raw)'
        /\ (Opening \subseteq published)'
    BY <2>1, <2>2 DEF Covered, Opening
  <2> QED
    BY <2>3, <2>4, <2>5 DEF Covered
<1>2. ASSUME NEW quotes \in SUBSET Quotes, Publish(quotes) PROVE Covered'
  <2>1. \A r \in published' : r[2] < covered => r \in raw
    <3>1. ASSUME NEW r \in published' \ published PROVE ~(r[2] < covered)
      <4>1. r[2] >= asof
        BY <1>2, <3>1, OwedStands
      <4>2. r[2] = today
        BY <1>2, <3>1 DEF Publish
      <4> QED
        BY <4>1, <4>2 DEF TypeInv
    <3> QED
      BY <1>2, <3>1 DEF Covered, Publish
  <2>2. Owed' = Owed /\ published \subseteq published'
    BY <1>2, OwedStands DEF Publish
  <2> QED
    BY <1>2, <2>1, <2>2 DEF Covered, Publish
<1>3. ASSUME NEW c \in Currencies, NEW day \in BadDays \union {today}, Pay(c, day) PROVE Covered'
  BY <1>3 DEF Covered, Owed, Pay
<1>4. CASE StartRun
  BY <1>4 DEF Covered, Owed, StartRun
<1>5. ASSUME NEW answer \in Answers, Fetch(answer) PROVE Covered'
  <2>1. ASSUME NEW r \in Owed PROVE r[2] \in DefaultWindow
    <3>1. r \in published /\ asof - Window <= r[2] /\ (r[2] < asof \/ r[2] = 0)
      BY <2>1 DEF Owed
    <3>2. r[2] \in 0..today
      BY <3>1 DEF TypeInv
    <3> QED
      BY <3>1, <3>2 DEF TypeInv, DefaultWindow
  <2>2. "fx" \in DOMAIN staged' => Owed \subseteq staged'.fx
    BY <1>5, <2>1 DEF Fetch, Upload, Owed
  <2>3. Owed' = Owed
    BY <1>5 DEF Fetch, Owed
  <2> QED
    BY <1>5, <2>2, <2>3 DEF Covered, Fetch
<1>6. CASE GiveUp
  BY <1>6 DEF Covered, Owed, GiveUp
<1>7. CASE StagePayments
  BY <1>7 DEF Covered, Owed, StagePayments, Upload
<1>8. CASE Load
  <2>1. Owed \subseteq staged.fx /\ raw' = raw \union staged.fx /\ covered' = asof
    BY <1>8 DEF Covered, Load
  <2>2. asof - Window <= covered
    BY DEF TypeInv, Covered
  <2>3. ASSUME NEW r \in published, r[2] < asof \/ r[2] = 0 PROVE r \in raw'
    <3>1. r[2] \in 0..today
      BY <2>3 DEF TypeInv
    <3>2. CASE r[2] < covered
      BY <2>1, <3>2 DEF Covered
    <3>3. CASE covered <= r[2]
      <4>1. asof - Window <= r[2]
        BY <2>2, <3>1, <3>3 DEF TypeInv
      <4> QED
        BY <2>1, <2>3, <4>1 DEF Owed
    <3> QED
      BY <3>1, <3>2, <3>3 DEF TypeInv
  <2>4. Opening \subseteq raw'
    BY <2>3 DEF Covered, Opening
  <2>5. Owed' = Owed /\ published' = published /\ today' = today /\ asof' = asof /\ staged' = staged
    BY <1>8 DEF Load, Owed
  <2>6. today - asof <= Window
    BY DEF TypeInv, Covered
  <2> QED
    BY <2>1, <2>3, <2>4, <2>5, <2>6 DEF Covered
<1>9. CASE Build
  BY <1>9 DEF Covered, Owed, Build
<1>10. CASE DbtTest
  BY <1>10 DEF Covered, Owed, DbtTest
<1>11. CASE UNCHANGED vars
  BY <1>11 DEF Covered, Owed, vars
<1> QED
  BY <1>1, <1>2, <1>3, <1>4, <1>5, <1>6, <1>7, <1>8, <1>9, <1>10, <1>11 DEF Next

-----------------------------------------------------------------------------
(***************************************************************************)
(* What the fact holds.                                                    *)
(***************************************************************************)
LEMMA ConvertedStep == TypeInv /\ Covered /\ Converted /\ [Next]_vars => Converted'
<1> SUFFICES ASSUME TypeInv, Covered, Converted, [Next]_vars PROVE Converted'
  OBVIOUS
<1>20. ASSUME UNCHANGED <<staged, raw, fact>>, run' = "built" => run = "built"
       PROVE  Converted'
  <2>1. \A c, day : DimFxRate(c, day)' = DimFxRate(c, day)
    BY <1>20 DEF DimFxRate, DimDate, Dates
  <2> QED
    BY <1>20, <2>1 DEF Converted
<1>21. ASSUME fact' = fact, raw \subseteq raw', run' # "built" PROVE Converted'
  BY <1>21 DEF Converted
<1>1. CASE NextDay
  BY <1>1, <1>20 DEF NextDay
<1>2. ASSUME NEW quotes \in SUBSET Quotes, Publish(quotes) PROVE Converted'
  BY <1>2, <1>20 DEF Publish
<1>3. ASSUME NEW c \in Currencies, NEW day \in BadDays \union {today}, Pay(c, day) PROVE Converted'
  BY <1>3, <1>20 DEF Pay
<1>4. CASE StartRun
  BY <1>4, <1>21 DEF StartRun
<1>5. ASSUME NEW answer \in Answers, Fetch(answer) PROVE Converted'
  BY <1>5, <1>21 DEF Fetch
<1>6. CASE GiveUp
  BY <1>6, <1>21 DEF GiveUp
<1>7. CASE StagePayments
  BY <1>7, <1>21 DEF StagePayments
<1>8. CASE Load
  BY <1>8, <1>21 DEF Load
<1>9. CASE Build
  <2>1. "payments" \in DOMAIN staged /\ raw' = raw /\ staged' = staged
    BY <1>9 DEF Build, TypeInv
  <2>2. fact' = [p \in staged.payments |-> DimFxRate(p[1], p[2])]
    BY <1>9 DEF Build
  <2>3. \A c, day : DimFxRate(c, day)' = DimFxRate(c, day)
    BY <2>1 DEF DimFxRate, DimDate, Dates
  <2>4. ASSUME NEW p \in DOMAIN fact', fact'[p] = p[2] PROVE p \in raw
    <3>0. p \in staged.payments
      BY <2>2, <2>4
    <3>1. fact'[p] = DimFxRate(p[1], p[2]) /\ p \in payments
      BY <2>1, <2>2, <3>0 DEF TypeInv
    <3>2. p = <<p[1], p[2]>> /\ p[2] \in Int
      <4>1. p \in Currencies \X (BadDays \union 0 .. today)
        BY <3>1 DEF TypeInv
      <4> QED
        BY <3>1, <4>1, DaysAreInts
    <3>3. DimFxRate(p[1], p[2]) \in KnownDays(p[1])
      BY <2>4, <3>1, <3>2, Fill, FxAssumption
    <3> QED
      BY <2>4, <3>1, <3>2, <3>3 DEF KnownDays
  <2> QED
    BY <2>1, <2>2, <2>3, <2>4 DEF Converted
<1>10. CASE DbtTest
  BY <1>10, <1>21 DEF DbtTest
<1>11. CASE UNCHANGED vars
  BY <1>11, <1>20 DEF vars
<1> QED
  BY <1>1, <1>2, <1>3, <1>4, <1>5, <1>6, <1>7, <1>8, <1>9, <1>10, <1>11 DEF Next

-----------------------------------------------------------------------------
(***************************************************************************)
(* The theorems.                                                           *)
(***************************************************************************)
LEMMA TypeInvTyped == TypeInv => TypeOK
<1> SUFFICES ASSUME TypeInv PROVE TypeOK
  OBVIOUS
<1>1. published \subseteq Rates
  BY FxAssumption DEF TypeInv, Rates
<1>2. \A i \in DOMAIN answers : answers[i] \in Answers
  BY DEF TypeInv
<1>3. covered \in 0 .. today
  BY FxAssumption DEF TypeInv
<1> QED
  BY <1>1, <1>2, <1>3 DEF TypeInv, TypeOK

\* The state keeps its type: in particular a payment's rate is one of the
\* days the ECB has published for or none, and RAW_FX_RATES holds nothing
\* that was not published.
THEOREM FxTypeCorrect == Spec => []TypeOK
<1> QED
  BY TypeInit, TypeStep, TypeInvTyped, PTL DEF Spec

LEMMA FxInvariant == Spec => [](TypeInv /\ Covered /\ Converted)
<1>1. Init => Converted
  BY DEF Init, Converted
<1> QED
  BY <1>1, TypeInit, TypeStep, CoveredInit, CoveredStep, ConvertedStep, PTL DEF Spec

\* Only a payment dated ahead, or dates that are a calendar's length apart,
\* make the tests stop a run (dim_date.sql, dim_fx_rates.sql and the tests on
\* them), whatever the ECB leaves out and whenever windows end.
THEOREM DatesStopNoRun == Spec => OnlyFarDatesStopRuns
<1>1. ASSUME TypeInv, Covered, Converted, DbtTest, run' = "failed",
             \A p \in staged.payments : p[2] <= today, \A day \in Dates : Reached(day)
      PROVE  FALSE
  <2>1. "payments" \in DOMAIN staged /\ Opening \subseteq raw /\ staged.payments \subseteq payments
        /\ fact = [p \in staged.payments |-> DimFxRate(p[1], p[2])]
    BY <1>1 DEF DbtTest, TypeInv, Covered, Converted
  <2>2. <<"USD", 0>> \in raw
    BY <2>1 DEF Opening, Currencies
  <2>3. Reached(0)
    BY <1>1, <2>2 DEF Dates
  <2>4. ASSUME NEW p \in DOMAIN fact PROVE fact[p] # None
    <3>1. p \in staged.payments /\ fact[p] = DimFxRate(p[1], p[2]) /\ p[1] \in Currencies
      BY <1>1, <2>1, <2>4 DEF TypeInv
    <3>2. p[2] \in Dates
      BY <3>1 DEF Dates
    <3>3. p[2] \in DimDate
      BY <1>1, <2>1, <3>2, CalendarIs
    <3> QED
      BY <1>1, <2>1, <2>3, <3>1, <3>3, BuildFinds
  <2>5. ASSUME NEW r \in raw, NEW day \in DimDate PROVE DimFxRate(r[1], day) # None
    <3>1. r[1] \in Currencies
      BY <1>1, <2>5 DEF TypeInv
    <3> QED
      BY <1>1, <2>1, <2>3, <2>5, <3>1, BuildFinds
  <2>6. \A slack \in {0, 1}, p \in staged.payments : p[2] <= today + slack
    <3>1. today \in Int /\ \A p \in staged.payments : p[2] \in Int
      BY <1>1, <2>1, DaysAreInts
    <3> QED
      BY <1>1, <3>1
  <2>7. \A slack \in {0, 1} : TestsPass(slack)
    BY <2>4, <2>5, <2>6 DEF TestsPass
  <2> QED
    BY <1>1, <2>7 DEF DbtTest
<1>2. TypeInv /\ Covered /\ Converted /\ [Next]_vars
      => [DbtTest /\ run' = "failed" =>
             \/ \E p \in staged.payments : p[2] > today
             \/ \E day \in Dates : ~Reached(day)]_vars
  <2>1. TypeInv /\ DbtTest =>
          \A p \in staged.payments : p[2] \in Int /\ today \in Int
    <3>1. TypeInv /\ DbtTest => staged.payments \subseteq payments
      BY DEF TypeInv, DbtTest
    <3> QED
      BY <3>1, DaysAreInts
  <2> QED
    BY <1>1, <2>1
<1> QED
  BY <1>2, FxInvariant, PTL DEF Spec, OnlyFarDatesStopRuns

\* A build converts every payment dated before its window's end with the
\* last rate the ECB had published up to the payment's day, whenever the
\* earlier windows ended and whatever other payments are dated, unless the
\* calendar ends before that day (default_window, dim_date, dim_fx_rates).
THEOREM LastPublishedRate == Spec => BuildsFromWhatWasPublished
<1> DEFINE Days(p) == {d \in 0 .. p[2] : <<p[1], d>> \in published}
<1>1. ASSUME TypeInv, Covered, Build,
             NEW p \in DOMAIN fact', p[2] \in 0 .. asof - 1, Reached(p[2])
      PROVE  fact'[p] = Max({d \in 0 .. p[2] : <<p[1], d>> \in published})
  <2>1. "payments" \in DOMAIN staged /\ Opening \subseteq raw /\ covered = asof
    BY <1>1 DEF Build, TypeInv, Covered
  <2>2. p \in staged.payments /\ fact'[p] = DimFxRate(p[1], p[2])
    BY <1>1 DEF Build
  <2>3. ASSUME NEW d \in 0 .. p[2], <<p[1], d>> \in published PROVE <<p[1], d>> \in raw
    <3>1. d < covered
      BY <1>1, <2>1, <2>3 DEF TypeInv
    <3> QED
      BY <1>1, <2>3, <3>1 DEF Covered
  <2>4. DaysUpTo(p[1], p[2]) = Days(p)
    BY <1>1, <2>3 DEF DaysUpTo, TypeInv
  <2>5. 0 \in DaysUpTo(p[1], p[2])
    BY <1>1, <2>1, <2>2 DEF DaysUpTo, Opening, TypeInv
  <2>6. fact'[p] = Max(DaysUpTo(p[1], p[2]))
    BY <1>1, <2>1, <2>2, <2>5, BuildIsLast
  <2> QED
    BY <2>4, <2>6, Zenon
<1>2. TypeInv /\ Covered /\ [Next]_vars
      => [Build => \A p \in DOMAIN fact' :
             p[2] \in 0 .. asof - 1 /\ Reached(p[2]) =>
                 fact'[p] = Max({d \in 0 .. p[2] : <<p[1], d>> \in published})]_vars
  BY <1>1
<1> QED
  BY <1>2, FxInvariant, PTL DEF Spec, BuildsFromWhatWasPublished

\* Once a payment is converted with the rate of its own day, every later
\* build converts it with that rate while the calendar reaches its day (RAW
\* keeps every rate loaded).
THEOREM RatesStaySettled == Spec => RatesSettle
<1>1. ASSUME TypeInv, Covered, Converted, Build,
             NEW p \in DOMAIN fact \intersect DOMAIN fact', fact[p] = p[2], Reached(p[2])
      PROVE  fact'[p] = p[2]
  <2>1. /\ "payments" \in DOMAIN staged /\ Opening \subseteq raw
        /\ p \in staged.payments /\ fact'[p] = DimFxRate(p[1], p[2])
    BY <1>1 DEF Build, TypeInv, Covered
  <2>2. p \in raw /\ p = <<p[1], p[2]>> /\ p[2] \in 0 .. today
    BY <1>1 DEF Converted, TypeInv
  <2>3. p[2] \in DaysUpTo(p[1], p[2])
    <3>1. p[2] \in 0 .. p[2] /\ <<p[1], p[2]>> \in raw
      BY <1>1, <2>2 DEF TypeInv
    <3> QED
      BY <3>1 DEF DaysUpTo
  <2>4. fact'[p] \in DaysUpTo(p[1], p[2]) /\ p[2] <= fact'[p]
    BY <1>1, <2>1, <2>3, BuildIsLast
  <2> QED
    BY <1>1, <2>2, <2>4 DEF DaysUpTo, TypeInv
<1>2. TypeInv /\ Covered /\ Converted /\ [Next]_vars
      => [Build => \A p \in DOMAIN fact \intersect DOMAIN fact' :
             fact[p] = p[2] /\ Reached(p[2]) => fact'[p] = p[2]]_vars
  BY <1>1
<1> QED
  BY <1>2, FxInvariant, PTL DEF Spec, RatesSettle
=============================================================================
