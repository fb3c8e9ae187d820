------------------------------- MODULE Telemetry -------------------------------
(***************************************************************************)
(* Telemetry: what app/services/telemetry.py stores of a day's bundle, and *)
(* the snapshot it derives for the rules.  A table is a function from the  *)
(* days that have a row to the rows.  Kilometres and money are in          *)
(* hundredths.  Trips, speeds, hours and sessions are left out: no shipped *)
(* rule can read them.  Charging sessions are never stored, so that their  *)
(* count is always zero.                                                   *)
(***************************************************************************)
EXTENDS Decimals, Sequences

\* The windows, in days before the business date.
SHORT_WINDOW_DAYS == 7
LONG_WINDOW_DAYS == 30
BASELINE_START_DAYS == 30
BASELINE_END_DAYS == 90

MAX_DAILY_KM == 80000

TelemetryRecord ==
    [daily_km : Int, estimated_revenue : Int, route_deviation_percent : Int,
     state_of_health : Int]

\* The tables, by day, and a row of loan_monitoring_snapshots.
IsTable(rows, Row) == DOMAIN rows \subseteq Int /\ \A d \in DOMAIN rows : rows[d] \in Row

OptionalInt(x) == x \subseteq Int /\ Cardinality(x) <= 1

IsSnapshot(s) ==
    /\ s.snapshot_date \in Int
    /\ {s.active_days_30d, s.zero_km_streak_days, s.days_since_last_telemetry} \subseteq Nat
    /\ \A x \in {s.avg_daily_km_7d, s.baseline_daily_km, s.estimated_revenue_30d,
                 s.avg_route_deviation_percent, s.charging_change_percent,
                 s.latest_state_of_health} : OptionalInt(x)

\* TelemetryRecord.validate
PlausibleTelemetry(record) ==
    /\ 0 <= record.daily_km /\ record.daily_km <= MAX_DAILY_KM
    /\ 0 <= record.route_deviation_percent /\ record.route_deviation_percent <= 10000

\* BatteryRecord.validate
PlausibleBattery(record) == 0 <= record.state_of_health /\ record.state_of_health <= 10000

\* The table with a row of the day's, if there is one to write.
Upsert(rows, day, new) ==
    [d \in DOMAIN rows \cup {day : r \in new} |->
        IF d = day /\ new # None THEN CHOOSE r \in new : TRUE ELSE rows[d]]

Plausible(answer) == {r \in answer : PlausibleTelemetry(r)}

\* Faulty variant: what a day's row holds is added to.
UpsertTelemetryAdding(rows, day, answer) ==
    LET Before == IF day \in DOMAIN rows THEN rows[day].daily_km ELSE 0
    IN  Upsert(rows, day, {[r EXCEPT !.daily_km = @ + Before] : r \in Plausible(answer)})

\* ingest_day for one vehicle: a plausible record takes the day's row, whatever was there.
\* answer: the record the provider has for the vehicle, if any.
UpsertTelemetry(rows, day, answer) == Upsert(rows, day, Plausible(answer))

UpsertBattery(battery, day, answer) ==
    Upsert(battery, day, {r.state_of_health : r \in {r \in answer : PlausibleBattery(r)}})

-------------------------------------------------------------------------------
(* What is derived.                                                        *)

\* TelemetryRepository.series_for_vehicle
Series(rows, asOf) == {d \in DOMAIN rows : asOf - BASELINE_END_DAYS <= d /\ d <= asOf}

\* The rows at least from and less than to days old.
Window(rows, asOf, from, to) ==
    {d \in Series(rows, asOf) : from <= asOf - d /\ asOf - d < to}

Mean(f, days) ==
    IF days = {} THEN None ELSE {HalfUp(SumFunctionOnSet(f, days), Cardinality(days))}

Sum(f, days) == IF days = {} THEN None ELSE {SumFunctionOnSet(f, days)}

Moved(rows, d) == d \in DOMAIN rows /\ rows[d].daily_km > 0

\* _zero_streak: the days before the business date, back to one that moved or has no row.
ZeroStreak(rows, asOf) ==
    LET days == Series(rows, asOf)
        Still(n) == \A k \in 1..n : asOf - k \in days /\ ~Moved(rows, asOf - k)
    IN  Max({n \in 0..Cardinality(days) : Still(n)})

\* latest_battery: by date, whatever the business date.
LatestHealth(battery) ==
    IF DOMAIN battery = {} THEN None ELSE {battery[Max(DOMAIN battery)]}

\* Faulty variant: the baseline window is the long one.
deriveOwnBaseline(rows, battery, asOf) ==
    LET Km == [d \in DOMAIN rows |-> rows[d].daily_km]
        Revenue == [d \in DOMAIN rows |-> rows[d].estimated_revenue]
        Deviation == [d \in DOMAIN rows |-> rows[d].route_deviation_percent]
        last_7 == Window(rows, asOf, 0, SHORT_WINDOW_DAYS)
        last_30 == Window(rows, asOf, 0, LONG_WINDOW_DAYS)
        days == Series(rows, asOf)
    IN  [snapshot_date |-> asOf,
         avg_daily_km_7d |-> Mean(Km, last_7),
         baseline_daily_km |-> Mean(Km, last_7),
         active_days_30d |-> Cardinality({d \in last_30 : Moved(rows, d)}),
         zero_km_streak_days |-> ZeroStreak(rows, asOf),
         estimated_revenue_30d |-> Sum(Revenue, last_30),
         avg_route_deviation_percent |-> Mean(Deviation, last_30),
         charging_change_percent |-> None,
         latest_state_of_health |-> LatestHealth(battery),
         days_since_last_telemetry |-> IF days = {} THEN 0 ELSE asOf - Max(days)]

\* charging_sessions_30d is 0 and has no baseline, so that charging_change_percent is NULL.
derive(rows, battery, asOf) ==
    LET Km == [d \in DOMAIN rows |-> rows[d].daily_km]
        Revenue == [d \in DOMAIN rows |-> rows[d].estimated_revenue]
        Deviation == [d \in DOMAIN rows |-> rows[d].route_deviation_percent]
        last_7 == Window(rows, asOf, 0, SHORT_WINDOW_DAYS)
        last_30 == Window(rows, asOf, 0, LONG_WINDOW_DAYS)
        days == Series(rows, asOf)
    IN  [snapshot_date |-> asOf,
         avg_daily_km_7d |-> Mean(Km, last_7),
         baseline_daily_km |-> Mean(Km, Window(rows, asOf, BASELINE_START_DAYS, BASELINE_END_DAYS)),
         active_days_30d |-> Cardinality({d \in last_30 : Moved(rows, d)}),
         zero_km_streak_days |-> ZeroStreak(rows, asOf),
         estimated_revenue_30d |-> Sum(Revenue, last_30),
         avg_route_deviation_percent |-> Mean(Deviation, last_30),
         charging_change_percent |-> None,
         latest_state_of_health |-> LatestHealth(battery),
         days_since_last_telemetry |-> IF days = {} THEN 0 ELSE asOf - Max(days)]
===============================================================================
