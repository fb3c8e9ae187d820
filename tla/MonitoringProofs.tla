---------------------------- MODULE MonitoringProofs ----------------------------
(***************************************************************************)
(* What the nightly pass, the evaluations on request and the officers'     *)
(* work keep, for every book of loans, every history of the vehicles,      *)
(* every choice of rules in force and any number of overlapping requests.  *)
(*                                                                         *)
(* Three arguments.  A request that holds a copy of an alert sees the      *)
(* alert as it is, or is overlapped (Copied); an evaluation never touches  *)
(* a closed alert of its copy, and work never starts on one.  A pass under *)
(* way is outdated, or holds what its jobs give of the tables as they are  *)
(* (UpToDate).  And one that commits up to date leaves a fixed point       *)
(* (Settled): running any of its jobs again gives the tables it left.      *)
(* Then a result about the shipped catalogue: a worse figure never gives a *)
(* better light.  And one about the whole way from a day's row to the      *)
(* light: a vehicle that stands still is noticed.                          *)
(***************************************************************************)
EXTENDS Monitoring, InductionProofs, SequenceTheorems

-------------------------------------------------------------------------------
(* The invariant.                                                          *)

AlertWork == [op : {"work"}, alert : Nat \ {0}, copy : RiskAlert, new : RiskAlert]

SameArrears(row, a) ==
    /\ row.days_past_due = a.days_past_due
    /\ row.installments_overdue = a.installments_overdue
    /\ row.overdue_amount = a.overdue_amount

\* row and other are a loan's, and differ in the traffic light if in anything.
SamePosition(row, other) == row.status = other.status /\ SameArrears(row, other)

\* What a request holds.  An evaluation on request changes nothing of a loan but its light.
Request(r) ==
    /\ r.op \in {"idle", "work", "evaluate", "placed", "reviewed"}
    /\ r.op = "idle" => r = Idle
    /\ r.op = "work" => r \in AlertWork
    /\ r.op \in {"evaluate", "reviewed"} => r.copy \in Seq(RiskAlert) /\ r.new \in Seq(RiskAlert)
    /\ r.op \in {"evaluate", "placed", "reviewed"} =>
          r.old_loans \in [Loan -> LoanRow] /\ r.new_loans \in [Loan -> LoanRow]
    /\ r.op = "evaluate" => \A l \in Loan : SamePosition(r.new_loans[l], r.old_loans[l])
    /\ r.op \in {"placed", "reviewed"} =>
          r.answer \in [Loan -> Answers] /\ r.snaps = [l \in Loan |-> r.snaps[l]]

Tables ==
    /\ telemetry = [l \in Loan |-> telemetry[l]]
    /\ battery = [l \in Loan |-> battery[l]]
    /\ snapshots = [l \in Loan |-> snapshots[l]]

Typed ==
    /\ schedule \in [Loan -> Arrears]
    /\ loans \in [Loan -> LoanRow]
    /\ rules \in [Seeded -> RuleRow]
    /\ alerts \in Seq(RiskAlert)
    /\ Tables
    /\ serving = [w \in Worker |-> serving[w]]
    /\ \A w \in Worker : Request(serving[w])

\* What an evaluation holds: it keeps the rows of its copy, and the closed ones as they are.
EvaluationHeld(r) ==
    /\ Len(r.copy) <= Len(alerts) /\ Len(r.copy) <= Len(r.new)
    /\ \A n \in 1..Len(r.copy) :
          /\ r.copy[n] = alerts[n] \/ n \in overlapped
          /\ r.copy[n].status \in CLOSED_ALERT_STATUSES => r.new[n] = r.copy[n]

\* What work on an alert holds: it has begun on one that was not closed.
WorkHeld(r) ==
    /\ r.alert \in DOMAIN alerts
    /\ r.copy = alerts[r.alert] \/ r.alert \in overlapped
    /\ r.copy.status \notin CLOSED_ALERT_STATUSES

Copied ==
    \A w \in Worker :
        /\ serving[w].op \in {"evaluate", "reviewed"} => EvaluationHeld(serving[w])
        /\ serving[w].op = "work" => WorkHeld(serving[w])

OutcomesNow(l) == Outcomes(active_rules, Metrics(loans[l], snapshots[l]))

\* The jobs of a pass, run again for loan l with the same answers, give what there is.
SettledFor(l, answer) ==
    /\ UpsertTelemetry(telemetry[l], today, answer) = telemetry[l]
    /\ UpsertBattery(battery[l], today, answer) = battery[l]
    /\ snapshots[l] = {derive(telemetry[l], battery[l], today)}
    /\ loans[l].days_past_due = schedule[l].days_past_due
    /\ loans[l].installments_overdue = schedule[l].installments_overdue
    /\ loans[l].overdue_amount = schedule[l].overdue_amount
    /\ loans[l].risk_status = loan_risk_status(active_rules, Metrics(loans[l], snapshots[l]))
    /\ Raised(alerts, l, OutcomesNow(l)) = {}
    /\ \A n \in DOMAIN alerts :
          alerts[n].loan_id = l => Reviewed(alerts[n], OutcomesNow(l)) = alerts[n]

Settled ==
    fresh # Nothing =>
        /\ fresh.night = today
        /\ Job \X {today} \subseteq job_runs
        /\ \A l \in Book : SettledFor(l, fresh.answer[l])

IInv == Typed /\ Indexed(alerts) /\ Copied /\ Settled

\* What a pass for today has read of the days, for the book as it is.
ReadNow(r) ==
    /\ r.day = today /\ r.targets = Book
    /\ \A l \in Book :
          r.snaps[l] = {derive(UpsertTelemetry(telemetry[l], today, r.answer[l]),
                               UpsertBattery(battery[l], today, r.answer[l]), today)}
    /\ \A l \in Loan \ Book : r.snaps[l] = snapshots[l]

\* rows are the loans' with the arrears that the schedules of the book show.
PlacedAs(rows) ==
    /\ rows \in [Loan -> LoanRow]
    /\ \A l \in Loan : rows[l].status = loans[l].status
    /\ \A l \in Book : SameArrears(rows[l], schedule[l])
    /\ \A l \in Loan \ Book : rows[l] = loans[l]

\* The positions a pass has computed, from rows in which only the light may have changed since.
PlacedNow(r) ==
    /\ \A l \in Loan : /\ SamePosition(r.old_loans[l], loans[l])
                        /\ r.new_loans[l].status = r.old_loans[l].status
    /\ \A l \in Book : SameArrears(r.new_loans[l], schedule[l])
    /\ \A l \in Loan \ Book : r.new_loans[l] = r.old_loans[l]

\* What a pass has made of the alerts and the lights.
ReviewedNow(r) ==
    /\ r.copy = alerts /\ r.old_loans = loans
    /\ \E rows : /\ PlacedAs(rows)
                 /\ r.new = Evaluated(alerts, active_rules, Book, rows, r.snaps)
                 /\ r.new_loans = Lit(active_rules, Book, rows, r.snaps)

Current(r) ==
    /\ r.op \in {"placed", "reviewed"} => ReadNow(r)
    /\ r.op = "placed" => PlacedNow(r)
    /\ r.op = "reviewed" => ReviewedNow(r)

UpToDate == \A w \in Worker \ outdated : Current(serving[w])

\* A snapshot is of a day that has come, and counts days.
Past(s) ==
    /\ s.snapshot_date \in Int /\ s.snapshot_date <= today
    /\ s.active_days_30d \in Nat

\* What a pass reads and holds of the days is what has days: whole dates, and counts of them.
Dated ==
    /\ today \in Int
    /\ \A l \in Loan : /\ DOMAIN telemetry[l] \subseteq Int
                        /\ \A s \in snapshots[l] : Past(s)
    /\ \A w \in Worker : serving[w].op \in {"placed", "reviewed"} =>
          /\ serving[w].day \in Int
          /\ \A l \in Loan : \A s \in serving[w].snaps[l] : Past(s)

Strong == IInv /\ UpToDate /\ Dated

-------------------------------------------------------------------------------
(* Sets as sequences, and the catalogue.                                   *)

\* The enumeration of a finite set has its elements and no others.
LEMMA Enumerated ==
    ASSUME NEW S, IsFiniteSet(S)
    PROVE  /\ SetToSeq(S) \in Seq(S)
           /\ \A x \in S : \E i \in 1..Len(SetToSeq(S)) : SetToSeq(S)[i] = x
<1> DEFINE n == Cardinality(S)
<1>1. n \in Nat /\ ExistsBijection(1..n, S)
    BY FS_CardinalityType
<1>2. PICK g : g \in Bijection(1..n, S)
    BY <1>1 DEF ExistsBijection
<1>3. g \in [1..n -> S] /\ IsInjective(g)
    BY <1>2 DEF Bijection, Injection
<1>4. PICK f : f = SetToSeq(S)
    OBVIOUS
<1>5. f \in [1..n -> S] /\ IsInjective(f)
    BY <1>3, <1>4 DEF SetToSeq
<1>6. IsFiniteSet(1..n) /\ Cardinality(1..n) = n
    BY <1>1, FS_Interval
<1>7. f \in Injection(1..n, S)
    BY <1>5 DEF Injection
<1>8. f \in Surjection(1..n, S)
    BY <1>6, <1>7, FS_Injection
<1> HIDE DEF n
<1>9. f \in Seq(S) /\ Len(f) = n
    BY <1>1, <1>5
<1> QED BY <1>4, <1>8, <1>9 DEF Surjection

\* The enumeration of no element is empty.
LEMMA EnumeratedNone == SetToSeq({}) = << >>
<1>1. SetToSeq({}) \in Seq({})
    BY Enumerated, FS_EmptySet
<1> QED BY <1>1

\* A row written twice over leaves the table the first time left.
LEMMA WrittenTwice ==
    ASSUME NEW rows, NEW day, NEW new, new # None
    PROVE  Upsert(Upsert(rows, day, new), day, new) = Upsert(rows, day, new)
<1> DEFINE written == Upsert(rows, day, new)
<1>1. DOMAIN written = DOMAIN rows \cup {day : r \in new} /\ day \in DOMAIN written
    BY DEF Upsert, None
<1>2. \A d \in DOMAIN written :
          written[d] = IF d = day /\ new # None THEN CHOOSE r \in new : TRUE ELSE rows[d]
    BY DEF Upsert
<1>3. written = [d \in DOMAIN written |->
          IF d = day /\ new # None THEN CHOOSE r \in new : TRUE ELSE written[d]]
    BY <1>1, <1>2 DEF Upsert
<1>4. DOMAIN written = DOMAIN written \cup {day : r \in new}
    BY <1>1
<1> HIDE DEF written
<1>5. Upsert(written, day, new) = written
    BY <1>3, <1>4 DEF Upsert
<1> QED BY <1>5 DEF written

\* Seven things are finitely many.
LEMMA SevenFinite ==
    ASSUME NEW a, NEW b, NEW c, NEW d, NEW e, NEW f, NEW g
    PROVE  IsFiniteSet({a, b, c, d, e, f, g})
<1>1. IsFiniteSet({a})
    BY FS_Singleton
<1>2. IsFiniteSet({a} \cup {b})
    BY <1>1, FS_AddElement
<1>3. IsFiniteSet(({a} \cup {b}) \cup {c})
    BY <1>2, FS_AddElement
<1>4. IsFiniteSet((({a} \cup {b}) \cup {c}) \cup {d})
    BY <1>3, FS_AddElement
<1>5. IsFiniteSet({a, b, c, d} \cup {e})
  <2>1. {a, b, c, d} = (({a} \cup {b}) \cup {c}) \cup {d}
      OBVIOUS
  <2> QED BY <1>4, <2>1, FS_AddElement
<1>6. IsFiniteSet(({a, b, c, d} \cup {e}) \cup {f})
    BY <1>5, FS_AddElement
<1>7. IsFiniteSet((({a, b, c, d} \cup {e}) \cup {f}) \cup {g})
    BY <1>6, FS_AddElement
<1>8. {a, b, c, d, e, f, g} = (({a, b, c, d} \cup {e}) \cup {f}) \cup {g}
    OBVIOUS
<1> QED BY <1>7, <1>8

\* The shipped rules are finitely many, and each is red or yellow.
LEMMA Catalogue ==
    /\ IsFiniteSet(RuleCode)
    /\ DOMAIN default_rules = RuleCode
    /\ \A r \in RuleCode : default_rules[r].severity \in {"RED", "YELLOW"}
<1> DEFINE Severe(some) ==
              /\ IsFiniteSet(DOMAIN some)
              /\ \A r \in DOMAIN some : some[r].severity \in {"RED", "YELLOW"}
<1>1. Severe(RepaymentRules)
  <2>1. DOMAIN RepaymentRules =
            {"EMI_OVERDUE_30_PLUS", "EMI_MISSED_CONSECUTIVE", "EMI_OVERDUE_90_PLUS",
             "EMI_OVERDUE_1_30", "PARTIAL_PAYMENT_PATTERN", "OVERDUE_AMOUNT_MATERIAL"}
      BY DEF RepaymentRules
  <2>2. IsFiniteSet(
            {"EMI_OVERDUE_30_PLUS", "EMI_MISSED_CONSECUTIVE", "EMI_OVERDUE_90_PLUS",
             "EMI_OVERDUE_1_30", "PARTIAL_PAYMENT_PATTERN", "OVERDUE_AMOUNT_MATERIAL",
             "OVERDUE_AMOUNT_MATERIAL"})
      BY SevenFinite
  <2>3. IsFiniteSet(DOMAIN RepaymentRules)
      BY <2>1, <2>2
  <2>4. ASSUME NEW r \in DOMAIN RepaymentRules
        PROVE  RepaymentRules[r].severity \in {"RED", "YELLOW"}
      BY DEF RepaymentRules, Red, Yellow, Rule
  <2> QED BY <2>3, <2>4
<1>2. Severe(UsageRules)
  <2>1. DOMAIN UsageRules =
            {"VEHICLE_INACTIVE_7D", "USAGE_COLLAPSE", "ROUTE_ABANDONED", "VEHICLE_INACTIVE_3D",
             "USAGE_DROP_MODERATE", "LOW_ACTIVE_DAYS", "ROUTE_DEVIATION_MODERATE"}
      BY DEF UsageRules
  <2>2. IsFiniteSet(
            {"VEHICLE_INACTIVE_7D", "USAGE_COLLAPSE", "ROUTE_ABANDONED", "VEHICLE_INACTIVE_3D",
             "USAGE_DROP_MODERATE", "LOW_ACTIVE_DAYS", "ROUTE_DEVIATION_MODERATE"})
      BY SevenFinite
  <2>3. IsFiniteSet(DOMAIN UsageRules)
      BY <2>1, <2>2
  <2>4. ASSUME NEW r \in DOMAIN UsageRules
        PROVE  UsageRules[r].severity \in {"RED", "YELLOW"}
      BY DEF UsageRules, Red, Yellow, Rule
  <2> QED BY <2>3, <2>4
<1>3. Severe(RevenueRules)
  <2>1. DOMAIN RevenueRules =
            {"REVENUE_COLLAPSE", "REVENUE_DECLINE", "DSCR_BELOW_ONE"}
      BY DEF RevenueRules
  <2>2. IsFiniteSet(
            {"REVENUE_COLLAPSE", "REVENUE_DECLINE", "DSCR_BELOW_ONE", "DSCR_BELOW_ONE",
             "DSCR_BELOW_ONE", "DSCR_BELOW_ONE", "DSCR_BELOW_ONE"})
      BY SevenFinite
  <2>3. IsFiniteSet(DOMAIN RevenueRules)
      BY <2>1, <2>2
  <2>4. ASSUME NEW r \in DOMAIN RevenueRules
        PROVE  RevenueRules[r].severity \in {"RED", "YELLOW"}
      BY DEF RevenueRules, Red, Yellow, Rule
  <2> QED BY <2>3, <2>4
<1>4. Severe(BatteryRules)
  <2>1. DOMAIN BatteryRules =
            {"BATTERY_HEALTH_CRITICAL", "BATTERY_HEALTH_LOW", "CHARGING_DROP_SEVERE",
             "CHARGING_DROP_MODERATE"}
      BY DEF BatteryRules
  <2>2. IsFiniteSet(
            {"BATTERY_HEALTH_CRITICAL", "BATTERY_HEALTH_LOW", "CHARGING_DROP_SEVERE",
             "CHARGING_DROP_MODERATE", "CHARGING_DROP_MODERATE", "CHARGING_DROP_MODERATE",
             "CHARGING_DROP_MODERATE"})
      BY SevenFinite
  <2>3. IsFiniteSet(DOMAIN BatteryRules)
      BY <2>1, <2>2
  <2>4. ASSUME NEW r \in DOMAIN BatteryRules
        PROVE  BatteryRules[r].severity \in {"RED", "YELLOW"}
      BY DEF BatteryRules, Red, Yellow, Rule
  <2> QED BY <2>3, <2>4
<1>5. Severe(DataQualityRules)
  <2>1. DOMAIN DataQualityRules =
            {"TELEMETRY_SILENT_5D", "TELEMETRY_SILENT_2D"}
      BY DEF DataQualityRules
  <2>2. IsFiniteSet(
            {"TELEMETRY_SILENT_5D", "TELEMETRY_SILENT_2D", "TELEMETRY_SILENT_2D",
             "TELEMETRY_SILENT_2D", "TELEMETRY_SILENT_2D", "TELEMETRY_SILENT_2D",
             "TELEMETRY_SILENT_2D"})
      BY SevenFinite
  <2>3. IsFiniteSet(DOMAIN DataQualityRules)
      BY <2>1, <2>2
  <2>4. ASSUME NEW r \in DOMAIN DataQualityRules
        PROVE  DataQualityRules[r].severity \in {"RED", "YELLOW"}
      BY DEF DataQualityRules, Red, Yellow, Rule
  <2> QED BY <2>3, <2>4
<1>6. IsFiniteSet(RuleCode)
  <2>1. RuleCode =
            (((DOMAIN RepaymentRules \cup DOMAIN UsageRules) \cup DOMAIN RevenueRules)
                 \cup DOMAIN BatteryRules) \cup DOMAIN DataQualityRules
      BY DEF RuleCode
  <2>2. IsFiniteSet(DOMAIN RepaymentRules \cup DOMAIN UsageRules)
      BY <1>1, <1>2, FS_Union
  <2>3. IsFiniteSet((DOMAIN RepaymentRules \cup DOMAIN UsageRules) \cup DOMAIN RevenueRules)
      BY <1>3, <2>2, FS_Union
  <2>4. IsFiniteSet(((DOMAIN RepaymentRules \cup DOMAIN UsageRules) \cup DOMAIN RevenueRules)
                        \cup DOMAIN BatteryRules)
      BY <1>4, <2>3, FS_Union
  <2> QED BY <1>5, <2>1, <2>4, FS_Union
<1>7. ASSUME NEW r \in RuleCode
      PROVE  default_rules[r].severity \in {"RED", "YELLOW"}
  <2>1. \/ r \in DOMAIN RepaymentRules \/ r \in DOMAIN UsageRules \/ r \in DOMAIN RevenueRules
        \/ r \in DOMAIN BatteryRules \/ r \in DOMAIN DataQualityRules
      BY DEF RuleCode
  <2>2. default_rules[r] =
            CASE r \in DOMAIN RepaymentRules -> RepaymentRules[r]
              [] r \in DOMAIN UsageRules -> UsageRules[r]
              [] r \in DOMAIN RevenueRules -> RevenueRules[r]
              [] r \in DOMAIN BatteryRules -> BatteryRules[r]
              [] r \in DOMAIN DataQualityRules -> DataQualityRules[r]
      BY DEF default_rules
  <2> QED BY <1>1, <1>2, <1>3, <1>4, <1>5, <2>1, <2>2
<1> QED BY <1>6, <1>7 DEF default_rules

\* The rules in force are shipped rules, at the severity they were shipped with.
LEMMA InForce ==
    /\ DOMAIN active_rules \subseteq RuleCode
    /\ \A r \in DOMAIN active_rules : active_rules[r].severity \in {"RED", "YELLOW"}
<1> DEFINE on == {r \in Seeded : rules[r].is_active}
<1>1. on \subseteq RuleCode
    BY SeededAssumption
<1>2. CASE on = {}
    BY <1>2, Catalogue DEF active_rules
<1>3. CASE on # {}
  <2>1. active_rules =
            [r \in on |-> [default_rules[r] EXCEPT !.auto_resolve = rules[r].auto_resolve]]
      BY <1>3 DEF active_rules
  <2>2. ASSUME NEW r \in on
        PROVE  active_rules[r].severity = default_rules[r].severity
      BY <2>1
  <2> QED BY <1>1, <2>1, <2>2, Catalogue
<1> QED BY <1>2, <1>3

\* The traffic light is green, yellow or red.
LEMMA LightIsOne ==
    ASSUME NEW catalogue, NEW metrics,
           \A r \in DOMAIN catalogue : catalogue[r].severity \in {"RED", "YELLOW"}
    PROVE  loan_risk_status(catalogue, metrics) \in {"GREEN", "YELLOW", "RED"}
<1>1. actionable(catalogue, metrics) \subseteq DOMAIN catalogue
    BY DEF actionable, fired
<1> QED BY <1>1 DEF loan_risk_status, WorstOf

-------------------------------------------------------------------------------
(* One evaluation.                                                         *)

\* Reviewing an alert keeps whose it is and what for, leaves a closed one as it is, and is done
\* once it is done.
LEMMA ReviewFacts ==
    ASSUME NEW row \in RiskAlert, NEW outcomes
    PROVE  /\ Reviewed(row, outcomes) \in RiskAlert
           /\ Reviewed(row, outcomes).loan_id = row.loan_id
           /\ Reviewed(row, outcomes).rule = row.rule
           /\ row.status \in CLOSED_ALERT_STATUSES => Reviewed(row, outcomes) = row
           /\ Live(Reviewed(row, outcomes)) => Reviewed(row, outcomes) = row
           /\ Reviewed(Reviewed(row, outcomes), outcomes) = Reviewed(row, outcomes)
<1>1. \A status \in {"SUPERSEDED", "RESOLVED"} :
          /\ Close(row, status) \in RiskAlert /\ ~Live(Close(row, status))
          /\ Close(row, status).loan_id = row.loan_id /\ Close(row, status).rule = row.rule
    BY DEF Close, RiskAlert, Live, LIVE_STATUSES, AlertStatus
<1>2. row.status \in CLOSED_ALERT_STATUSES => ~Live(row)
    BY DEF Live, LIVE_STATUSES, CLOSED_ALERT_STATUSES
<1> QED BY <1>1, <1>2, Zenon DEF Reviewed

\* What an evaluation raises: open alerts, of the loan, for rules that are to be acted on and had
\* no live alert.
LEMMA RaisedFacts ==
    ASSUME NEW table, NEW l \in Loan, NEW catalogue, NEW metrics,
           NEW x \in Raised(table, l, Outcomes(catalogue, metrics))
    PROVE  /\ x \in RiskAlert /\ x.loan_id = l /\ Live(x)
           /\ x.rule \in Outcomes(catalogue, metrics).actionable
           /\ Reviewed(x, Outcomes(catalogue, metrics)) = x
<1> DEFINE o == Outcomes(catalogue, metrics)
<1>1. o.actionable \subseteq Seeded /\ o.actionable \subseteq o.fired
    BY DEF Outcomes, actionable
<1>2. o.cleared \cap o.fired = {}
    BY DEF Outcomes
<1> HIDE DEF o
<1>3. PICK r \in o.actionable : x = NewAlert(l, r)
    BY DEF Raised, o
<1>4. x \in RiskAlert /\ x.loan_id = l /\ x.rule = r /\ Live(x)
    BY <1>1, <1>3 DEF NewAlert, RiskAlert, AlertStatus, Live, LIVE_STATUSES
<1>5. r \notin o.fired \ o.actionable /\ r \notin o.cleared
    BY <1>1, <1>2, <1>3
<1>6. Reviewed(x, o) = x
    BY <1>4, <1>5 DEF Reviewed
<1> QED BY <1>3, <1>4, <1>6 DEF o

OutcomesFor(catalogue, rows, snaps, l) == Outcomes(catalogue, Metrics(rows[l], snaps[l]))

\* after is what evaluating the loans in targets makes of table, o(l) being the outcomes for l.
EvaluatesTo(table, after, targets, o) ==
    /\ after \in Seq(RiskAlert) /\ Len(table) <= Len(after)
    /\ \A n \in 1..Len(table) :
          after[n] = IF table[n].loan_id \in targets
                     THEN Reviewed(table[n], o[table[n].loan_id]) ELSE table[n]
    /\ \A n \in (Len(table) + 1)..Len(after) :
          \E l \in targets : after[n] \in Raised(table, l, o[l])
    /\ \A l \in targets : \A x \in Raised(table, l, o[l]) :
          \E n \in (Len(table) + 1)..Len(after) : after[n] = x
    /\ (\A l \in targets : Raised(table, l, o[l]) = {}) => Len(after) = Len(table)

\* The alerts that an evaluation may raise are finitely many.
LEMMA RaisedFinite ==
    ASSUME NEW table, NEW targets \in SUBSET Loan, NEW o,
           \A l \in targets : o[l].actionable \subseteq Seeded,
           NEW new, \A x \in new : \E l \in targets : x \in Raised(table, l, o[l])
    PROVE  IsFiniteSet(new)
<1> DEFINE pairs == Loan \X Seeded
           all == {NewAlert(p[1], p[2]) : p \in pairs}
           f == [p \in pairs |-> NewAlert(p[1], p[2])]
<1>1. IsFiniteSet(Seeded)
    BY Catalogue, SeededAssumption, FS_Subset
<1>2. IsFiniteSet(pairs)
    BY <1>1, LoanAssumption, FS_Product
<1>3. f \in Surjection(pairs, all)
  <2>1. f \in [pairs -> all]
      OBVIOUS
  <2>2. \A x \in all : \E p \in pairs : f[p] = x
      OBVIOUS
  <2> QED BY <2>1, <2>2 DEF Surjection
<1> HIDE DEF f
<1>4. IsFiniteSet(all)
    BY <1>2, <1>3, FS_Surjection
<1>5. new \subseteq all
  <2>1. ASSUME NEW l \in targets, NEW x \in Raised(table, l, o[l])
        PROVE  x \in all
    <3>1. PICK r \in o[l].actionable : x = NewAlert(l, r)
        BY DEF Raised
    <3>2. <<l, r>> \in pairs /\ x = NewAlert(<<l, r>>[1], <<l, r>>[2])
        BY <3>1
    <3> QED BY <3>2
  <2> HIDE DEF all
  <2> QED BY <2>1
<1> QED BY <1>4, <1>5, FS_Subset

\* whole is the table s with the rows t behind it.
Behind(whole, s, t) ==
    /\ Len(whole) = Len(s) + Len(t)
    /\ \A n \in 1..Len(s) : whole[n] = s[n]
    /\ \A n \in (Len(s) + 1)..Len(whole) :
          n - Len(s) \in 1..Len(t) /\ whole[n] = t[n - Len(s)]
    /\ \A i \in 1..Len(t) :
          Len(s) + i \in (Len(s) + 1)..Len(whole) /\ whole[Len(s) + i] = t[i]

\* Rows that follow a table leave it as it is.
LEMMA Joined ==
    ASSUME NEW S, NEW s \in Seq(S), NEW t \in Seq(S)
    PROVE  s \o t \in Seq(S) /\ Behind(s \o t, s, t)
<1>1. s \o t \in Seq(S) /\ Len(s \o t) = Len(s) + Len(t) /\ Len(s) \in Nat /\ Len(t) \in Nat
    OBVIOUS
<1>2. ASSUME NEW n \in 1..Len(s) PROVE (s \o t)[n] = s[n]
    OBVIOUS
<1>3. ASSUME NEW n \in (Len(s) + 1)..Len(s \o t)
      PROVE  n - Len(s) \in 1..Len(t) /\ (s \o t)[n] = t[n - Len(s)]
  <2>1. n \in Int /\ n > Len(s) /\ n <= Len(s) + Len(t)
      BY <1>1
  <2> QED BY <1>1, <2>1
<1>4. ASSUME NEW i \in 1..Len(t)
      PROVE  Len(s) + i \in (Len(s) + 1)..Len(s \o t) /\ (s \o t)[Len(s) + i] = t[i]
  <2>1. Len(s) + i \in (Len(s) + 1)..Len(s \o t)
      BY <1>1
  <2>2. (s \o t)[Len(s) + i] = t[(Len(s) + i) - Len(s)]
      BY <1>3, <2>1
  <2> QED BY <1>1, <2>1, <2>2
<1> QED BY <1>1, <1>2, <1>3, <1>4 DEF Behind

\* An evaluation does so.
LEMMA EvaluationFacts ==
    ASSUME NEW table \in Seq(RiskAlert), NEW catalogue, NEW targets \in SUBSET Loan,
           NEW rows, NEW snaps
    PROVE  EvaluatesTo(table, Evaluated(table, catalogue, targets, rows, snaps), targets,
                       [l \in targets |-> OutcomesFor(catalogue, rows, snaps, l)])
<1> DEFINE Of(l) == OutcomesFor(catalogue, rows, snaps, l)
           o == [l \in targets |-> Of(l)]
           reviewed == [n \in DOMAIN table |->
                           IF table[n].loan_id \in targets
                           THEN Reviewed(table[n], Of(table[n].loan_id)) ELSE table[n]]
           new == UNION {Raised(table, l, Of(l)) : l \in targets}
           listed == SetToSeq(new)
           after == Evaluated(table, catalogue, targets, rows, snaps)
<1>1. after = reviewed \o listed
    BY DEF Evaluated, OutcomesFor
<1>2. \A l \in targets : o[l] = Of(l) /\ o[l].actionable \subseteq Seeded
    BY DEF OutcomesFor, Outcomes
<1>3. new = UNION {Raised(table, l, o[l]) : l \in targets}
    BY <1>2
<1>4. IsFiniteSet(new)
  <2>1. \A x \in new : \E l \in targets : x \in Raised(table, l, o[l])
      BY <1>3
  <2> HIDE DEF o, new
  <2> QED BY <1>2, <2>1, RaisedFinite
<1>5. new \subseteq RiskAlert
  <2>1. ASSUME NEW l \in targets, NEW x \in Raised(table, l, Of(l))
        PROVE  x \in RiskAlert
      BY <2>1, RaisedFacts DEF OutcomesFor
  <2> QED BY <2>1
<1> HIDE DEF new
<1>6. /\ listed \in Seq(new)
      /\ \A x \in new : \E i \in 1..Len(listed) : listed[i] = x
      /\ new = {} => listed = << >>
    BY <1>4, Enumerated, EnumeratedNone
<1>7. reviewed \in Seq(RiskAlert) /\ Len(reviewed) = Len(table)
  <2>1. \A n \in 1..Len(table) : reviewed[n] \in RiskAlert
      BY ReviewFacts
  <2>2. reviewed = [n \in 1..Len(table) |-> reviewed[n]]
      OBVIOUS
  <2> HIDE DEF reviewed
  <2> QED BY <2>1, <2>2
<1> HIDE DEF listed
<1>8. listed \in Seq(RiskAlert) /\ \A i \in 1..Len(listed) : listed[i] \in new
    BY <1>5, <1>6
<1>9. \A n \in 1..Len(table) :
          reviewed[n] = IF table[n].loan_id \in targets
                        THEN Reviewed(table[n], o[table[n].loan_id]) ELSE table[n]
    BY <1>2
<1> HIDE DEF reviewed, after, o
<1>10. /\ after \in Seq(RiskAlert) /\ Len(after) = Len(table) + Len(listed)
       /\ \A n \in 1..Len(table) : after[n] = reviewed[n]
       /\ \A n \in (Len(table) + 1)..Len(after) :
             n - Len(table) \in 1..Len(listed) /\ after[n] = listed[n - Len(table)]
       /\ \A i \in 1..Len(listed) :
             Len(table) + i \in (Len(table) + 1)..Len(after) /\ after[Len(table) + i] = listed[i]
  <2>1. after \in Seq(RiskAlert) /\ Behind(after, reviewed, listed)
      BY <1>1, <1>7, <1>8, Joined
  <2> QED BY <1>7, <2>1 DEF Behind
<1>11. Len(listed) \in Nat /\ Len(table) \in Nat
    BY <1>8
<1>12. \A n \in (Len(table) + 1)..Len(after) :
           \E l \in targets : after[n] \in Raised(table, l, o[l])
  <2>1. SUFFICES ASSUME NEW n \in (Len(table) + 1)..Len(after)
                 PROVE  \E l \in targets : after[n] \in Raised(table, l, o[l])
      OBVIOUS
  <2>2. after[n] \in new
      BY <1>8, <1>10
  <2> QED BY <1>3, <2>2
<1>13. \A l \in targets : \A x \in Raised(table, l, o[l]) :
          \E n \in (Len(table) + 1)..Len(after) : after[n] = x
  <2>1. SUFFICES ASSUME NEW l \in targets, NEW x \in Raised(table, l, o[l])
                 PROVE  \E n \in (Len(table) + 1)..Len(after) : after[n] = x
      OBVIOUS
  <2>2. x \in new
      BY <1>3
  <2>3. PICK i \in 1..Len(listed) : listed[i] = x
      BY <1>6, <2>2
  <2> QED BY <1>10, <2>3
<1>14. (\A l \in targets : Raised(table, l, o[l]) = {}) => Len(after) = Len(table)
  <2>1. SUFFICES ASSUME \A l \in targets : Raised(table, l, o[l]) = {}
                 PROVE  Len(after) = Len(table)
      OBVIOUS
  <2>2. new = {}
      BY <1>3, <2>1
  <2>3. Len(listed) = 0
      BY <1>6, <2>2
  <2> QED BY <1>10, <2>3
<1>15. Len(table) <= Len(after)
    BY <1>10, <1>11
<1>16. \A n \in 1..Len(table) :
           after[n] = IF table[n].loan_id \in targets
                      THEN Reviewed(table[n], o[table[n].loan_id]) ELSE table[n]
    BY <1>9, <1>10
<1>17. after \in Seq(RiskAlert)
    BY <1>10
<1>18. EvaluatesTo(table, after, targets, o)
    BY <1>12, <1>13, <1>14, <1>15, <1>16, <1>17, Zenon DEF EvaluatesTo
<1> QED BY <1>18 DEF after, o

-------------------------------------------------------------------------------
(* Rows.                                                                   *)

\* What is written of a loan's row is a row; of the columns only those that the handler changed
\* are written.
LEMMA LoanWritten ==
    ASSUME NEW row \in LoanRow, NEW old \in LoanRow, NEW new \in LoanRow
    PROVE  Write(row, old, new) \in LoanRow
    BY DEF Write, LoanRow

\* So for an alert.  What a handler leaves as it read it is not written.
LEMMA AlertWritten ==
    ASSUME NEW row \in RiskAlert, NEW old \in RiskAlert, NEW new \in RiskAlert
    PROVE  /\ Write(row, old, new) \in RiskAlert
           /\ new = old => Write(row, old, new) = row
    BY DEF Write, RiskAlert

\* Refreshing a loan's position copies what its schedule shows and keeps its status.
LEMMA PositionFacts ==
    ASSUME NEW row \in LoanRow, NEW a \in Arrears
    PROVE  /\ Positioned(row, a) \in LoanRow /\ Classified(Positioned(row, a)) \in LoanRow
           /\ Positioned(row, a).status = row.status
           /\ Classified(Positioned(row, a)).status = row.status
           /\ SameArrears(Positioned(row, a), a)
           /\ SameArrears(Classified(Positioned(row, a)), a)
<1>1. a \in [days_past_due : Nat, installments_overdue : Nat, overdue_amount : Nat]
    BY ArrearsAssumption
<1>2. \A dpd \in Nat : TrafficLight(dpd) \in {"GREEN", "YELLOW", "RED"}
    BY DEF TrafficLight
<1>3. /\ Positioned(row, a) \in LoanRow /\ Positioned(row, a).status = row.status
      /\ SameArrears(Positioned(row, a), a)
    BY <1>1, <1>2 DEF Positioned, LoanRow, SameArrears
<1>4. ASSUME NEW placed \in LoanRow, SameArrears(placed, a)
      PROVE  /\ Classified(placed) \in LoanRow /\ Classified(placed).status = placed.status
             /\ SameArrears(Classified(placed), a)
    BY <1>2, <1>4 DEF Classified, LoanRow, SameArrears
<1> QED BY <1>3, <1>4

\* The rules read of a loan its arrears and no more.
LEMMA MetricsOfArrears ==
    ASSUME NEW row, NEW a, SameArrears(row, a), NEW snap
    PROVE  Metrics(row, snap) = Metrics(a, snap)
    BY DEF SameArrears, Metrics, LoanSnapshotRow

\* after is rows with the traffic lights that the rules in force give the loans in targets.
LightsTo(rows, after, targets, snaps) ==
    /\ after \in [Loan -> LoanRow]
    /\ \A l \in Loan :
          /\ after[l].status = rows[l].status /\ SameArrears(after[l], rows[l])
          /\ l \in targets => after[l].risk_status =
                loan_risk_status(active_rules, Metrics(rows[l], snaps[l]))
          /\ l \notin targets => after[l] = rows[l]

\* The evaluation sets the traffic light of the loans it is for, and nothing else of a loan.
LEMMA LitFacts ==
    ASSUME NEW targets \in SUBSET Loan, NEW rows \in [Loan -> LoanRow], NEW snaps
    PROVE  LightsTo(rows, Lit(active_rules, targets, rows, snaps), targets, snaps)
<1> DEFINE Light(l) == loan_risk_status(active_rules, Metrics(rows[l], snaps[l]))
<1>1. \A l \in Loan : Light(l) \in {"GREEN", "YELLOW", "RED"}
    BY InForce, LightIsOne
<1>2. Lit(active_rules, targets, rows, snaps) =
          [l \in Loan |-> IF l \notin targets THEN rows[l]
                          ELSE [rows[l] EXCEPT !.risk_status = Light(l)]]
    BY DEF Lit
<1> HIDE DEF Light
<1>3. ASSUME NEW l \in Loan
      PROVE  LET row == [rows[l] EXCEPT !.risk_status = Light(l)]
             IN  /\ row \in LoanRow /\ row.status = rows[l].status
                 /\ row.risk_status = Light(l) /\ SameArrears(row, rows[l])
    BY <1>1 DEF LoanRow, SameArrears
<1>4. PICK after : after = Lit(active_rules, targets, rows, snaps)
    OBVIOUS
<1>5. /\ after \in [Loan -> LoanRow]
      /\ \A l \in Loan :
            /\ after[l].status = rows[l].status /\ SameArrears(after[l], rows[l])
            /\ l \in targets => after[l].risk_status = Light(l)
            /\ l \notin targets => after[l] = rows[l]
    BY <1>2, <1>3, <1>4 DEF SameArrears
<1>6. LightsTo(rows, after, targets, snaps)
    BY <1>5 DEF LightsTo, Light
<1> QED BY <1>4, <1>6

-------------------------------------------------------------------------------
(* What a step leaves the requests under way.                              *)

\* Storing a table of alerts notes the requests that hold one of those it changes.
LEMMA StoreFacts ==
    ASSUME NEW others, NEW new, StoreAlerts(others, new)
    PROVE  /\ alerts' = new /\ Indexed(alerts)'
           /\ overlapped \subseteq overlapped'
           /\ \A v \in others : \A n \in Held(v) \cap DOMAIN alerts :
                 alerts'[n] = alerts[n] \/ n \in overlapped'
<1>1. alerts' = new /\ Indexed(new)
    BY DEF StoreAlerts
<1>2. overlapped' = overlapped \cup (Changed(new) \cap UNION {Held(v) : v \in others})
    BY DEF StoreAlerts, NoteOverlap
<1>3. Indexed(alerts)'
    BY <1>1 DEF Indexed
<1>4. ASSUME NEW v \in others, NEW n \in Held(v) \cap DOMAIN alerts, alerts[n] # new[n]
      PROVE  n \in overlapped'
    BY <1>2, <1>4 DEF Changed
<1> QED BY <1>1, <1>2, <1>3, <1>4

\* A request that goes on as it was still holds what it held, and one that is over nothing.
LEMMA CopiedStays ==
    ASSUME Typed, Copied, Len(alerts') \in Nat, Len(alerts) <= Len(alerts'),
           DOMAIN alerts' = 1..Len(alerts'), overlapped \subseteq overlapped',
           \A w \in Worker :
              \/ serving'[w] = Idle
              \/ /\ serving'[w] = serving[w]
                 /\ \A n \in Held(w) \cap DOMAIN alerts :
                       alerts'[n] = alerts[n] \/ n \in overlapped'
    PROVE  Copied'
<1> SUFFICES ASSUME NEW w \in Worker, serving'[w] # Idle
             PROVE  /\ serving'[w].op \in {"evaluate", "reviewed"} => EvaluationHeld(serving[w])'
                    /\ serving'[w].op = "work" => WorkHeld(serving[w])'
    BY DEF Copied, Idle
<1>1. PICK r : r = serving[w]
    OBVIOUS
<1>2. serving'[w] = r
    BY <1>1
<1>3. \A n \in Held(w) \cap DOMAIN alerts : alerts'[n] = alerts[n] \/ n \in overlapped'
    OBVIOUS
<1>4. Request(r)
    BY <1>1 DEF Typed
<1>5. Len(alerts) \in Nat /\ DOMAIN alerts = 1..Len(alerts)
    BY DEF Typed
<1>6. ASSUME r.op \in {"evaluate", "reviewed"}
      PROVE  EvaluationHeld(r)'
  <2>1. r.copy \in Seq(RiskAlert) /\ r.new \in Seq(RiskAlert)
      BY <1>4, <1>6 DEF Request
  <2>2. EvaluationHeld(r)
      BY <1>1, <1>6 DEF Copied
  <2>3. Held(w) = DOMAIN r.copy /\ DOMAIN r.copy = 1..Len(r.copy) /\ Len(r.copy) \in Nat
      BY <1>1, <1>6, <2>1 DEF Held
  <2>4. ASSUME NEW n \in 1..Len(r.copy)
        PROVE  r.copy[n] = alerts'[n] \/ n \in overlapped'
    <3>1. n \in Held(w) \cap DOMAIN alerts
        BY <1>5, <2>2, <2>3 DEF EvaluationHeld
    <3> QED BY <1>3, <2>2, <3>1 DEF EvaluationHeld
  <2> QED BY <1>5, <2>2, <2>3, <2>4 DEF EvaluationHeld
<1>7. ASSUME r.op = "work"
      PROVE  WorkHeld(r)'
  <2>1. WorkHeld(r)
      BY <1>1, <1>7 DEF Copied
  <2>2. Held(w) = {r.alert}
      BY <1>1, <1>7 DEF Held
  <2> QED BY <1>3, <1>5, <2>1, <2>2 DEF WorkHeld
<1> QED BY <1>1, <1>2, <1>6, <1>7 DEF EvaluationHeld, WorkHeld

\* A request that begins holds what it should, and the others go on.
LEMMA CopiedBegins ==
    ASSUME Typed, Copied, NEW w \in Worker, NEW r, UNCHANGED <<alerts, overlapped>>,
           serving' = [serving EXCEPT ![w] = r],
           r.op \in {"evaluate", "reviewed"} => EvaluationHeld(r), r.op = "work" => WorkHeld(r)
    PROVE  Copied'
<1>1. \A v \in Worker : serving'[v] = IF v = w THEN r ELSE serving[v]
    BY DEF Typed
<1>2. \A v : (EvaluationHeld(v) => EvaluationHeld(v)') /\ (WorkHeld(v) => WorkHeld(v)')
    BY DEF EvaluationHeld, WorkHeld
<1> QED BY <1>1, <1>2 DEF Copied, EvaluationHeld, WorkHeld

\* The same of its type.
LEMMA TypedBegins ==
    ASSUME Typed, NEW w \in Worker, NEW r, Request(r), serving' = [serving EXCEPT ![w] = r],
           UNCHANGED <<schedule, telemetry, battery, snapshots, loans, rules, alerts>>
    PROVE  Typed'
<1>1. Tables'
    BY DEF Typed, Tables
<1>2. \A v \in Worker : serving'[v] = IF v = w THEN r ELSE serving[v]
    BY DEF Typed
<1>3. serving' = [v \in Worker |-> serving'[v]]
    BY DEF Typed
<1>4. \A v \in Worker : Request(serving'[v])
    BY <1>2 DEF Typed
<1>5. \A v : Request(v)' <=> Request(v)
    BY DEF Request
<1>6. (\A v \in Worker : Request(serving[v]))'
    BY <1>4, <1>5 DEF Request
<1> QED BY <1>1, <1>3, <1>6 DEF Typed

\* Nothing that the fixed point is about changes.
LEMMA SettledStays ==
    ASSUME Settled,
           UNCHANGED <<today, schedule, telemetry, battery, snapshots, loans, rules, alerts,
                       job_runs, fresh>>
    PROVE  Settled'
<1>1. active_rules' = active_rules
    BY DEF active_rules
<1>2. \A l : OutcomesNow(l)' = OutcomesNow(l)
    BY <1>1 DEF OutcomesNow
<1>3. Book' = Book
    BY DEF Book, Active
<1>4. \A l, answer : SettledFor(l, answer) => SettledFor(l, answer)'
    BY <1>1, <1>2 DEF SettledFor
<1> QED BY <1>3, <1>4 DEF Settled

-------------------------------------------------------------------------------
(* The requests.                                                           *)

\* new is what an evaluation makes of table: it adds rows and leaves the closed ones.
KeepsClosed(table, new) ==
    /\ new \in Seq(RiskAlert) /\ Len(table) <= Len(new)
    /\ \A n \in 1..Len(table) :
          table[n].status \in CLOSED_ALERT_STATUSES => new[n] = table[n]

\* Every evaluation does so.
LEMMA EvaluationBegins ==
    ASSUME Typed, NEW catalogue, NEW targets \in SUBSET Loan, NEW rows, NEW snaps,
           NEW new, new = Evaluated(alerts, catalogue, targets, rows, snaps)
    PROVE  KeepsClosed(alerts, new)
<1>1. alerts \in Seq(RiskAlert)
    BY DEF Typed
<1>2. PICK o : EvaluatesTo(alerts, new, targets, o)
    BY <1>1, EvaluationFacts
<1>3. ASSUME NEW n \in 1..Len(alerts), alerts[n].status \in CLOSED_ALERT_STATUSES
      PROVE  new[n] = alerts[n]
  <2>1. alerts[n] \in RiskAlert
      BY <1>1
  <2>2. Reviewed(alerts[n], o[alerts[n].loan_id]) = alerts[n]
      BY <1>3, <2>1, ReviewFacts
  <2> QED BY <1>2, <2>2 DEF EvaluatesTo
<1> QED BY <1>2, <1>3 DEF EvaluatesTo, KeepsClosed

\* The evaluation on request reads the alerts and the loans, and writes nothing yet.
LEMMA BeginEvaluationKeeps ==
    ASSUME IInv, NEW w \in Worker, BeginEvaluation(w)
    PROVE  IInv'
<1>1. PICK targets \in {Book} \cup {{l} : l \in Loan} :
          serving' = [serving EXCEPT ![w] =
             [op |-> "evaluate", copy |-> alerts,
              new |-> Evaluated(alerts, active_rules, targets, loans, snapshots),
              old_loans |-> loans, new_loans |-> Lit(active_rules, targets, loans, snapshots)]]
    BY DEF BeginEvaluation
<1>2. UNCHANGED <<today, schedule, telemetry, battery, snapshots, loans, rules, alerts,
                  job_runs, overlapped, outdated, fresh>>
    BY DEF BeginEvaluation
<1>3. targets \in SUBSET Loan
    BY DEF Book
<1>4. PICK new : new = Evaluated(alerts, active_rules, targets, loans, snapshots)
    OBVIOUS
<1>5. PICK new_loans : new_loans = Lit(active_rules, targets, loans, snapshots)
    OBVIOUS
<1>6. Typed
    BY DEF IInv
<1>7. KeepsClosed(alerts, new)
    BY <1>3, <1>4, <1>6, EvaluationBegins
<1>8. /\ new_loans \in [Loan -> LoanRow] /\ loans \in [Loan -> LoanRow]
      /\ \A l \in Loan : SamePosition(new_loans[l], loans[l])
  <2>1. loans \in [Loan -> LoanRow]
      BY <1>6 DEF Typed
  <2>2. LightsTo(loans, new_loans, targets, snapshots)
      BY <1>3, <1>5, <2>1, LitFacts
  <2> QED BY <2>1, <2>2 DEF LightsTo, SamePosition
<1>9. PICK r : r = [op |-> "evaluate", copy |-> alerts, new |-> new,
                    old_loans |-> loans, new_loans |-> new_loans]
    OBVIOUS
<1>10. serving' = [serving EXCEPT ![w] = r]
    BY <1>1, <1>4, <1>5, <1>9
<1>11. /\ r.op = "evaluate" /\ r.copy = alerts /\ r.new = new /\ Request(r)
       /\ alerts \in Seq(RiskAlert)
    BY <1>6, <1>7, <1>8, <1>9 DEF Request, Typed, KeepsClosed
<1>12. EvaluationHeld(r)
  <2>1. Len(alerts) \in Nat
      BY <1>11
  <2> QED BY <1>7, <1>11, <2>1 DEF EvaluationHeld, KeepsClosed
<1>13. Copied'
    BY <1>2, <1>6, <1>10, <1>11, <1>12, CopiedBegins DEF IInv
<1>14. Typed'
    BY <1>2, <1>6, <1>10, <1>11, TypedBegins
<1>15. Settled' /\ Indexed(alerts)'
    BY <1>2, SettledStays DEF IInv, Indexed
<1> QED BY <1>13, <1>14, <1>15 DEF IInv

\* Work begins on an alert that is not closed, and changes its status or its assignee.
LEMMA BeginWorkKeeps ==
    ASSUME IInv, NEW w \in Worker, NEW n \in DOMAIN alerts, NEW row \in RiskAlert,
           alerts[n].status \notin CLOSED_ALERT_STATUSES, BeginWork(w, n, row)
    PROVE  IInv'
<1>1. PICK r : r = [op |-> "work", alert |-> n, copy |-> alerts[n], new |-> row]
    OBVIOUS
<1>2. serving' = [serving EXCEPT ![w] = r]
    BY <1>1 DEF BeginWork
<1>3. UNCHANGED <<today, schedule, telemetry, battery, snapshots, loans, rules, alerts,
                  job_runs, overlapped, outdated, fresh>>
    BY DEF BeginWork
<1>4. Typed /\ n \in Nat \ {0} /\ alerts[n] \in RiskAlert
    BY DEF IInv, Typed
<1>5. r.op = "work" /\ r \in AlertWork /\ Request(r) /\ WorkHeld(r)
    BY <1>1, <1>4 DEF AlertWork, WorkHeld, Request
<1>6. Copied'
    BY <1>2, <1>3, <1>4, <1>5, CopiedBegins DEF IInv
<1>7. Typed'
    BY <1>2, <1>3, <1>4, <1>5, TypedBegins
<1>8. Settled' /\ Indexed(alerts)'
    BY <1>3, SettledStays DEF IInv, Indexed
<1> QED BY <1>6, <1>7, <1>8 DEF IInv

\* Each of the officers' actions refuses a closed alert.
LEMMA WorkKeeps ==
    ASSUME IInv, NEW w \in Worker, Work(w)
    PROVE  IInv'
<1>1. PICK n \in DOMAIN alerts, officer \in Officer :
          \/ Acknowledge(w, n) \/ StartWork(w, n) \/ Resolve(w, n)
          \/ Assign(w, n, officer)
          \/ Escalate(w, n, officer) \/ Escalate(w, n, alerts[n].assigned_to)
    BY DEF Work
<1>2. alerts[n] \in RiskAlert
    BY DEF IInv, Typed
<1>3. ASSUME NEW target, Moves(alerts[n], target)
      PROVE  alerts[n].status \notin CLOSED_ALERT_STATUSES
    BY <1>3 DEF Moves, ALLOWED_TRANSITIONS, CLOSED_ALERT_STATUSES
<1>4. ASSUME NEW status \in AlertStatus
      PROVE  [alerts[n] EXCEPT !.status = status] \in RiskAlert
    BY <1>2 DEF RiskAlert
<1>5. CASE Acknowledge(w, n)
    BY <1>3, <1>4, <1>5, BeginWorkKeeps DEF Acknowledge, AlertStatus
<1>6. CASE StartWork(w, n)
    BY <1>3, <1>4, <1>6, BeginWorkKeeps DEF StartWork, AlertStatus
<1>7. CASE Resolve(w, n)
    BY <1>3, <1>4, <1>7, BeginWorkKeeps DEF Resolve, AlertStatus
<1>8. CASE Assign(w, n, officer)
  <2>1. [alerts[n] EXCEPT !.assigned_to = officer] \in RiskAlert
      BY <1>2 DEF RiskAlert
  <2> QED BY <1>8, <2>1, BeginWorkKeeps DEF Assign
<1>9. ASSUME NEW assignee \in Officer \cup {NoOfficer}, Escalate(w, n, assignee)
      PROVE  IInv'
  <2>1. [alerts[n] EXCEPT !.status = "ESCALATED", !.assigned_to = assignee] \in RiskAlert
      BY <1>2 DEF RiskAlert, AlertStatus
  <2> QED BY <1>3, <1>9, <2>1, BeginWorkKeeps DEF Escalate
<1>10. alerts[n].assigned_to \in Officer \cup {NoOfficer}
    BY <1>2 DEF RiskAlert
<1> QED BY <1>1, <1>5, <1>6, <1>7, <1>8, <1>9, <1>10

\* No alert that was closed is changed, unless a request had read it before it was closed.
ClosedKept ==
    \A n \in DOMAIN alerts :
        (alerts[n].status \in CLOSED_ALERT_STATUSES /\ n \notin overlapped')
            => alerts'[n] = alerts[n]

\* A commit: what is stored of the alerts is a table of them with no row less, the request is
\* over, and the others go on.
LEMMA CommitKeeps ==
    ASSUME IInv, NEW w \in Worker, NEW new \in Seq(RiskAlert), Len(alerts) <= Len(new),
           StoreAlerts(Worker \ {w}, new), serving' = [serving EXCEPT ![w] = Idle],
           loans' \in [Loan -> LoanRow], Tables', UNCHANGED <<schedule, rules>>
    PROVE  Typed' /\ Indexed(alerts)' /\ Copied'
<1>1. /\ alerts' = new /\ Indexed(alerts)' /\ overlapped \subseteq overlapped'
      /\ \A v \in Worker \ {w} : \A n \in Held(v) \cap DOMAIN alerts :
            alerts'[n] = alerts[n] \/ n \in overlapped'
    BY StoreFacts
<1>2. Typed /\ Copied
    BY DEF IInv
<1>3. \A v \in Worker : serving'[v] = IF v = w THEN Idle ELSE serving[v]
    BY <1>2 DEF Typed
<1>4. Len(alerts') \in Nat /\ DOMAIN alerts' = 1..Len(alerts') /\ Len(alerts) <= Len(alerts')
    BY <1>1
<1>5. Copied'
    BY <1>1, <1>2, <1>3, <1>4, CopiedStays
<1>6. serving' = [v \in Worker |-> serving'[v]]
    BY <1>2 DEF Typed
<1>7. (\A v \in Worker : Request(serving[v]))'
    BY <1>2, <1>3 DEF Typed, Request, Idle
<1>8. Typed'
    BY <1>1, <1>2, <1>6, <1>7 DEF Typed
<1> QED BY <1>1, <1>5, <1>8

\* The commit of an evaluation, on request or of a pass, writes what it changed of the rows it
\* read, and adds its own.
LEMMA StoreEvaluationKeeps ==
    ASSUME IInv, NEW w \in Worker, serving[w].op \in {"evaluate", "reviewed"},
           StoreEvaluation(w), Tables', UNCHANGED <<schedule, rules>>
    PROVE  Typed' /\ Indexed(alerts)' /\ Copied' /\ ClosedKept
<1>1. PICK r : r = serving[w]
    OBVIOUS
<1>2. PICK n0 : n0 = Len(r.copy)
    OBVIOUS
<1> DEFINE merged == [n \in DOMAIN alerts |->
                         IF n <= n0 THEN Write(alerts[n], r.copy[n], r.new[n]) ELSE alerts[n]]
           added == SubSeq(r.new, n0 + 1, Len(r.new))
<1>3. /\ r.op \in {"evaluate", "reviewed"}
      /\ StoreAlerts(Worker \ {w}, merged \o added)
      /\ loans' = [l \in Loan |-> Write(loans[l], r.old_loans[l], r.new_loans[l])]
      /\ serving' = [serving EXCEPT ![w] = Idle]
    BY <1>1, <1>2 DEF StoreEvaluation, StoreLoans, WrittenLoans
<1>4. Request(r) /\ EvaluationHeld(r)
    BY <1>1, <1>3 DEF IInv, Typed, Copied
<1>5. /\ r.copy \in Seq(RiskAlert) /\ r.new \in Seq(RiskAlert)
      /\ r.old_loans \in [Loan -> LoanRow] /\ r.new_loans \in [Loan -> LoanRow]
      /\ alerts \in Seq(RiskAlert) /\ loans \in [Loan -> LoanRow]
    BY <1>3, <1>4 DEF Request, IInv, Typed
<1>6. n0 \in Nat /\ n0 <= Len(r.new) /\ n0 <= Len(alerts)
    BY <1>2, <1>4, <1>5 DEF EvaluationHeld
<1>7. merged \in Seq(RiskAlert) /\ Len(merged) = Len(alerts)
  <2>1. ASSUME NEW n \in 1..Len(alerts)
        PROVE  merged[n] \in RiskAlert
    <3>1. CASE n <= n0
      <4>1. n \in 1..Len(r.copy) /\ n \in 1..Len(r.new)
          BY <1>2, <1>5, <1>6, <3>1
      <4>2. r.copy[n] \in RiskAlert /\ r.new[n] \in RiskAlert /\ alerts[n] \in RiskAlert
          BY <1>5, <4>1
      <4> QED BY <1>5, <3>1, <4>2, AlertWritten
    <3>2. CASE ~(n <= n0)
        BY <1>5, <3>2
    <3> QED BY <3>1, <3>2
  <2>2. merged = [n \in 1..Len(alerts) |-> merged[n]]
      BY <1>5
  <2> HIDE DEF merged
  <2> QED BY <1>5, <2>1, <2>2
<1>8. added \in Seq(RiskAlert)
    BY <1>5, <1>6
<1>9. /\ merged \o added \in Seq(RiskAlert)
      /\ Len(alerts) <= Len(merged \o added)
      /\ \A n \in 1..Len(alerts) : (merged \o added)[n] = merged[n]
  <2> HIDE DEF merged, added
  <2>1. Behind(merged \o added, merged, added) /\ merged \o added \in Seq(RiskAlert)
      BY <1>7, <1>8, Joined
  <2> QED BY <1>7, <1>8, <2>1 DEF Behind
<1>10. loans' \in [Loan -> LoanRow]
    BY <1>3, <1>5, LoanWritten
<1>11. Typed' /\ Indexed(alerts)' /\ Copied'
  <2> HIDE DEF merged, added
  <2> QED BY <1>3, <1>9, <1>10, CommitKeeps
<1>12. ASSUME NEW n \in DOMAIN alerts, alerts[n].status \in CLOSED_ALERT_STATUSES,
              n \notin overlapped'
       PROVE  alerts'[n] = alerts[n]
  <2>1. alerts' = merged \o added /\ overlapped \subseteq overlapped'
      BY <1>3, StoreFacts
  <2>2. n \in 1..Len(alerts) /\ alerts[n] \in RiskAlert
      BY <1>5
  <2>3. alerts'[n] = merged[n]
      BY <1>9, <2>1, <2>2
  <2>4. CASE n <= n0
    <3>1. n \in 1..Len(r.copy)
        BY <1>2, <1>5, <1>6, <2>2, <2>4
    <3>2. r.copy[n] = alerts[n] /\ r.new[n] = r.copy[n]
        BY <1>4, <1>12, <2>1, <3>1 DEF EvaluationHeld
    <3>3. Write(alerts[n], r.copy[n], r.new[n]) = alerts[n]
        BY <2>2, <3>2, AlertWritten
    <3> QED BY <2>3, <2>4, <3>3
  <2>5. CASE ~(n <= n0)
      BY <2>3, <2>5
  <2> QED BY <2>4, <2>5
<1> QED BY <1>11, <1>12 DEF ClosedKept

\* So the commit of an evaluation on request, which leaves no pass fresh.
LEMMA CommitEvaluationKeeps ==
    ASSUME IInv, NEW w \in Worker, CommitEvaluation(w)
    PROVE  IInv' /\ ClosedKept
<1>1. /\ serving[w].op = "evaluate" /\ StoreEvaluation(w) /\ fresh' = Nothing
      /\ UNCHANGED <<schedule, telemetry, battery, snapshots, rules>>
    BY DEF CommitEvaluation
<1>2. Tables'
    BY <1>1 DEF IInv, Typed, Tables
<1>3. Typed' /\ Indexed(alerts)' /\ Copied' /\ ClosedKept
    BY <1>1, <1>2, StoreEvaluationKeeps
<1>4. Settled'
    BY <1>1 DEF Settled
<1> QED BY <1>3, <1>4 DEF IInv

\* The commit of an officer's work writes what it changed of the alert's row.
LEMMA CommitWorkKeeps ==
    ASSUME IInv, NEW w \in Worker, CommitWork(w)
    PROVE  IInv' /\ ClosedKept
<1>1. PICK r : r = serving[w]
    OBVIOUS
<1>2. PICK row : row = Write(alerts[r.alert], r.copy, r.new)
    OBVIOUS
<1>3. PICK new : new = [alerts EXCEPT ![r.alert] = row]
    OBVIOUS
<1>4. /\ r.op = "work" /\ StoreAlerts(Worker \ {w}, new)
      /\ serving' = [serving EXCEPT ![w] = Idle] /\ fresh' = Nothing
      /\ UNCHANGED <<schedule, telemetry, battery, snapshots, rules, loans>>
    BY <1>1, <1>2, <1>3 DEF CommitWork
<1>5. r \in AlertWork /\ WorkHeld(r)
    BY <1>1, <1>4 DEF IInv, Typed, Copied, Request
<1>6. /\ r.alert \in DOMAIN alerts /\ r.copy \in RiskAlert /\ r.new \in RiskAlert
      /\ alerts \in Seq(RiskAlert) /\ loans \in [Loan -> LoanRow]
    BY <1>5 DEF AlertWork, WorkHeld, IInv, Typed
<1>7. row \in RiskAlert
    BY <1>2, <1>6, AlertWritten
<1>8. new \in Seq(RiskAlert) /\ Len(new) = Len(alerts) /\ Len(alerts) <= Len(new)
    BY <1>3, <1>6, <1>7
<1>9. IInv'
  <2>1. Tables'
      BY <1>4 DEF IInv, Typed, Tables
  <2>2. Typed' /\ Indexed(alerts)' /\ Copied'
      BY <1>4, <1>6, <1>8, <2>1, CommitKeeps
  <2>3. Settled'
      BY <1>4 DEF Settled
  <2> QED BY <2>2, <2>3 DEF IInv
<1>10. ASSUME NEW n \in DOMAIN alerts, alerts[n].status \in CLOSED_ALERT_STATUSES,
              n \notin overlapped'
       PROVE  alerts'[n] = alerts[n]
  <2>1. alerts' = new /\ overlapped \subseteq overlapped'
      BY <1>4, StoreFacts
  <2>2. n # r.alert
      BY <1>5, <1>10, <2>1 DEF WorkHeld
  <2> QED BY <1>3, <2>1, <2>2
<1> QED BY <1>9, <1>10 DEF ClosedKept

\* A request rolled back writes nothing.
LEMMA AbortKeeps ==
    ASSUME IInv, NEW w \in Worker, Abort(w)
    PROVE  IInv'
<1>1. serving' = [serving EXCEPT ![w] = Idle]
    BY DEF Abort
<1>2. UNCHANGED <<today, schedule, telemetry, battery, snapshots, loans, rules, alerts,
                  job_runs, overlapped, fresh>>
    BY DEF Abort
<1>3. Typed
    BY DEF IInv
<1>4. Copied'
    BY <1>1, <1>2, <1>3, CopiedBegins DEF IInv, Idle
<1>5. Typed'
    BY <1>1, <1>2, <1>3, TypedBegins DEF Request, Idle
<1>6. Settled' /\ Indexed(alerts)'
    BY <1>2, SettledStays DEF IInv, Indexed
<1> QED BY <1>4, <1>5, <1>6 DEF IInv

-------------------------------------------------------------------------------
(* Days, payments and switches.                                            *)

\* What leaves the alerts and the requests alone, and makes the last pass stale.
LEMMA StaleKeeps ==
    ASSUME IInv, UNCHANGED <<telemetry, battery, snapshots, alerts, serving, overlapped>>,
           fresh' = Nothing, schedule' \in [Loan -> Arrears], loans' \in [Loan -> LoanRow],
           rules' \in [Seeded -> RuleRow]
    PROVE  IInv'
<1>1. Typed'
  <2>1. (\A w \in Worker : Request(serving[w]))'
      BY DEF IInv, Typed, Request
  <2> QED BY <2>1 DEF IInv, Typed, Tables
<1>2. Copied'
    BY DEF IInv, Copied, EvaluationHeld, WorkHeld
<1> QED BY <1>1, <1>2 DEF IInv, Settled, Indexed

\* A payment places the loan anew, and may close it.
LEMMA PayKeeps ==
    ASSUME IInv, NEW l \in Loan, Pay(l)
    PROVE  IInv'
<1>1. PICK a \in Arrears, status \in {"ACTIVE", "CLOSED"} :
          /\ schedule' = [schedule EXCEPT ![l] = a]
          /\ loans' = [loans EXCEPT ![l] = [Positioned(@, a) EXCEPT !.status = status]]
    BY DEF Pay
<1>2. /\ schedule \in [Loan -> Arrears] /\ loans \in [Loan -> LoanRow]
      /\ rules \in [Seeded -> RuleRow]
    BY DEF IInv, Typed
<1>3. Positioned(loans[l], a) \in LoanRow
    BY <1>2, PositionFacts
<1>4. [Positioned(loans[l], a) EXCEPT !.status = status] \in LoanRow
    BY <1>3 DEF LoanRow
<1>5. schedule' \in [Loan -> Arrears] /\ loans' \in [Loan -> LoanRow]
    BY <1>1, <1>2, <1>4
<1> QED BY <1>2, <1>5, StaleKeeps DEF Pay

\* A day passes.
LEMMA TickKeeps ==
    ASSUME IInv, Tick
    PROVE  IInv'
<1>1. schedule' \in [Loan -> Arrears]
    BY DEF Tick
<1> QED BY <1>1, StaleKeeps DEF Tick, IInv, Typed

\* An administrator switches a rule, or whether it resolves itself.
LEMMA AdministerKeeps ==
    ASSUME IInv, Administer
    PROVE  IInv'
<1>1. rules \in [Seeded -> RuleRow] /\ loans \in [Loan -> LoanRow] /\ schedule \in [Loan -> Arrears]
    BY DEF IInv, Typed
<1>2. PICK r \in Switched, b \in BOOLEAN : SetRuleEnabled(r, b) \/ UpdateRule(r, b)
    BY DEF Administer
<1>3. r \in Seeded
    BY SeededAssumption
<1>4. /\ [rules[r] EXCEPT !.is_active = b] \in RuleRow
      /\ [rules[r] EXCEPT !.auto_resolve = b] \in RuleRow
    BY <1>1, <1>3 DEF RuleRow
<1>5. rules' \in [Seeded -> RuleRow]
    BY <1>1, <1>2, <1>3, <1>4 DEF SetRuleEnabled, UpdateRule
<1> QED BY <1>1, <1>5, StaleKeeps DEF Administer

-------------------------------------------------------------------------------
(* The nightly pass.                                                       *)

\* o has the outcomes of the rules of catalogue on the metrics M of the loans in targets.
OutcomesOn(o, targets, catalogue, M) ==
    \A l \in targets : o[l] = Outcomes(catalogue, M[l])

\* Evaluating loan l with outcomes raises no alert and closes none.
Fixed(table, l, outcomes) ==
    /\ Raised(table, l, outcomes) = {}
    /\ \A n \in DOMAIN table :
          table[n].loan_id = l => Reviewed(table[n], outcomes) = table[n]

\* Evaluated again with the same outcomes, a table raises nothing and closes nothing.
LEMMA EvaluatedOnce ==
    ASSUME NEW table \in Seq(RiskAlert), NEW after, NEW targets \in SUBSET Loan, NEW o,
           EvaluatesTo(table, after, targets, o),
           NEW catalogue, NEW M, OutcomesOn(o, targets, catalogue, M),
           NEW l \in targets
    PROVE  Fixed(after, l, o[l])
<1>1. /\ after \in Seq(RiskAlert) /\ Len(table) <= Len(after)
      /\ Len(table) \in Nat /\ Len(after) \in Nat
      /\ DOMAIN table = 1..Len(table) /\ DOMAIN after = 1..Len(after)
    BY DEF EvaluatesTo
<1>2. \A n \in 1..Len(table) :
          after[n] = IF table[n].loan_id \in targets
                     THEN Reviewed(table[n], o[table[n].loan_id]) ELSE table[n]
    BY DEF EvaluatesTo
<1>3. ASSUME NEW m \in targets, NEW x \in Raised(table, m, o[m])
      PROVE  /\ x \in RiskAlert /\ x.loan_id = m /\ Live(x) /\ x.rule \in o[m].actionable
             /\ Reviewed(x, o[m]) = x
  <2>1. o[m] = Outcomes(catalogue, M[m]) /\ m \in Loan
      BY DEF OutcomesOn
  <2> QED BY <1>3, <2>1, RaisedFacts
<1>4. ASSUME NEW n \in DOMAIN after, after[n].loan_id = l
      PROVE  Reviewed(after[n], o[l]) = after[n]
  <2>1. CASE n \in 1..Len(table)
    <3>1. table[n] \in RiskAlert
        BY <2>1
    <3>2. after[n].loan_id = table[n].loan_id
        BY <1>2, <2>1, <3>1, ReviewFacts
    <3>3. after[n] = Reviewed(table[n], o[l])
        BY <1>2, <1>4, <2>1, <3>2
    <3> QED BY <3>1, <3>3, ReviewFacts
  <2>2. CASE n \notin 1..Len(table)
    <3>1. n \in (Len(table) + 1)..Len(after)
        BY <1>1, <2>2
    <3>2. PICK m \in targets : after[n] \in Raised(table, m, o[m])
        BY <3>1 DEF EvaluatesTo
    <3>3. after[n].loan_id = m /\ Reviewed(after[n], o[m]) = after[n]
        BY <1>3, <3>2
    <3> QED BY <1>4, <3>3
  <2> QED BY <2>1, <2>2
<1>5. ASSUME NEW r \in o[l].actionable
      PROVE  LiveFor(after, l, r) # {}
  <2>1. r \notin o[l].fired \ o[l].actionable /\ r \notin o[l].cleared
    <3>1. PICK metrics : metrics = M[l]
        OBVIOUS
    <3>2. o[l] = Outcomes(catalogue, metrics)
        BY <3>1 DEF OutcomesOn
    <3>3. /\ o[l].actionable \subseteq o[l].fired
          /\ o[l].cleared \cap o[l].fired = {}
        BY <3>2 DEF Outcomes, actionable
    <3> QED BY <1>5, <3>3
  <2>2. CASE LiveFor(table, l, r) # {}
    <3>1. PICK n \in DOMAIN table : table[n].loan_id = l /\ table[n].rule = r /\ Live(table[n])
        BY <2>2 DEF LiveFor
    <3>2. after[n] = Reviewed(table[n], o[l])
        BY <1>1, <1>2, <3>1
    <3>3. after[n] = table[n]
        BY <2>1, <3>1, <3>2 DEF Reviewed
    <3>4. n \in DOMAIN after
        BY <1>1
    <3> QED BY <3>1, <3>3, <3>4 DEF LiveFor
  <2>3. CASE LiveFor(table, l, r) = {}
    <3>1. NewAlert(l, r) \in Raised(table, l, o[l])
        BY <2>3 DEF Raised
    <3>2. PICK n \in (Len(table) + 1)..Len(after) : after[n] = NewAlert(l, r)
        BY <3>1 DEF EvaluatesTo
    <3>3. n \in DOMAIN after
        BY <1>1
    <3>4. after[n].loan_id = l /\ after[n].rule = r /\ Live(after[n])
        BY <3>2 DEF NewAlert, Live, LIVE_STATUSES
    <3> QED BY <3>3, <3>4 DEF LiveFor
  <2> QED BY <2>2, <2>3
<1>6. Raised(after, l, o[l]) = {}
    BY <1>5 DEF Raised
<1> QED BY <1>4, <1>6 DEF Fixed

\* So a table of a vehicle's days, whether the answer was plausible or not.
LEMMA UpsertTwice ==
    ASSUME NEW rows, NEW day, NEW new
    PROVE  Upsert(Upsert(rows, day, new), day, new) = Upsert(rows, day, new)
<1>1. CASE new = None
    BY <1>1 DEF Upsert, None
<1> QED BY <1>1, WrittenTwice

\* What a pass that is up to date writes of the tables.
Pass(answer, placed, snaps) ==
    /\ PlacedAs(placed)
    /\ snapshots' = [l \in Loan |-> snaps[l]]
    /\ \A l \in Book :
          /\ telemetry'[l] = UpsertTelemetry(telemetry[l], today, answer[l])
          /\ battery'[l] = UpsertBattery(battery[l], today, answer[l])
          /\ snaps[l] = {derive(telemetry'[l], battery'[l], today)}
    /\ \A l \in Loan \ Book :
          /\ telemetry'[l] = telemetry[l] /\ battery'[l] = battery[l]
          /\ snaps[l] = snapshots[l]
    /\ telemetry' = [l \in Loan |-> telemetry'[l]]
    /\ battery' = [l \in Loan |-> battery'[l]]
    /\ alerts' = Evaluated(alerts, active_rules, Book, placed, snaps)
    /\ loans' = Lit(active_rules, Book, placed, snaps)

\* What a request changed of a row that is as it was read is the row as it leaves it.
LEMMA Unmerged ==
    ASSUME NEW S \in {LoanRow, RiskAlert}, NEW row \in S, NEW new \in S
    PROVE  Write(row, row, new) = new
<1>1. CASE S = LoanRow
    BY <1>1 DEF Write, LoanRow
<1>2. CASE S = RiskAlert
    BY <1>2 DEF Write, RiskAlert
<1> QED BY <1>1, <1>2

\* The commit of a pass stores the tables by loan.
LEMMA CommitNightlyTables ==
    ASSUME NEW w \in Worker, CommitNightly(w)
    PROVE  Tables'
<1> DEFINE r == serving[w]
           Later(l) == \E s \in snapshots[l] : s.snapshot_date > r.day
<1>1. /\ telemetry' = [l \in Loan |->
            IF l \in r.targets THEN UpsertTelemetry(telemetry[l], r.day, r.answer[l])
            ELSE telemetry[l]]
      /\ battery' = [l \in Loan |->
            IF l \in r.targets THEN UpsertBattery(battery[l], r.day, r.answer[l])
            ELSE battery[l]]
      /\ snapshots' = [l \in Loan |->
            IF l \in r.targets /\ ~Later(l) THEN r.snaps[l] ELSE snapshots[l]]
    BY DEF CommitNightly
<1> HIDE DEF r, Later
<1>2. telemetry' = [l \in Loan |-> telemetry'[l]]
    BY <1>1
<1>3. battery' = [l \in Loan |-> battery'[l]]
    BY <1>1
<1>4. snapshots' = [l \in Loan |-> snapshots'[l]]
    BY <1>1
<1> QED BY <1>2, <1>3, <1>4 DEF Tables

\* An evaluation of the alerts and loans as they are is stored as it is.
LEMMA StoredAsComputed ==
    ASSUME IInv, NEW w \in Worker, serving[w].op = "reviewed", StoreEvaluation(w),
           serving[w].copy = alerts, serving[w].old_loans = loans
    PROVE  alerts' = serving[w].new /\ loans' = serving[w].new_loans
<1>1. PICK r : r = serving[w]
    OBVIOUS
<1>2. /\ r.copy = alerts /\ r.old_loans = loans /\ r.new \in Seq(RiskAlert)
      /\ r.new_loans \in [Loan -> LoanRow] /\ alerts \in Seq(RiskAlert)
      /\ loans \in [Loan -> LoanRow] /\ Len(alerts) <= Len(r.new)
    BY <1>1 DEF IInv, Typed, Request, Copied, EvaluationHeld
<1>3. PICK n0 : n0 = Len(alerts)
    OBVIOUS
<1>4. PICK merged : merged = [n \in DOMAIN alerts |->
                         IF n <= n0 THEN Write(alerts[n], alerts[n], r.new[n]) ELSE alerts[n]]
    OBVIOUS
<1>5. /\ alerts' = merged \o SubSeq(r.new, n0 + 1, Len(r.new))
      /\ loans' = [l \in Loan |-> Write(loans[l], loans[l], r.new_loans[l])]
    BY <1>1, <1>2, <1>3, <1>4 DEF StoreEvaluation, StoreAlerts, StoreLoans, WrittenLoans
<1>6. loans' = r.new_loans
  <2>1. ASSUME NEW l \in Loan
        PROVE  Write(loans[l], loans[l], r.new_loans[l]) = r.new_loans[l]
      BY <1>2, Unmerged
  <2> QED BY <1>2, <1>5, <2>1
<1>7. merged = SubSeq(r.new, 1, n0)
  <2>1. ASSUME NEW n \in 1..n0
        PROVE  merged[n] = r.new[n]
    <3>1. alerts[n] \in RiskAlert /\ r.new[n] \in RiskAlert /\ n \in DOMAIN alerts
        BY <1>2, <1>3
    <3>2. Write(alerts[n], alerts[n], r.new[n]) = r.new[n]
        BY <3>1, Unmerged
    <3> QED BY <1>4, <3>1, <3>2
  <2>2. merged = [n \in 1..n0 |-> merged[n]]
      BY <1>2, <1>3, <1>4
  <2> QED BY <1>2, <1>3, <2>1, <2>2
<1>8. SubSeq(r.new, 1, n0) \o SubSeq(r.new, n0 + 1, Len(r.new)) = r.new
  <2>1. PICK s : s = r.new
      OBVIOUS
  <2>2. s \in Seq(RiskAlert) /\ n0 \in Nat /\ n0 <= Len(s) /\ Len(s) \in Nat
      BY <1>2, <1>3, <2>1
  <2>3. 1 \in 1..(Len(s) + 1) /\ n0 \in (1 - 1)..Len(s) /\ Len(s) \in n0..Len(s)
      BY <2>2
  <2>4. SubSeq(s, 1, n0) \o SubSeq(s, n0 + 1, Len(s)) = SubSeq(s, 1, Len(s))
      BY <2>2, <2>3, ConcatAdjacentSubSeq
  <2>5. SubSeq(s, 1, Len(s)) = s
      BY <2>2, SubSeqFull
  <2> QED BY <2>1, <2>4, <2>5
<1> QED BY <1>1, <1>5, <1>6, <1>7, <1>8

\* A pass that commits up to date: every loan of the book is placed as its schedule shows, its
\* vehicle's day is stored and derived from, and it is evaluated once.
LEMMA NightlyFacts ==
    ASSUME Strong, NEW w \in Worker \ outdated, CommitNightly(w)
    PROVE  /\ \E placed : Pass(serving[w].answer, placed, serving[w].snaps)
           /\ UNCHANGED <<today, schedule, rules>>
           /\ job_runs' = job_runs \cup (Job \X {today})
           /\ fresh' = [night |-> today, answer |-> serving[w].answer]
<1>1. PICK r : r = serving[w]
    OBVIOUS
<1>2. r.op = "reviewed" /\ StoreEvaluation(w)
    BY <1>1 DEF CommitNightly
<1>3. IInv /\ ReadNow(r) /\ ReviewedNow(r) /\ Dated
    BY <1>1, <1>2 DEF Strong, UpToDate, Current
<1>4. PICK placed : /\ PlacedAs(placed)
                    /\ r.new = Evaluated(alerts, active_rules, Book, placed, r.snaps)
                    /\ r.new_loans = Lit(active_rules, Book, placed, r.snaps)
    BY <1>3 DEF ReviewedNow
<1>5. alerts' = r.new /\ loans' = r.new_loans
    BY <1>1, <1>2, <1>3, StoredAsComputed DEF ReviewedNow
<1>6. r.day = today /\ r.targets = Book /\ Book \subseteq Loan
    BY <1>3 DEF ReadNow, Book
<1>7. /\ telemetry' = [l \in Loan |->
            IF l \in Book THEN UpsertTelemetry(telemetry[l], today, r.answer[l])
            ELSE telemetry[l]]
      /\ battery' = [l \in Loan |->
            IF l \in Book THEN UpsertBattery(battery[l], today, r.answer[l])
            ELSE battery[l]]
      /\ snapshots' = [l \in Loan |->
            IF l \in Book /\ ~\E s \in snapshots[l] : s.snapshot_date > today THEN r.snaps[l]
            ELSE snapshots[l]]
    BY <1>1, <1>6 DEF CommitNightly
<1>8. ASSUME NEW l \in Loan
      PROVE  snapshots'[l] = r.snaps[l]
  <2>1. ~\E s \in snapshots[l] : s.snapshot_date > today
      BY <1>3 DEF Dated, Past
  <2>2. l \notin Book => r.snaps[l] = snapshots[l]
      BY <1>3 DEF ReadNow
  <2> QED BY <1>7, <2>1, <2>2
<1>9. \A l \in Book :
          /\ telemetry'[l] = UpsertTelemetry(telemetry[l], today, r.answer[l])
          /\ battery'[l] = UpsertBattery(battery[l], today, r.answer[l])
          /\ r.snaps[l] = {derive(telemetry'[l], battery'[l], today)}
    BY <1>3, <1>6, <1>7 DEF ReadNow
<1>10. \A l \in Loan \ Book :
           /\ telemetry'[l] = telemetry[l] /\ battery'[l] = battery[l]
           /\ r.snaps[l] = snapshots[l]
    BY <1>3, <1>7 DEF ReadNow
<1>11. Tables'
    BY CommitNightlyTables
<1>12. snapshots' = [l \in Loan |-> r.snaps[l]]
    BY <1>7, <1>8
<1>13. Pass(r.answer, placed, r.snaps)
    BY <1>4, <1>5, <1>9, <1>10, <1>11, <1>12 DEF Pass, Tables
<1>14. /\ UNCHANGED <<today, schedule, rules>>
       /\ job_runs' = job_runs \cup (Job \X {today})
       /\ fresh' = [night |-> today, answer |-> r.answer]
    BY <1>1, <1>6 DEF CommitNightly, Tracked
<1> QED BY <1>1, <1>13, <1>14

\* Such a pass leaves a fixed point of its own jobs.
LEMMA PassSettles ==
    ASSUME IInv, NEW answer, NEW placed, NEW snaps, Pass(answer, placed, snaps),
           UNCHANGED <<today, schedule, rules>>,
           fresh' = [night |-> today, answer |-> answer],
           job_runs' = job_runs \cup (Job \X {today})
    PROVE  Settled'
<1>1. /\ placed \in [Loan -> LoanRow]
      /\ \A l \in Loan : placed[l].status = loans[l].status
      /\ \A l \in Book : SameArrears(placed[l], schedule[l])
      /\ snapshots' = [l \in Loan |-> snaps[l]]
      /\ \A l \in Book :
            /\ telemetry'[l] = UpsertTelemetry(telemetry[l], today, answer[l])
            /\ battery'[l] = UpsertBattery(battery[l], today, answer[l])
            /\ snaps[l] = {derive(telemetry'[l], battery'[l], today)}
      /\ alerts' = Evaluated(alerts, active_rules, Book, placed, snaps)
      /\ loans' = Lit(active_rules, Book, placed, snaps)
    BY DEF Pass, PlacedAs
<1>2. PICK new : new = Evaluated(alerts, active_rules, Book, placed, snaps)
    OBVIOUS
<1>3. UNCHANGED <<today, schedule, rules>>
    OBVIOUS
<1>4. Typed /\ Book \in SUBSET Loan
    BY DEF IInv, Book
<1>5. alerts' = new
    BY <1>1, <1>2
<1>6. /\ loans' \in [Loan -> LoanRow]
      /\ \A l \in Loan :
            /\ loans'[l].status = placed[l].status /\ SameArrears(loans'[l], placed[l])
            /\ l \in Book => loans'[l].risk_status =
                  loan_risk_status(active_rules, Metrics(placed[l], snaps[l]))
  <2>1. LightsTo(placed, loans', Book, snaps)
      BY <1>1, <1>4, LitFacts
  <2> QED BY <2>1 DEF LightsTo
<1>7. Book' = Book
    BY <1>1, <1>6 DEF Book, Active
<1>8. active_rules' = active_rules
    BY <1>3 DEF active_rules
<1>9. PICK catalogue : catalogue = active_rules
    OBVIOUS
<1>10. PICK M : M = [l \in Book |-> Metrics(placed[l], snaps[l])]
    OBVIOUS
<1>11. PICK o : o = [l \in Book |-> OutcomesFor(catalogue, placed, snaps, l)]
    OBVIOUS
<1>12. EvaluatesTo(alerts, new, Book, o) /\ alerts \in Seq(RiskAlert)
    BY <1>2, <1>4, <1>9, <1>11, EvaluationFacts DEF Typed
<1>13. \A l \in Book : o[l] = Outcomes(catalogue, M[l])
    BY <1>10, <1>11 DEF OutcomesFor
<1>14. ASSUME NEW l \in Book
       PROVE  SettledFor(l, answer[l])'
  <2>1. l \in Loan
      BY <1>4
  <2>2. SameArrears(loans'[l], placed[l]) /\ SameArrears(placed[l], schedule[l])
      BY <1>1, <1>6, <2>1
  <2>3. Metrics(loans'[l], snapshots'[l]) = M[l]
    <3>1. snapshots'[l] = snaps[l]
        BY <1>1, <2>1
    <3> QED BY <1>10, <2>2, <3>1, MetricsOfArrears
  <2>4. OutcomesNow(l)' = o[l]
      BY <1>8, <1>9, <1>13, <2>3 DEF OutcomesNow
  <2>5. Fixed(new, l, o[l])
    <3>1. OutcomesOn(o, Book, catalogue, M)
        BY <1>13 DEF OutcomesOn
    <3> QED BY <1>4, <1>12, <3>1, EvaluatedOnce
  <2>6. /\ Raised(alerts', l, OutcomesNow(l)') = {}
        /\ \A n \in DOMAIN alerts' :
              alerts'[n].loan_id = l => Reviewed(alerts'[n], OutcomesNow(l)') = alerts'[n]
      BY <1>5, <2>4, <2>5 DEF Fixed
  <2>7. loans'[l].risk_status =
            loan_risk_status(active_rules', Metrics(loans'[l], snapshots'[l]))
      BY <1>6, <1>8, <1>10, <2>1, <2>3
  <2>8. /\ UpsertTelemetry(telemetry'[l], today, answer[l]) = telemetry'[l]
        /\ UpsertBattery(battery'[l], today, answer[l]) = battery'[l]
    <3>1. PICK rows, good : rows = telemetry[l] /\ good = Plausible(answer[l])
        OBVIOUS
    <3>2. telemetry'[l] = Upsert(rows, today, good)
        BY <1>1, <3>1 DEF UpsertTelemetry
    <3>3. PICK health, measured :
              /\ health = battery[l]
              /\ measured = {r.state_of_health : r \in {r \in answer[l] : PlausibleBattery(r)}}
        OBVIOUS
    <3>4. battery'[l] = Upsert(health, today, measured)
        BY <1>1, <3>3 DEF UpsertBattery
    <3>5. /\ Upsert(telemetry'[l], today, good) = telemetry'[l]
          /\ Upsert(battery'[l], today, measured) = battery'[l]
        BY <3>2, <3>4, UpsertTwice
    <3> QED BY <3>1, <3>3, <3>5 DEF UpsertTelemetry, UpsertBattery
  <2>9. snapshots'[l] = {derive(telemetry'[l], battery'[l], today)}
      BY <1>1, <2>1
  <2>10. /\ loans'[l].days_past_due = schedule[l].days_past_due
         /\ loans'[l].installments_overdue = schedule[l].installments_overdue
         /\ loans'[l].overdue_amount = schedule[l].overdue_amount
      BY <2>2 DEF SameArrears
  <2> QED BY <1>3, <2>6, <2>7, <2>8, <2>9, <2>10 DEF SettledFor
<1>15. Settled'
  <2>1. fresh'.night = today /\ fresh'.answer = answer
      OBVIOUS
  <2> QED BY <1>3, <1>7, <1>14, <2>1 DEF Settled
<1> QED BY <1>15

\* The commit of a pass, up to date or not: one that is not leaves nothing fresh.
LEMMA CommitNightlyKeeps ==
    ASSUME Strong, NEW w \in Worker, CommitNightly(w)
    PROVE  IInv' /\ ClosedKept
<1>1. /\ serving[w].op = "reviewed" /\ StoreEvaluation(w)
      /\ UNCHANGED <<schedule, rules>>
      /\ w \in outdated => fresh' = Nothing
    BY DEF CommitNightly
<1>2. IInv
    BY DEF Strong
<1>3. Typed' /\ Indexed(alerts)' /\ Copied' /\ ClosedKept
    BY <1>1, <1>2, CommitNightlyTables, StoreEvaluationKeeps
<1>4. Settled'
  <2>1. CASE w \in outdated
      BY <1>1, <2>1 DEF Settled
  <2>2. CASE w \notin outdated
    <3>1. PICK placed : Pass(serving[w].answer, placed, serving[w].snaps)
        BY <2>2, NightlyFacts
    <3>2. PICK answer, snaps : answer = serving[w].answer /\ snaps = serving[w].snaps
        OBVIOUS
    <3>3. /\ Pass(answer, placed, snaps)
          /\ UNCHANGED <<today, schedule, rules>>
          /\ job_runs' = job_runs \cup (Job \X {today})
          /\ fresh' = [night |-> today, answer |-> answer]
        BY <2>2, <3>1, <3>2, NightlyFacts
    <3> QED BY <1>2, <3>3, PassSettles
  <2> QED BY <2>1, <2>2
<1> QED BY <1>3, <1>4 DEF IInv

\* The first three jobs compute the positions from the rows and the schedules as they are.
LEMMA BeginNightlyKeeps ==
    ASSUME IInv, NEW w \in Worker, NEW answer \in [Loan -> Answers], BeginNightly(w, answer)
    PROVE  /\ IInv'
           /\ \E r : serving' = [serving EXCEPT ![w] = r] /\ r.op = "placed" /\ Current(r)
<1>1. PICK snaps : snaps = [l \in Loan |->
          IF l \in Book THEN {derive(UpsertTelemetry(telemetry[l], today, answer[l]),
                                     UpsertBattery(battery[l], today, answer[l]), today)}
          ELSE snapshots[l]]
    OBVIOUS
<1>2. PICK placed : placed = [l \in Loan |-> IF l \in Book THEN Positioned(loans[l], schedule[l])
                                             ELSE loans[l]]
    OBVIOUS
<1>3. PICK r : r = [op |-> "placed", day |-> today, answer |-> answer, targets |-> Book,
                    snaps |-> snaps, old_loans |-> loans, new_loans |-> placed]
    OBVIOUS
<1>4. /\ serving' = [serving EXCEPT ![w] = r]
      /\ UNCHANGED <<today, schedule, telemetry, battery, snapshots, loans, rules, alerts,
                     job_runs, overlapped, outdated, fresh>>
    BY <1>1, <1>2, <1>3 DEF BeginNightly
<1>5. Typed /\ Copied /\ Book \subseteq Loan
    BY DEF IInv, Book
<1>6. ASSUME NEW l \in Loan
      PROVE  /\ placed[l] \in LoanRow /\ placed[l].status = loans[l].status
             /\ l \in Book => SameArrears(placed[l], schedule[l])
             /\ l \notin Book => placed[l] = loans[l]
  <2>1. loans[l] \in LoanRow /\ schedule[l] \in Arrears
      BY <1>5 DEF Typed
  <2> QED BY <1>2, <2>1, PositionFacts
<1>7. placed \in [Loan -> LoanRow] /\ loans \in [Loan -> LoanRow]
    BY <1>2, <1>5, <1>6 DEF Typed
<1>8. Request(r)
  <2>1. snaps = [l \in Loan |-> snaps[l]]
      BY <1>1
  <2> QED BY <1>3, <1>7, <2>1 DEF Request
<1>9. r.op = "placed"
    BY <1>3
<1>10. Typed' /\ Copied'
    BY <1>4, <1>5, <1>8, <1>9, TypedBegins, CopiedBegins
<1>11. Settled' /\ Indexed(alerts)'
    BY <1>4, SettledStays DEF IInv, Indexed
<1>12. ReadNow(r)
    BY <1>1, <1>3, <1>5 DEF ReadNow
<1>13. PlacedNow(r)
    BY <1>3, <1>5, <1>6 DEF PlacedNow, SamePosition, SameArrears
<1> QED BY <1>4, <1>9, <1>10, <1>11, <1>12, <1>13 DEF IInv, Current

\* Writing such positions over rows of which only the lights have changed, and classifying the
\* active loans, places them as the schedules show.
LEMMA PositionsWritten ==
    ASSUME IInv, NEW r, Request(r), r.op = "placed", PlacedNow(r),
           NEW written, written = WrittenLoans(r),
           NEW book, book = {l \in Loan : written[l].status = "ACTIVE"}
    PROVE  /\ book = Book
           /\ PlacedAs([l \in Loan |-> IF l \in book THEN Classified(written[l]) ELSE written[l]])
<1>1. /\ loans \in [Loan -> LoanRow] /\ r.old_loans \in [Loan -> LoanRow]
      /\ r.new_loans \in [Loan -> LoanRow] /\ schedule \in [Loan -> Arrears]
    BY DEF IInv, Typed, Request
<1>2. ASSUME NEW l \in Loan
      PROVE  /\ written[l] \in LoanRow /\ written[l].status = loans[l].status
             /\ l \in Book => SameArrears(written[l], schedule[l])
             /\ l \notin Book => written[l] = loans[l]
  <2>1. PICK row, old, new : row = loans[l] /\ old = r.old_loans[l] /\ new = r.new_loans[l]
      OBVIOUS
  <2>2. row \in LoanRow /\ old \in LoanRow /\ new \in LoanRow
      BY <1>1, <2>1
  <2>3. written[l] = Write(row, old, new)
      BY <2>1 DEF WrittenLoans
  <2>4. written[l] \in LoanRow
      BY <2>2, <2>3, LoanWritten
  <2>5. SamePosition(old, row) /\ new.status = old.status
      BY <2>1 DEF PlacedNow
  <2>6. written[l].status = row.status /\ SameArrears(written[l], new)
      BY <2>2, <2>3, <2>5 DEF Write, LoanRow, SamePosition, SameArrears
  <2>7. l \in Book => SameArrears(new, schedule[l])
      BY <2>1 DEF PlacedNow
  <2>8. ASSUME l \notin Book PROVE written[l] = loans[l]
    <3>1. new = old
        BY <2>1, <2>8 DEF PlacedNow
    <3> QED BY <2>1, <2>2, <2>3, <3>1 DEF Write, LoanRow
  <2> QED BY <2>1, <2>4, <2>6, <2>7, <2>8 DEF SameArrears
<1>3. book = Book
    BY <1>2 DEF Book, Active
<1>4. ASSUME NEW l \in Loan
      PROVE  /\ Classified(written[l]) \in LoanRow
             /\ Classified(written[l]).status = written[l].status
             /\ SameArrears(Classified(written[l]), written[l])
  <2>1. PICK row : row = written[l]
      OBVIOUS
  <2>2. row \in LoanRow
      BY <1>2, <2>1
  <2>3. TrafficLight(row.days_past_due) \in {"GREEN", "YELLOW", "RED"}
      BY <2>2 DEF TrafficLight, LoanRow
  <2> QED BY <2>1, <2>2, <2>3 DEF Classified, LoanRow, SameArrears
<1>5. PICK rows : rows = [l \in Loan |-> IF l \in book THEN Classified(written[l]) ELSE written[l]]
    OBVIOUS
<1>6. ASSUME NEW l \in Loan
      PROVE  /\ rows[l] \in LoanRow /\ rows[l].status = loans[l].status
             /\ l \in Book => SameArrears(rows[l], schedule[l])
             /\ l \notin Book => rows[l] = loans[l]
    BY <1>2, <1>3, <1>4, <1>5 DEF SameArrears
<1>7. rows = [l \in Loan |-> rows[l]] /\ Book \subseteq Loan
    BY <1>5 DEF Book
<1> QED BY <1>3, <1>5, <1>6, <1>7 DEF PlacedAs

\* The last two jobs evaluate the loans that are active, as their rows are by then.
LEMMA EvaluateNightlyKeeps ==
    ASSUME IInv, NEW w \in Worker, EvaluateNightly(w)
    PROVE  /\ IInv'
           /\ \E r : /\ serving' = [serving EXCEPT ![w] = r] /\ r.op = "reviewed"
                     /\ r.day = serving[w].day /\ r.snaps = serving[w].snaps
                     /\ Current(serving[w]) => Current(r)
<1>1. PICK r : r = serving[w]
    OBVIOUS
<1>2. PICK written : written = WrittenLoans(r)
    OBVIOUS
<1>3. PICK book : book = {l \in Loan : written[l].status = "ACTIVE"}
    OBVIOUS
<1>4. PICK rows : rows = [l \in Loan |-> IF l \in book THEN Classified(written[l]) ELSE written[l]]
    OBVIOUS
<1>5. PICK new : new = Evaluated(alerts, active_rules, book, rows, r.snaps)
    OBVIOUS
<1>6. PICK new_loans : new_loans = Lit(active_rules, book, rows, r.snaps)
    OBVIOUS
<1>7. PICK x : x = [op |-> "reviewed", day |-> r.day, answer |-> r.answer, targets |-> r.targets,
                    snaps |-> r.snaps, locked |-> {l \in Loan : rows[l] # loans[l]},
                    copy |-> alerts, new |-> new, old_loans |-> loans, new_loans |-> new_loans]
    OBVIOUS
<1>8. /\ r.op = "placed" /\ serving' = [serving EXCEPT ![w] = x]
      /\ UNCHANGED <<today, schedule, telemetry, battery, snapshots, loans, rules, alerts,
                     job_runs, overlapped, outdated, fresh>>
    BY <1>1, <1>2, <1>3, <1>4, <1>5, <1>6, <1>7 DEF EvaluateNightly
<1>9. Typed /\ Copied /\ Request(r) /\ book \in SUBSET Loan
    BY <1>1, <1>3 DEF IInv, Typed
<1>10. rows \in [Loan -> LoanRow]
  <2>1. /\ loans \in [Loan -> LoanRow] /\ r.old_loans \in [Loan -> LoanRow]
        /\ r.new_loans \in [Loan -> LoanRow]
      BY <1>8, <1>9 DEF Typed, Request
  <2>2. ASSUME NEW l \in Loan
        PROVE  written[l] \in LoanRow
      BY <1>2, <2>1, LoanWritten DEF WrittenLoans
  <2>3. ASSUME NEW row \in LoanRow
        PROVE  Classified(row) \in LoanRow
    <3>1. TrafficLight(row.days_past_due) \in {"GREEN", "YELLOW", "RED"}
        BY DEF TrafficLight, LoanRow
    <3> QED BY <3>1 DEF Classified, LoanRow
  <2> QED BY <1>4, <2>2, <2>3
<1>11. KeepsClosed(alerts, new)
    BY <1>5, <1>9, EvaluationBegins
<1>12. new_loans \in [Loan -> LoanRow]
    BY <1>6, <1>9, <1>10, LitFacts DEF LightsTo
<1>13. Request(x)
    BY <1>7, <1>8, <1>9, <1>11, <1>12 DEF Request, Typed, KeepsClosed
<1>14. /\ x.op = "reviewed" /\ x.copy = alerts /\ x.new = new /\ x.day = r.day
       /\ x.snaps = r.snaps /\ x.answer = r.answer /\ x.targets = r.targets
       /\ x.old_loans = loans /\ x.new_loans = new_loans
    BY <1>7
<1>15. EvaluationHeld(x)
  <2>1. Len(alerts) \in Nat
      BY <1>9 DEF Typed
  <2> QED BY <1>11, <1>14, <2>1 DEF EvaluationHeld, KeepsClosed
<1>16. Typed' /\ Copied'
    BY <1>8, <1>9, <1>13, <1>14, <1>15, TypedBegins, CopiedBegins
<1>17. Settled' /\ Indexed(alerts)'
    BY <1>8, SettledStays DEF IInv, Indexed
<1>18. ASSUME Current(r)
       PROVE  Current(x)
  <2>1. ReadNow(r) /\ PlacedNow(r)
      BY <1>8, <1>18 DEF Current
  <2>2. book = Book /\ PlacedAs(rows)
      BY <1>2, <1>3, <1>4, <1>8, <1>9, <2>1, PositionsWritten
  <2>3. ReadNow(x)
      BY <1>14, <2>1 DEF ReadNow
  <2>4. ReviewedNow(x)
      BY <1>5, <1>6, <1>14, <2>2 DEF ReviewedNow
  <2> QED BY <1>14, <2>3, <2>4 DEF Current
<1> QED BY <1>1, <1>8, <1>14, <1>16, <1>17, <1>18 DEF IInv

-------------------------------------------------------------------------------
(* Passes that are up to date stay so, or are outdated.                    *)

\* Nothing that a pass has read changes.
LEMMA CurrentStays ==
    ASSUME NEW r, Current(r),
           UNCHANGED <<today, schedule, telemetry, battery, snapshots, loans, rules, alerts>>
    PROVE  Current(r)'
<1>1. Book' = Book /\ active_rules' = active_rules
    BY DEF Book, Active, active_rules
<1>2. (\A rows : PlacedAs(rows) => PlacedAs(rows)') /\ (ReadNow(r) => ReadNow(r)')
    BY <1>1 DEF PlacedAs, ReadNow
<1>3. PlacedNow(r) => PlacedNow(r)'
    BY <1>1 DEF PlacedNow
<1>4. ReviewedNow(r) => ReviewedNow(r)'
    BY <1>1, <1>2 DEF ReviewedNow
<1> QED BY <1>2, <1>3, <1>4 DEF Current

\* Of what the first three jobs have read only lights change.
LEMMA PlacedStays ==
    ASSUME NEW r, Current(r), r.op # "reviewed",
           UNCHANGED <<today, schedule, telemetry, battery, snapshots>>,
           \A l \in Loan : SamePosition(loans'[l], loans[l])
    PROVE  Current(r)'
<1>1. Book' = Book
    BY DEF Book, Active, SamePosition
<1>2. ReadNow(r) => ReadNow(r)'
    BY <1>1 DEF ReadNow
<1>3. PlacedNow(r) => PlacedNow(r)'
    BY <1>1 DEF PlacedNow, SamePosition, SameArrears
<1> QED BY <1>2, <1>3 DEF Current

\* A commit that outdates the passes that have read the alerts leaves the others up to date, as
\* long as it changes of the loans nothing but lights.
LEMMA UpToDateCommit ==
    ASSUME IInv, UpToDate, Outdate({"reviewed"}, {}),
           \A v \in Worker : serving'[v] = serving[v] \/ serving'[v] = Idle,
           UNCHANGED <<today, schedule, telemetry, battery, snapshots>>,
           \A l \in Loan : SamePosition(loans'[l], loans[l])
    PROVE  UpToDate'
<1> SUFFICES ASSUME NEW v \in Worker, v \notin outdated'
             PROVE  Current(serving[v])'
    BY DEF UpToDate
<1>1. PICK r : r = serving'[v]
    OBVIOUS
<1>2. v \notin outdated /\ serving[v].op # "reviewed"
    BY DEF Outdate, Passes
<1>3. Current(r) /\ r.op # "reviewed"
    BY <1>1, <1>2 DEF UpToDate, Current, Idle
<1>4. Current(r)'
    BY <1>3, PlacedStays
<1> QED BY <1>1, <1>4 DEF Current, ReadNow, PlacedNow, ReviewedNow, PlacedAs

\* One that outdates every other pass leaves none.
LEMMA UpToDateNone ==
    ASSUME NEW over, Outdate({"placed", "reviewed"}, over),
           \A v \in Worker : IF v \in over THEN serving'[v] = Idle ELSE serving'[v] = serving[v]
    PROVE  UpToDate'
<1> SUFFICES ASSUME NEW v \in Worker, v \notin outdated'
             PROVE  Current(serving[v])'
    BY DEF UpToDate
<1>1. v \in over \/ serving[v].op \notin {"placed", "reviewed"}
    BY DEF Outdate, Passes
<1>2. serving'[v].op \notin {"placed", "reviewed"}
    BY <1>1 DEF Idle
<1> QED BY <1>2 DEF Current

\* A request that begins, goes on or is over without a commit leaves the passes as they are.
LEMMA UpToDateQuiet ==
    ASSUME IInv, UpToDate, NEW w \in Worker, NEW r, serving' = [serving EXCEPT ![w] = r],
           w \notin outdated' => Current(r), outdated \subseteq outdated' \cup {w},
           UNCHANGED <<today, schedule, telemetry, battery, snapshots, loans, rules, alerts>>
    PROVE  UpToDate'
<1> SUFFICES ASSUME NEW v \in Worker, v \notin outdated'
             PROVE  Current(serving[v])'
    BY DEF UpToDate
<1>1. PICK x : x = serving'[v]
    OBVIOUS
<1>2. serving'[v] = IF v = w THEN r ELSE serving[v]
    BY DEF IInv, Typed
<1>3. Current(x)
    BY <1>1, <1>2 DEF UpToDate
<1>4. Current(x)'
    BY <1>3, CurrentStays
<1> QED BY <1>1, <1>4 DEF Current, ReadNow, PlacedNow, ReviewedNow, PlacedAs

-------------------------------------------------------------------------------
(* The invariant holds.                                                    *)

\* At the start there is no alert and no request, and no pass has run.
LEMMA InvariantInit == Init => IInv
<1> SUFFICES ASSUME Init PROVE IInv
    OBVIOUS
<1>1. /\ alerts = << >> /\ serving = [w \in Worker |-> Idle] /\ fresh = Nothing
      /\ schedule \in [Loan -> Arrears] /\ telemetry \in [Loan -> Histories]
      /\ battery = [l \in Loan |-> << >>] /\ snapshots = [l \in Loan |-> None]
    BY DEF Init
<1>2. loans \in [Loan -> LoanRow] /\ rules \in [Seeded -> RuleRow]
    BY DEF Init, LoanRow, RuleRow
<1>3. Typed
    BY <1>1, <1>2 DEF Typed, Tables, Request, Idle
<1>4. Indexed(alerts) /\ Copied /\ Settled
    BY <1>1 DEF Indexed, Copied, Settled, Idle
<1> QED BY <1>3, <1>4 DEF IInv

\* Every step keeps the invariant, and the closed alerts of which no request has a copy.
LEMMA InvariantStep == Strong /\ [Next]_vars => IInv' /\ (ClosedKept \/ UNCHANGED vars)
<1> SUFFICES ASSUME Strong, IInv, [Next]_vars PROVE IInv' /\ (ClosedKept \/ UNCHANGED vars)
    BY DEF Strong
<1>1. alerts' = alerts => ClosedKept
    BY DEF ClosedKept
<1>2. ASSUME NEW w \in Worker, BeginEvaluation(w) PROVE IInv' /\ ClosedKept
    BY <1>1, <1>2, BeginEvaluationKeeps DEF BeginEvaluation
<1>3. ASSUME NEW w \in Worker, CommitEvaluation(w) PROVE IInv' /\ ClosedKept
    BY <1>3, CommitEvaluationKeeps
<1>4. ASSUME NEW w \in Worker, Work(w) PROVE IInv' /\ ClosedKept
  <2>1. alerts' = alerts
      BY <1>4 DEF Work, Acknowledge, StartWork, Resolve, Assign, Escalate, BeginWork
  <2> QED BY <1>1, <1>4, <2>1, WorkKeeps
<1>5. ASSUME NEW w \in Worker, CommitWork(w) PROVE IInv' /\ ClosedKept
    BY <1>5, CommitWorkKeeps
<1>6. ASSUME NEW w \in Worker, Abort(w) PROVE IInv' /\ ClosedKept
    BY <1>1, <1>6, AbortKeeps DEF Abort
<1>7. ASSUME NEW w \in Worker, NEW answer \in [Loan -> Answers], BeginNightly(w, answer)
      PROVE  IInv' /\ ClosedKept
    BY <1>1, <1>7, BeginNightlyKeeps DEF BeginNightly
<1>8. ASSUME NEW w \in Worker, EvaluateNightly(w) PROVE IInv' /\ ClosedKept
    BY <1>1, <1>8, EvaluateNightlyKeeps DEF EvaluateNightly
<1>9. ASSUME NEW w \in Worker, CommitNightly(w) PROVE IInv' /\ ClosedKept
    BY <1>9, CommitNightlyKeeps
<1>10. ASSUME NEW l \in Loan, Pay(l) PROVE IInv' /\ ClosedKept
    BY <1>1, <1>10, PayKeeps DEF Pay
<1>11. CASE Tick
    BY <1>1, <1>11, TickKeeps DEF Tick
<1>12. CASE Administer
    BY <1>1, <1>12, AdministerKeeps DEF Administer
<1>13. CASE UNCHANGED vars
  <2>1. UNCHANGED <<today, schedule, telemetry, battery, snapshots, loans, rules, alerts,
                    job_runs, serving, overlapped, fresh>>
      BY <1>13 DEF vars
  <2>2. Copied' /\ Typed' /\ Indexed(alerts)'
      BY <2>1 DEF IInv, Copied, EvaluationHeld, WorkHeld, Typed, Tables, Request, Indexed
  <2>3. Settled'
      BY <2>1, SettledStays DEF IInv
  <2> QED BY <1>13, <2>2, <2>3 DEF IInv
<1> QED BY <1>2, <1>3, <1>4, <1>5, <1>6, <1>7, <1>8, <1>9, <1>10, <1>11, <1>12, <1>13
       DEF Next

\* Every step leaves the passes under way up to date, or outdates them.
LEMMA UpToDateStep == Strong /\ [Next]_vars => UpToDate'
<1> SUFFICES ASSUME IInv, UpToDate, [Next]_vars PROVE UpToDate'
    BY DEF Strong
<1>1. \A r : \A w \in Worker : serving' = [serving EXCEPT ![w] = r] =>
          \A v \in Worker : serving'[v] = IF v = w THEN r ELSE serving[v]
    BY DEF IInv, Typed
<1>2. \A l \in Loan : loans'[l] = loans[l] => SamePosition(loans'[l], loans[l])
    BY DEF SamePosition, SameArrears
<1>3. ASSUME NEW w \in Worker, BeginEvaluation(w) PROVE UpToDate'
  <2>1. PICK r : serving' = [serving EXCEPT ![w] = r] /\ r.op = "evaluate"
    <3>1. PICK targets \in {Book} \cup {{l} : l \in Loan} :
              serving' = [serving EXCEPT ![w] =
                 [op |-> "evaluate", copy |-> alerts,
                  new |-> Evaluated(alerts, active_rules, targets, loans, snapshots),
                  old_loans |-> loans,
                  new_loans |-> Lit(active_rules, targets, loans, snapshots)]]
        BY <1>3 DEF BeginEvaluation
    <3>2. PICK r : r = [op |-> "evaluate", copy |-> alerts,
                        new |-> Evaluated(alerts, active_rules, targets, loans, snapshots),
                        old_loans |-> loans,
                        new_loans |-> Lit(active_rules, targets, loans, snapshots)]
        OBVIOUS
    <3>3. serving' = [serving EXCEPT ![w] = r] /\ r.op = "evaluate"
        BY <3>1, <3>2
    <3> QED BY <3>3
  <2> QED BY <1>3, <2>1, UpToDateQuiet DEF BeginEvaluation, Current
<1>4. ASSUME NEW w \in Worker, CommitEvaluation(w) PROVE UpToDate'
  <2>1. PICK r : r = serving[w]
      OBVIOUS
  <2>2. /\ r.op = "evaluate" /\ Request(r) /\ loans \in [Loan -> LoanRow]
        /\ loans' = [l \in Loan |-> Write(loans[l], r.old_loans[l], r.new_loans[l])]
        /\ serving' = [serving EXCEPT ![w] = Idle]
        /\ Outdate({"reviewed"}, {})
        /\ UNCHANGED <<today, schedule, telemetry, battery, snapshots>>
      BY <1>4, <2>1
         DEF CommitEvaluation, StoreEvaluation, StoreLoans, WrittenLoans, IInv, Typed
  <2>3. ASSUME NEW l \in Loan
        PROVE  SamePosition(loans'[l], loans[l])
    <3>1. SamePosition(r.new_loans[l], r.old_loans[l]) /\ loans[l] \in LoanRow
        BY <2>2 DEF Request
    <3>2. loans'[l] = Write(loans[l], r.old_loans[l], r.new_loans[l])
        BY <2>2
    <3> QED BY <3>1, <3>2 DEF Write, SamePosition, SameArrears, LoanRow
  <2> QED BY <1>1, <2>2, <2>3, UpToDateCommit
<1>5. ASSUME NEW w \in Worker, Work(w) PROVE UpToDate'
  <2>1. PICK n, row : BeginWork(w, n, row)
      BY <1>5 DEF Work, Acknowledge, StartWork, Resolve, Assign, Escalate
  <2>2. PICK r : serving' = [serving EXCEPT ![w] = r] /\ r.op = "work"
    <3>1. PICK r : r = [op |-> "work", alert |-> n, copy |-> alerts[n], new |-> row]
        OBVIOUS
    <3>2. serving' = [serving EXCEPT ![w] = r] /\ r.op = "work"
        BY <2>1, <3>1 DEF BeginWork
    <3> QED BY <3>2
  <2> QED BY <2>1, <2>2, UpToDateQuiet DEF BeginWork, Current
<1>6. ASSUME NEW w \in Worker, CommitWork(w) PROVE UpToDate'
  <2>1. /\ serving' = [serving EXCEPT ![w] = Idle] /\ Outdate({"reviewed"}, {})
        /\ UNCHANGED <<today, schedule, telemetry, battery, snapshots, loans>>
      BY <1>6 DEF CommitWork
  <2> QED BY <1>1, <1>2, <2>1, UpToDateCommit
<1>7. ASSUME NEW w \in Worker, Abort(w) PROVE UpToDate'
  <2>1. /\ serving' = [serving EXCEPT ![w] = Idle] /\ outdated' = outdated \ {w}
        /\ UNCHANGED <<today, schedule, telemetry, battery, snapshots, loans, rules, alerts>>
      BY <1>7 DEF Abort, Outdate, Passes
  <2>2. Current(Idle)
      BY DEF Current, Idle
  <2> QED BY <2>1, <2>2, UpToDateQuiet
<1>8. ASSUME NEW w \in Worker, NEW answer \in [Loan -> Answers], BeginNightly(w, answer)
      PROVE  UpToDate'
  <2>1. PICK r : serving' = [serving EXCEPT ![w] = r] /\ Current(r)
      BY <1>8, BeginNightlyKeeps
  <2> QED BY <1>8, <2>1, UpToDateQuiet DEF BeginNightly
<1>9. ASSUME NEW w \in Worker, EvaluateNightly(w) PROVE UpToDate'
  <2>1. PICK r : serving' = [serving EXCEPT ![w] = r] /\ (Current(serving[w]) => Current(r))
      BY <1>9, EvaluateNightlyKeeps
  <2>2. outdated' = outdated
      BY <1>9 DEF EvaluateNightly
  <2>3. w \notin outdated' => Current(r)
      BY <2>1, <2>2 DEF UpToDate
  <2> QED BY <1>9, <2>1, <2>2, <2>3, UpToDateQuiet DEF EvaluateNightly
<1>10. ASSUME NEW w \in Worker, CommitNightly(w) PROVE UpToDate'
  <2>1. serving' = [serving EXCEPT ![w] = Idle] /\ Outdate({"placed", "reviewed"}, {w})
      BY <1>10 DEF CommitNightly, StoreEvaluation
  <2>2. \A v \in Worker :
            IF v \in {w} THEN serving'[v] = Idle ELSE serving'[v] = serving[v]
    <3>1. serving = [v \in Worker |-> serving[v]]
        BY DEF IInv, Typed
    <3> QED BY <2>1, <3>1
  <2> QED BY <2>1, <2>2, UpToDateNone
<1>11. ASSUME (\E l \in Loan : Pay(l)) \/ Tick PROVE UpToDate'
  <2>1. serving' = serving /\ Outdate({"placed", "reviewed"}, {})
      BY <1>11 DEF Pay, Tick
  <2> QED BY <2>1, UpToDateNone
<1>12. CASE Administer
  <2>1. /\ serving' = serving /\ Outdate({"reviewed"}, {})
        /\ UNCHANGED <<today, schedule, telemetry, battery, snapshots, loans>>
      BY <1>12 DEF Administer
  <2> QED BY <1>2, <2>1, UpToDateCommit
<1>13. CASE UNCHANGED vars
  <2>1. /\ serving' = serving /\ outdated' = outdated
        /\ UNCHANGED <<today, schedule, telemetry, battery, snapshots, loans, rules, alerts>>
      BY <1>13 DEF vars
  <2>2. SUFFICES ASSUME NEW v \in Worker, v \notin outdated'
                 PROVE  Current(serving[v])'
      BY DEF UpToDate
  <2>3. PICK x : x = serving'[v]
      OBVIOUS
  <2>4. Current(x)'
      BY <2>1, <2>2, <2>3, CurrentStays DEF UpToDate
  <2> QED BY <2>3, <2>4 DEF Current, ReadNow, PlacedNow, ReviewedNow, PlacedAs
<1> QED BY <1>3, <1>4, <1>5, <1>6, <1>7, <1>8, <1>9, <1>10, <1>11, <1>12, <1>13 DEF Next

\* Of finitely many days finitely many moved.
LEMMA ActiveDays ==
    ASSUME NEW rows, DOMAIN rows \subseteq Int, NEW health, NEW asOf \in Int
    PROVE  derive(rows, health, asOf).active_days_30d \in Nat
<1>1. PICK moved : moved = {d \in Window(rows, asOf, 0, LONG_WINDOW_DAYS) : Moved(rows, d)}
    OBVIOUS
<1>2. moved \subseteq (asOf - 90)..asOf
    BY <1>1 DEF Window, Series, BASELINE_END_DAYS
<1>3. IsFiniteSet((asOf - 90)..asOf)
    BY FS_Interval
<1>4. Cardinality(moved) \in Nat
    BY <1>2, <1>3, FS_Subset, FS_CardinalityType
<1> QED BY <1>1, <1>4 DEF derive

\* A day derived from is one that has come, whatever the answer.
LEMMA DerivedIsPast ==
    ASSUME today \in Int, NEW rows, DOMAIN rows \subseteq Int, NEW health, NEW new
    PROVE  Past(derive(UpsertTelemetry(rows, today, new), health, today))
<1>1. PICK table : table = UpsertTelemetry(rows, today, new)
    OBVIOUS
<1>2. DOMAIN table \subseteq Int
    BY <1>1 DEF UpsertTelemetry, Upsert
<1>3. derive(table, health, today).active_days_30d \in Nat
    BY <1>2, ActiveDays
<1>4. derive(table, health, today).snapshot_date = today
    BY DEF derive
<1> QED BY <1>1, <1>3, <1>4 DEF Past

\* Dates and counts of days stay so: only a pass stores a day, and derives from whole ones.
LEMMA DatedStep == Strong /\ [Next]_vars => Dated'
<1> SUFFICES ASSUME IInv, Dated, [Next]_vars PROVE Dated'
    BY DEF Strong
<1> DEFINE Whole(r) == r.op \in {"placed", "reviewed"} =>
               /\ r.day \in Int
               /\ \A l \in Loan : \A s \in r.snaps[l] : Past(s)
<1>1. \A r : \A w \in Worker : serving' = [serving EXCEPT ![w] = r] =>
          \A v \in Worker : serving'[v] = IF v = w THEN r ELSE serving[v]
    BY DEF IInv, Typed
<1>2. \A w \in Worker : Whole(serving[w])
    BY DEF Dated
<1>3. ASSUME NEW w \in Worker, NEW r, Whole(r), serving' = [serving EXCEPT ![w] = r],
             UNCHANGED <<today, telemetry, snapshots>>
      PROVE  Dated'
  <2>1. \A v \in Worker : Whole(serving'[v])
      BY <1>1, <1>2, <1>3
  <2> QED BY <1>3, <2>1 DEF Dated, Past
<1>4. ASSUME NEW w \in Worker,
             \/ BeginEvaluation(w) \/ Work(w) \/ CommitWork(w) \/ Abort(w) \/ CommitEvaluation(w)
      PROVE  Dated'
  <2>1. \E r : /\ serving' = [serving EXCEPT ![w] = r] /\ r.op \notin {"placed", "reviewed"}
               /\ UNCHANGED <<today, telemetry, snapshots>>
    <3>1. CASE BeginEvaluation(w)
      <4>1. PICK targets \in {Book} \cup {{l} : l \in Loan} :
                serving' = [serving EXCEPT ![w] =
                   [op |-> "evaluate", copy |-> alerts,
                    new |-> Evaluated(alerts, active_rules, targets, loans, snapshots),
                    old_loans |-> loans,
                    new_loans |-> Lit(active_rules, targets, loans, snapshots)]]
          BY <3>1 DEF BeginEvaluation
      <4>2. PICK r : r = [op |-> "evaluate", copy |-> alerts,
                          new |-> Evaluated(alerts, active_rules, targets, loans, snapshots),
                          old_loans |-> loans,
                          new_loans |-> Lit(active_rules, targets, loans, snapshots)]
          OBVIOUS
      <4>3. /\ serving' = [serving EXCEPT ![w] = r] /\ r.op = "evaluate"
            /\ UNCHANGED <<today, telemetry, snapshots>>
          BY <3>1, <4>1, <4>2 DEF BeginEvaluation
      <4> QED BY <4>3
    <3>2. CASE Work(w)
      <4>1. PICK n, row : BeginWork(w, n, row)
          BY <3>2 DEF Work, Acknowledge, StartWork, Resolve, Assign, Escalate
      <4>2. PICK r : r = [op |-> "work", alert |-> n, copy |-> alerts[n], new |-> row]
          OBVIOUS
      <4>3. /\ serving' = [serving EXCEPT ![w] = r] /\ r.op = "work"
            /\ UNCHANGED <<today, telemetry, snapshots>>
          BY <4>1, <4>2 DEF BeginWork
      <4> QED BY <4>3
    <3>3. CASE CommitWork(w) \/ Abort(w)
        BY <3>3 DEF CommitWork, Abort, Idle
    <3>4. CASE CommitEvaluation(w)
        BY <3>4 DEF CommitEvaluation, StoreEvaluation, Idle
    <3> QED BY <1>4, <3>1, <3>2, <3>3, <3>4
  <2> QED BY <1>3, <2>1
<1>5. ASSUME NEW w \in Worker, NEW answer \in [Loan -> Answers], BeginNightly(w, answer)
      PROVE  Dated'
  <2>1. PICK r : /\ serving' = [serving EXCEPT ![w] = r] /\ r.op = "placed" /\ Current(r)
      BY <1>5, BeginNightlyKeeps
  <2>2. ReadNow(r) /\ today \in Int
      BY <2>1 DEF Current, Dated
  <2>3. ASSUME NEW l \in Loan, NEW s \in r.snaps[l]
        PROVE  Past(s)
    <3>1. CASE l \in Book
      <4>1. s = derive(UpsertTelemetry(telemetry[l], today, r.answer[l]),
                       UpsertBattery(battery[l], today, r.answer[l]), today)
          BY <2>2, <2>3, <3>1 DEF ReadNow
      <4>2. DOMAIN telemetry[l] \subseteq Int
          BY DEF Dated
      <4> QED BY <2>2, <4>1, <4>2, DerivedIsPast
    <3>2. CASE l \notin Book
        BY <2>2, <2>3, <3>2 DEF ReadNow, Dated
    <3> QED BY <3>1, <3>2
  <2>4. Whole(r)
      BY <2>2, <2>3 DEF ReadNow
  <2> QED BY <1>3, <1>5, <2>1, <2>4 DEF BeginNightly
<1>6. ASSUME NEW w \in Worker, EvaluateNightly(w)
      PROVE  Dated'
  <2>1. PICK r : /\ serving' = [serving EXCEPT ![w] = r]
                 /\ r.day = serving[w].day /\ r.snaps = serving[w].snaps
      BY <1>6, EvaluateNightlyKeeps
  <2>2. serving[w].op = "placed"
      BY <1>6 DEF EvaluateNightly
  <2>3. Whole(r)
      BY <1>2, <2>1, <2>2
  <2> QED BY <1>3, <1>6, <2>1, <2>3 DEF EvaluateNightly
<1>7. ASSUME NEW w \in Worker, CommitNightly(w)
      PROVE  Dated'
  <2>1. PICK r : r = serving[w]
      OBVIOUS
  <2>2. /\ r.op = "reviewed" /\ today' = today
        /\ serving' = [serving EXCEPT ![w] = Idle]
      BY <1>7, <2>1 DEF CommitNightly, StoreEvaluation
  <2>3. ASSUME NEW l \in Loan
        PROVE  /\ \/ telemetry'[l] = telemetry[l]
                  \/ telemetry'[l] = Upsert(telemetry[l], r.day, Plausible(r.answer[l]))
               /\ snapshots'[l] = snapshots[l] \/ snapshots'[l] = r.snaps[l]
      BY <1>7, <2>1 DEF CommitNightly, UpsertTelemetry
  <2>4. Whole(r)
      BY <1>2, <2>1
  <2>5. ASSUME NEW l \in Loan
        PROVE  /\ DOMAIN telemetry'[l] \subseteq Int
               /\ \A s \in snapshots'[l] : Past(s)
    <3>1. DOMAIN telemetry[l] \subseteq Int /\ \A s \in snapshots[l] : Past(s)
        BY DEF Dated
    <3>2. \A rows : DOMAIN rows \subseteq Int =>
              DOMAIN Upsert(rows, r.day, Plausible(r.answer[l])) \subseteq Int
        BY <2>2, <2>4 DEF Upsert
    <3> QED BY <2>2, <2>3, <2>4, <3>1, <3>2
  <2>6. \A v \in Worker : Whole(serving'[v])
      BY <1>1, <1>2, <2>2 DEF Idle
  <2> QED BY <2>2, <2>5, <2>6 DEF Dated, Past
<1>8. CASE Tick
  <2>1. UNCHANGED <<telemetry, snapshots, serving>> /\ today' = today + 1
      BY <1>8 DEF Tick
  <2>2. \A s : Past(s) => Past(s)'
      BY <2>1 DEF Past, Dated
  <2> QED BY <2>1, <2>2 DEF Dated
<1>9. ASSUME (\E l \in Loan : Pay(l)) \/ Administer \/ UNCHANGED vars
      PROVE  Dated'
  <2>1. UNCHANGED <<today, telemetry, snapshots, serving>>
      BY <1>9 DEF Pay, Administer, vars
  <2> QED BY <2>1 DEF Dated, Past
<1> QED BY <1>4, <1>5, <1>6, <1>7, <1>8, <1>9 DEF Next

\* Requests see the alerts as they are or are noted as overlapped, one live alert stands for a
\* loan and a rule, passes under way are up to date or outdated, and a fresh one is a fixed point
\* of its jobs.
THEOREM Strengthened == Spec => []Strong
<1>1. Init => UpToDate
    BY DEF Init, UpToDate, Current, Idle
<1>2. Init => Dated
    BY DayAssumption DEF Init, Dated, None, Idle
<1>3. Init => Strong
    BY <1>1, <1>2, InvariantInit DEF Strong
<1>4. Strong /\ [Next]_vars => Strong'
    BY InvariantStep, UpToDateStep, DatedStep DEF Strong
<1> QED BY <1>3, <1>4, PTL DEF Spec

\* Of which: what a pass leaves.
LEMMA Invariant == Spec => []IInv
    BY Strengthened, PTL DEF Strong

\* Of which: days are whole days, and none on file is to come.
LEMMA DatedHolds == Spec => []Dated
    BY Strengthened, PTL DEF Strong

-------------------------------------------------------------------------------
(* What it gives.                                                          *)

\* Nothing closed is worked, reassigned or reopened, but by a request that had read the alert
\* before it was closed: the evaluation passes over closed rows, and the workflow refuses them.
THEOREM ClosedStays == Spec => ClosedStaysClosed
<1>1. Strong /\ [Next]_vars =>
        [\A n \in DOMAIN alerts :
            (alerts[n].status \in CLOSED_ALERT_STATUSES /\ n \notin overlapped')
                => alerts'[n] = alerts[n]]_vars
    BY InvariantStep DEF ClosedKept
<1>2. Spec => []Strong
    BY Strengthened
<1> QED BY <1>1, <1>2, PTL DEF Spec, ClosedStaysClosed

\* After a pass the queue and the traffic light are what the rules in force make of the data.
THEOREM QueueHolds == Spec => []QueueMatchesRules
<1>1. ASSUME IInv, fresh # Nothing, NEW l \in Loan, Active(l)
      PROVE  LET metrics == Metrics(Positioned(loans[l], schedule[l]), snapshots[l])
                 A == actionable(active_rules, metrics)
             IN  /\ loans[l].risk_status = WorstOf(active_rules, A)
                 /\ \A r \in DOMAIN active_rules \cap Seeded :
                       active_rules[r].auto_resolve => (r \in A <=> LiveFor(alerts, l, r) # {})
  <2>1. l \in Book
      BY <1>1 DEF Book
  <2>2. SettledFor(l, fresh.answer[l])
      BY <1>1, <2>1 DEF IInv, Settled
  <2>3. loans[l] \in LoanRow /\ schedule[l] \in Arrears
      BY <1>1 DEF IInv, Typed
  <2>4. PICK row : row = Positioned(loans[l], schedule[l])
      OBVIOUS
  <2>5. SameArrears(loans[l], schedule[l]) /\ SameArrears(row, schedule[l])
      BY <2>2, <2>3, <2>4, PositionFacts DEF SettledFor, SameArrears
  <2>6. PICK metrics : metrics = Metrics(loans[l], snapshots[l])
      OBVIOUS
  <2>7. Metrics(row, snapshots[l]) = metrics
      BY <2>5, <2>6, MetricsOfArrears
  <2>8. PICK A, catalogue : A = actionable(active_rules, metrics) /\ catalogue = active_rules
      OBVIOUS
  <2>9. loans[l].risk_status = WorstOf(catalogue, A)
      BY <2>2, <2>6, <2>8 DEF SettledFor, loan_risk_status
  <2>10. PICK o : o = Outcomes(catalogue, metrics)
      OBVIOUS
  <2>11. /\ Raised(alerts, l, o) = {}
         /\ \A n \in DOMAIN alerts : alerts[n].loan_id = l => Reviewed(alerts[n], o) = alerts[n]
      BY <2>2, <2>6, <2>8, <2>10 DEF SettledFor, OutcomesNow
  <2>12. ASSUME NEW r \in DOMAIN catalogue \cap Seeded, catalogue[r].auto_resolve
         PROVE  r \in A <=> LiveFor(alerts, l, r) # {}
    <3>1. /\ r \in A <=> r \in o.actionable
          /\ r \notin A => r \in o.fired \ o.actionable \/ r \in o.cleared
        BY <2>8, <2>10, <2>12 DEF Outcomes
    <3>2. r \in A => LiveFor(alerts, l, r) # {}
        BY <2>11, <3>1 DEF Raised
    <3>3. ASSUME NEW n \in LiveFor(alerts, l, r)
          PROVE  r \in A
      <4>1. /\ n \in DOMAIN alerts /\ alerts[n].loan_id = l /\ alerts[n].rule = r
            /\ Live(alerts[n]) /\ alerts[n] \in RiskAlert
          BY <1>1 DEF LiveFor, IInv, Typed
      <4>2. Reviewed(alerts[n], o) = alerts[n]
          BY <2>11, <4>1
      <4>3. /\ ~Live(Close(alerts[n], "SUPERSEDED"))
            /\ ~Live(Close(alerts[n], "RESOLVED"))
          BY <4>1 DEF Close, Live, LIVE_STATUSES, RiskAlert
      <4> QED BY <3>1, <4>1, <4>2, <4>3 DEF Reviewed
    <3> QED BY <3>2, <3>3
  <2> QED BY <2>4, <2>7, <2>8, <2>9, <2>12
<1>2. IInv => QueueMatchesRules
    BY <1>1 DEF QueueMatchesRules
<1> QED BY <1>2, Invariant, PTL

\* A second pass of the same night, with the same answers and nothing done in between, changes
\* nothing: a table's row of the day is written over with itself, the loans are placed where they
\* are, and the alerts are those that the evaluation left.
LEMMA PassTwice ==
    ASSUME IInv, NEW answer, NEW placed, NEW snaps, Pass(answer, placed, snaps),
           fresh # Nothing, fresh.answer = answer, job_runs' = job_runs \cup (Job \X {today})
    PROVE  UNCHANGED <<telemetry, battery, snapshots, loans, alerts, job_runs>>
<1>1. fresh.answer = answer /\ job_runs' = job_runs \cup (Job \X {today})
    OBVIOUS
<1>2. Job \X {today} \subseteq job_runs /\ \A l \in Book : SettledFor(l, answer[l])
    BY <1>1 DEF IInv, Settled
<1>3. Typed /\ Book \in SUBSET Loan
    BY DEF IInv, Book
<1>4. Pass(answer, placed, snaps) /\ PlacedAs(placed)
    BY DEF Pass
<1>5. ASSUME NEW l \in Loan
      PROVE  /\ telemetry'[l] = telemetry[l] /\ battery'[l] = battery[l]
             /\ snaps[l] = snapshots[l]
  <2>1. CASE l \in Book
    <3>1. /\ telemetry'[l] = UpsertTelemetry(telemetry[l], today, answer[l])
          /\ battery'[l] = UpsertBattery(battery[l], today, answer[l])
          /\ snaps[l] = {derive(telemetry'[l], battery'[l], today)}
        BY <1>4, <2>1 DEF Pass
    <3>2. /\ UpsertTelemetry(telemetry[l], today, answer[l]) = telemetry[l]
          /\ UpsertBattery(battery[l], today, answer[l]) = battery[l]
          /\ snapshots[l] = {derive(telemetry[l], battery[l], today)}
        BY <1>2, <2>1 DEF SettledFor
    <3>3. telemetry'[l] = telemetry[l] /\ battery'[l] = battery[l]
        BY <3>1, <3>2
    <3> QED BY <3>1, <3>2, <3>3
  <2>2. CASE l \notin Book
      BY <1>4, <2>2 DEF Pass
  <2> QED BY <2>1, <2>2
<1>6. telemetry' = telemetry /\ battery' = battery /\ snapshots' = snapshots
  <2>1. /\ telemetry' = [l \in Loan |-> telemetry'[l]] /\ battery' = [l \in Loan |-> battery'[l]]
        /\ snapshots' = [l \in Loan |-> snaps[l]]
      BY <1>4 DEF Pass
  <2>2. /\ telemetry = [l \in Loan |-> telemetry[l]] /\ battery = [l \in Loan |-> battery[l]]
        /\ snapshots = [l \in Loan |-> snapshots[l]]
      BY <1>3 DEF Typed, Tables
  <2>3. telemetry' = telemetry
      BY <1>5, <2>1, <2>2
  <2>4. battery' = battery
      BY <1>5, <2>1, <2>2
  <2>5. snapshots' = snapshots
      BY <1>5, <2>1, <2>2
  <2> QED BY <2>3, <2>4, <2>5
<1>7. ASSUME NEW l \in Book
      PROVE  /\ SameArrears(placed[l], schedule[l]) /\ SameArrears(loans[l], schedule[l])
             /\ Metrics(placed[l], snaps[l]) = Metrics(loans[l], snapshots[l])
  <2>1. SameArrears(placed[l], schedule[l])
      BY <1>4 DEF PlacedAs
  <2>2. SameArrears(loans[l], schedule[l])
      BY <1>2 DEF SettledFor, SameArrears
  <2>3. snaps[l] = snapshots[l]
      BY <1>3, <1>5
  <2> QED BY <2>1, <2>2, <2>3, MetricsOfArrears
<1>8. loans' = loans
  <2>1. LightsTo(placed, loans', Book, snaps)
      BY <1>3, <1>4, LitFacts DEF Pass, PlacedAs
  <2>2. /\ loans' \in [Loan -> LoanRow] /\ loans \in [Loan -> LoanRow]
        /\ \A l \in Loan : placed[l].status = loans[l].status
      BY <1>3, <1>4, <2>1 DEF LightsTo, PlacedAs, Typed
  <2>3. ASSUME NEW l \in Book
        PROVE  loans'[l] = loans[l]
    <3>1. loans'[l].status = loans[l].status
        BY <1>3, <2>1, <2>2 DEF LightsTo
    <3>2. SameArrears(loans'[l], placed[l])
        BY <1>3, <2>1 DEF LightsTo
    <3>3. loans'[l].risk_status = loans[l].risk_status
      <4>1. l \in Loan
          BY <1>3
      <4>2. loans'[l].risk_status = loan_risk_status(active_rules, Metrics(placed[l], snaps[l]))
          BY <2>1, <4>1 DEF LightsTo
      <4> QED BY <1>2, <1>7, <4>2 DEF SettledFor
    <3>4. loans'[l] \in LoanRow /\ loans[l] \in LoanRow
        BY <1>3, <2>2
    <3> QED BY <1>7, <3>1, <3>2, <3>3, <3>4 DEF SameArrears, LoanRow
  <2>4. ASSUME NEW l \in Loan \ Book
        PROVE  loans'[l] = loans[l]
    <3>1. loans'[l] = placed[l]
        BY <2>1 DEF LightsTo
    <3>2. placed[l] = loans[l]
        BY <1>4 DEF PlacedAs
    <3> QED BY <3>1, <3>2
  <2> QED BY <2>2, <2>3, <2>4
<1>9. alerts' = alerts
  <2>1. PICK new, catalogue : new = Evaluated(alerts, active_rules, Book, placed, snaps)
                              /\ catalogue = active_rules
      OBVIOUS
  <2>2. alerts' = new
      BY <1>4, <2>1 DEF Pass
  <2>3. PICK o : o = [l \in Book |-> OutcomesFor(catalogue, placed, snaps, l)]
      OBVIOUS
  <2>4. EvaluatesTo(alerts, new, Book, o) /\ alerts \in Seq(RiskAlert)
      BY <1>3, <2>1, <2>3, EvaluationFacts DEF Typed
  <2>5. ASSUME NEW l \in Book
        PROVE  /\ Raised(alerts, l, o[l]) = {}
               /\ \A n \in DOMAIN alerts :
                     alerts[n].loan_id = l => Reviewed(alerts[n], o[l]) = alerts[n]
    <3>1. o[l] = Outcomes(catalogue, Metrics(placed[l], snaps[l]))
        BY <2>3 DEF OutcomesFor
    <3>2. o[l] = OutcomesNow(l)
        BY <1>7, <2>1, <3>1 DEF OutcomesNow
    <3> QED BY <1>2, <3>2 DEF SettledFor
  <2>6. new \in Seq(RiskAlert) /\ Len(new) = Len(alerts)
      BY <2>4, <2>5 DEF EvaluatesTo
  <2>7. ASSUME NEW n \in 1..Len(alerts)
        PROVE  new[n] = alerts[n]
    <3>1. new[n] = IF alerts[n].loan_id \in Book
                   THEN Reviewed(alerts[n], o[alerts[n].loan_id]) ELSE alerts[n]
        BY <2>4 DEF EvaluatesTo
    <3>2. n \in DOMAIN alerts
        BY <2>4
    <3> QED BY <2>5, <3>1, <3>2
  <2> QED BY <2>2, <2>4, <2>6, <2>7
<1>10. job_runs' = job_runs
    BY <1>1, <1>2
<1> QED BY <1>6, <1>8, <1>9, <1>10

\* The five jobs can be run again: for the same date and the same answers they find their own
\* work done.
THEOREM RerunHolds == Spec => RerunChangesNothing
<1>1. ASSUME Strong, Next, fresh # Nothing, fresh' = fresh
      PROVE  UNCHANGED <<telemetry, battery, snapshots, loans, alerts, job_runs>>
  <2>1. ASSUME NEW w \in Worker,
               \/ BeginEvaluation(w) \/ Work(w) \/ Abort(w)
               \/ \E answer \in [Loan -> Answers] : BeginNightly(w, answer)
               \/ EvaluateNightly(w)
        PROVE  UNCHANGED <<telemetry, battery, snapshots, loans, alerts, job_runs>>
      BY <2>1 DEF BeginEvaluation, Work, Acknowledge, StartWork, Resolve, Assign, Escalate,
                  BeginWork, Abort, BeginNightly, EvaluateNightly
  <2>2. ASSUME NEW w \in Worker, CommitEvaluation(w) \/ CommitWork(w)
        PROVE  FALSE
      BY <1>1, <2>2 DEF CommitEvaluation, CommitWork
  <2>3. ASSUME NEW w \in Worker, CommitNightly(w)
        PROVE  UNCHANGED <<telemetry, battery, snapshots, loans, alerts, job_runs>>
    <3>1. w \notin outdated
        BY <1>1, <2>3 DEF CommitNightly
    <3>2. PICK answer, snaps : answer = serving[w].answer /\ snaps = serving[w].snaps
        OBVIOUS
    <3>3. PICK placed : Pass(answer, placed, snaps)
        BY <1>1, <2>3, <3>1, <3>2, NightlyFacts
    <3>4. /\ job_runs' = job_runs \cup (Job \X {today})
          /\ fresh' = [night |-> today, answer |-> answer]
        BY <1>1, <2>3, <3>1, <3>2, NightlyFacts
    <3> QED BY <1>1, <3>3, <3>4, PassTwice DEF Strong
  <2>4. ASSUME NEW l \in Loan, Pay(l)
        PROVE  FALSE
      BY <1>1, <2>4 DEF Pay
  <2>5. CASE Tick \/ Administer
      BY <1>1, <2>5 DEF Tick, Administer
  <2> QED BY <1>1, <2>1, <2>2, <2>3, <2>4, <2>5 DEF Next
<1>2. Strong /\ [Next]_vars =>
        [(fresh # Nothing /\ fresh' = fresh)
            => UNCHANGED <<telemetry, battery, snapshots, loans, alerts, job_runs>>]_vars
    BY <1>1
<1> QED BY <1>2, Strengthened, PTL DEF Spec, RerunChangesNothing

-------------------------------------------------------------------------------
(* The shipped catalogue: the bands of a family meet.                      *)

MetricCode ==
    {"DAYS_PAST_DUE", "CONSECUTIVE_MISSED_EMI", "OVERDUE_AMOUNT", "PARTIAL_PAYMENT_COUNT_90D",
     "USAGE_CHANGE_PCT", "ZERO_KM_STREAK", "ACTIVE_DAYS_30D", "REVENUE_CHANGE_PCT", "DSCR_ACTUAL",
     "CHARGING_CHANGE_PCT", "BATTERY_SOH", "ROUTE_DEVIATION_PCT", "DAYS_SINCE_TELEMETRY"}

RedRules ==
    {"EMI_OVERDUE_30_PLUS", "EMI_MISSED_CONSECUTIVE", "EMI_OVERDUE_90_PLUS",
     "VEHICLE_INACTIVE_7D", "USAGE_COLLAPSE", "ROUTE_ABANDONED", "REVENUE_COLLAPSE",
     "BATTERY_HEALTH_CRITICAL", "TELEMETRY_SILENT_5D"}

\* The rules that read metric m.
ReadersOf(m) ==
    CASE m = "DAYS_PAST_DUE" ->
             {"EMI_OVERDUE_30_PLUS", "EMI_OVERDUE_90_PLUS", "EMI_OVERDUE_1_30"}
      [] m = "ZERO_KM_STREAK" -> {"VEHICLE_INACTIVE_7D", "VEHICLE_INACTIVE_3D"}
      [] m = "USAGE_CHANGE_PCT" -> {"USAGE_COLLAPSE", "USAGE_DROP_MODERATE"}

\* What is known of a rule of the code: its severity, and which of three metrics it reads.
Shipped(r, rule) ==
    /\ rule.severity = IF r \in RedRules THEN "RED" ELSE "YELLOW"
    /\ \A c \in rule.conditions :
          /\ c.metric_code \in MetricCode
          /\ \A m \in DOMAIN Worsening : c.metric_code = m => r \in ReadersOf(m)

\* The severity of each shipped rule, and which rules read the three metrics.
LEMMA ShippedFacts == \A r \in RuleCode : Shipped(r, default_rules[r])
<1>1. ASSUME NEW r \in DOMAIN RepaymentRules
      PROVE  Shipped(r, RepaymentRules[r])
    BY DEF RepaymentRules, Red, Yellow, Rule, GT, GTE, BETWEEN, RuleCondition, Shipped, RedRules,
           MetricCode, ReadersOf, Worsening
<1>2. ASSUME NEW r \in DOMAIN UsageRules
      PROVE  Shipped(r, UsageRules[r])
    BY DEF UsageRules, Red, Yellow, Rule, GT, GTE, LTE, BETWEEN, RuleCondition, Shipped, RedRules,
           MetricCode, ReadersOf, Worsening
<1>3. ASSUME NEW r \in DOMAIN RevenueRules
      PROVE  Shipped(r, RevenueRules[r])
    BY DEF RevenueRules, Red, Yellow, Rule, GT, LT, LTE, RuleCondition, Shipped, RedRules,
           MetricCode, ReadersOf, Worsening
<1>4. ASSUME NEW r \in DOMAIN BatteryRules
      PROVE  Shipped(r, BatteryRules[r])
    BY DEF BatteryRules, Red, Yellow, Rule, GT, LT, LTE, BETWEEN, RuleCondition, Shipped, RedRules,
           MetricCode, ReadersOf, Worsening
<1>5. ASSUME NEW r \in DOMAIN DataQualityRules
      PROVE  Shipped(r, DataQualityRules[r])
    BY DEF DataQualityRules, Red, Yellow, Rule, GTE, BETWEEN, RuleCondition, Shipped, RedRules,
           MetricCode, ReadersOf, Worsening
<1> QED
  <2>1. SUFFICES ASSUME NEW r \in RuleCode PROVE Shipped(r, default_rules[r])
      OBVIOUS
  <2>2. \/ r \in DOMAIN RepaymentRules \/ r \in DOMAIN UsageRules \/ r \in DOMAIN RevenueRules
        \/ r \in DOMAIN BatteryRules \/ r \in DOMAIN DataQualityRules
      BY <2>1 DEF RuleCode
  <2>3. default_rules[r] =
            CASE r \in DOMAIN RepaymentRules -> RepaymentRules[r]
              [] r \in DOMAIN UsageRules -> UsageRules[r]
              [] r \in DOMAIN RevenueRules -> RevenueRules[r]
              [] r \in DOMAIN BatteryRules -> BatteryRules[r]
              [] r \in DOMAIN DataQualityRules -> DataQualityRules[r]
      BY <2>1 DEF default_rules
  <2> QED BY <1>1, <1>2, <1>3, <1>4, <1>5, <2>2, <2>3

\* Who outranks whom.
LEMMA Ranks ==
    ASSUME NEW a, NEW b, supersedes(a, b)
    PROVE  /\ a \in RuleCode /\ b \in RuleCode
           /\ b \in RedRules => a = "EMI_OVERDUE_90_PLUS"
           /\ a \in RedRules \cup {"CHARGING_DROP_SEVERE"}
           /\ b \notin {"EMI_OVERDUE_90_PLUS", "CHARGING_DROP_SEVERE"}
<1>1. PICK f \in DOMAIN FAMILIES : \E i, j \in DOMAIN FAMILIES[f] :
            i > j /\ a = FAMILIES[f][i] /\ b = FAMILIES[f][j]
    BY DEF supersedes, OUTRANKS
<1>2. a \in RuleCode /\ b \in RuleCode
    BY DEF supersedes, OUTRANKS
<1>3. PICK s : s = FAMILIES[f]
    OBVIOUS
<1>4. PICK i, j \in DOMAIN s : i > j /\ a = s[i] /\ b = s[j]
    BY <1>1, <1>3
<1>5. CASE f = "REPAYMENT_DELINQUENCY"
  <2>1. s = <<"EMI_OVERDUE_1_30", "EMI_OVERDUE_30_PLUS", "EMI_OVERDUE_90_PLUS">>
      BY <1>3, <1>5 DEF FAMILIES
  <2>2. i \in {2, 3} /\ j \in {1, 2} /\ (j = 2 => i = 3)
      BY <1>4, <2>1
  <2> QED BY <1>2, <1>4, <2>1, <2>2 DEF RedRules
<1>6. ASSUME NEW x, NEW y, s = <<x, y>>
      PROVE  a = y /\ b = x
  <2>1. i = 2 /\ j = 1
      BY <1>4, <1>6
  <2> QED BY <1>4, <1>6, <2>1
<1>7. CASE f # "REPAYMENT_DELINQUENCY"
  <2>1. \/ s = <<"VEHICLE_INACTIVE_3D", "VEHICLE_INACTIVE_7D">>
        \/ s = <<"USAGE_DROP_MODERATE", "USAGE_COLLAPSE">>
        \/ s = <<"REVENUE_DECLINE", "REVENUE_COLLAPSE">>
        \/ s = <<"BATTERY_HEALTH_LOW", "BATTERY_HEALTH_CRITICAL">>
        \/ s = <<"ROUTE_DEVIATION_MODERATE", "ROUTE_ABANDONED">>
        \/ s = <<"TELEMETRY_SILENT_2D", "TELEMETRY_SILENT_5D">>
        \/ s = <<"CHARGING_DROP_MODERATE", "CHARGING_DROP_SEVERE">>
      BY <1>3, <1>7 DEF FAMILIES
  <2> QED BY <1>2, <1>6, <2>1 DEF RedRules
<1> QED BY <1>5, <1>7

Fires(r, metrics) == evaluate_rule(default_rules[r], metrics)

\* The traffic light is read off what fires: what is outranked changes nothing.
LEMMA LightOfFired ==
    ASSUME NEW metrics
    PROVE  loan_risk_status(default_rules, metrics) =
               IF \E r \in RedRules : Fires(r, metrics) THEN "RED"
               ELSE IF \E r \in RuleCode : Fires(r, metrics) THEN "YELLOW" ELSE "GREEN"
<1> DEFINE F == fired(default_rules, metrics)
           A == actionable(default_rules, metrics)
<1>1. F = {r \in RuleCode : Fires(r, metrics)}
    BY Catalogue DEF fired, Fires
<1>2. A = {r \in F : ~\E other \in F : supersedes(other, r)}
    BY DEF actionable
<1>3. loan_risk_status(default_rules, metrics) = WorstOf(default_rules, A)
    BY DEF loan_risk_status
<1>4. \A r \in RuleCode :
          default_rules[r].severity = IF r \in RedRules THEN "RED" ELSE "YELLOW"
    BY ShippedFacts DEF Shipped
<1>5. RedRules \subseteq RuleCode
    BY DEF RedRules, RuleCode, RepaymentRules, UsageRules, RevenueRules, BatteryRules,
           DataQualityRules
<1> HIDE DEF F, A
<1>6. A \subseteq F /\ F \subseteq RuleCode
    BY <1>1, <1>2
<1>7. \A r \in F \cap RedRules : \E q \in A : q \in RedRules
  <2>1. SUFFICES ASSUME NEW r \in F \cap RedRules, r \notin A
                 PROVE  \E q \in A : q \in RedRules
      OBVIOUS
  <2>2. PICK q \in F : supersedes(q, r)
      BY <1>2, <2>1
  <2>3. q = "EMI_OVERDUE_90_PLUS"
      BY <2>2, Ranks
  <2>4. q \in A
      BY <1>2, <2>3, Ranks
  <2> QED BY <2>3, <2>4 DEF RedRules
<1>8. F # {} => A # {}
  <2>1. SUFFICES ASSUME NEW r \in F, r \notin A PROVE A # {}
      OBVIOUS
  <2>2. PICK q \in F : supersedes(q, r)
      BY <1>2, <2>1
  <2>3. CASE q \in RedRules
      BY <1>7, <2>3
  <2>4. CASE q \notin RedRules
    <3>1. q = "CHARGING_DROP_SEVERE"
        BY <2>2, <2>4, Ranks
    <3> QED BY <1>2, <3>1, Ranks
  <2> QED BY <2>3, <2>4
<1>9. (\E r \in A : default_rules[r].severity = "RED") <=> \E r \in RedRules : Fires(r, metrics)
  <2>1. (\E r \in A : default_rules[r].severity = "RED") <=> \E r \in A : r \in RedRules
      BY <1>4, <1>6
  <2>2. (\E r \in A : r \in RedRules) <=> \E r \in F : r \in RedRules
      BY <1>6, <1>7
  <2> QED BY <1>1, <1>5, <2>1, <2>2
<1>10. A = {} <=> ~\E r \in RuleCode : Fires(r, metrics)
    BY <1>1, <1>6, <1>8
<1>11. \A r \in A : default_rules[r].severity \in {"RED", "YELLOW"}
    BY <1>4, <1>6
<1>12. CASE \E r \in RedRules : Fires(r, metrics)
    BY <1>3, <1>9, <1>12 DEF WorstOf
<1>13. CASE A = {}
    BY <1>3, <1>5, <1>10, <1>13 DEF WorstOf
<1>14. CASE A # {} /\ ~\E r \in RedRules : Fires(r, metrics)
  <2>1. \E r \in A : default_rules[r].severity = "YELLOW"
      BY <1>9, <1>11, <1>14
  <2>2. ~\E r \in A : default_rules[r].severity = "RED"
      BY <1>9, <1>14
  <2>3. WorstOf(default_rules, A) = "YELLOW"
      BY <1>14, <2>1, <2>2 DEF WorstOf
  <2> QED BY <1>3, <1>10, <1>14, <2>3
<1> QED BY <1>12, <1>13, <1>14

\* Whatever fires on before, as severe a rule fires on after.
NoBetter(before, after) ==
    \A r \in RuleCode : Fires(r, before) =>
        \E q \in RuleCode : Fires(q, after) /\ (r \in RedRules => q \in RedRules)

\* Then the light is no better after.
LEMMA NoGreener ==
    ASSUME NEW before, NEW after, NoBetter(before, after)
    PROVE  loan_risk_status(default_rules, after) \in Worse(loan_risk_status(default_rules, before))
<1>1. RedRules \subseteq RuleCode
    BY DEF RedRules, RuleCode, RepaymentRules, UsageRules, RevenueRules, BatteryRules,
           DataQualityRules
<1>2. (\E r \in RedRules : Fires(r, before)) => \E r \in RedRules : Fires(r, after)
    BY <1>1 DEF NoBetter
<1>3. (\E r \in RuleCode : Fires(r, before)) => \E r \in RuleCode : Fires(r, after)
    BY DEF NoBetter
<1>4. PICK x, y : /\ x = loan_risk_status(default_rules, before)
                  /\ y = loan_risk_status(default_rules, after)
    OBVIOUS
<1>5. /\ x = IF \E r \in RedRules : Fires(r, before) THEN "RED"
              ELSE IF \E r \in RuleCode : Fires(r, before) THEN "YELLOW" ELSE "GREEN"
      /\ y = IF \E r \in RedRules : Fires(r, after) THEN "RED"
              ELSE IF \E r \in RuleCode : Fires(r, after) THEN "YELLOW" ELSE "GREEN"
    BY <1>4, LightOfFired
<1>6. y \in Worse(x)
    BY <1>2, <1>3, <1>5 DEF Worse
<1> QED BY <1>4, <1>6

\* A rule that does not read metric m cannot tell what it is.
LEMMA Unread ==
    ASSUME NEW metrics, DOMAIN metrics = MetricCode, NEW m \in DOMAIN Worsening, NEW s, NEW t,
           NEW r \in RuleCode, r \notin ReadersOf(m),
           Fires(r, [metrics EXCEPT ![m] = s])
    PROVE  Fires(r, [metrics EXCEPT ![m] = t])
<1>1. PICK before, after : /\ before = [metrics EXCEPT ![m] = s]
                           /\ after = [metrics EXCEPT ![m] = t]
    OBVIOUS
<1>2. PICK conditions : conditions = default_rules[r].conditions
    OBVIOUS
<1>3. ASSUME NEW c \in conditions
      PROVE  after[c.metric_code] = before[c.metric_code]
  <2>1. c.metric_code \in MetricCode /\ c.metric_code # m
      BY <1>2, ShippedFacts DEF Shipped
  <2> QED BY <1>1, <2>1
<1>4. \A c \in conditions : evaluate_condition(c, before)
    BY <1>1, <1>2 DEF Fires, evaluate_rule
<1>5. \A c \in conditions : evaluate_condition(c, after)
    BY <1>3, <1>4 DEF evaluate_condition
<1> QED BY <1>1, <1>2, <1>5 DEF Fires, evaluate_rule

\* The rules of the three families, as the catalogue ships them.
LEMMA Readers ==
    ASSUME NEW metrics
    PROVE  /\ Fires("EMI_OVERDUE_30_PLUS", metrics) <=> \E v \in metrics["DAYS_PAST_DUE"] : v > 3000
           /\ Fires("EMI_OVERDUE_90_PLUS", metrics) <=> \E v \in metrics["DAYS_PAST_DUE"] : v > 9000
           /\ Fires("EMI_OVERDUE_1_30", metrics) <=>
                 \E v \in metrics["DAYS_PAST_DUE"] : 100 <= v /\ v <= 3000
           /\ Fires("VEHICLE_INACTIVE_7D", metrics) <=>
                 \E v \in metrics["ZERO_KM_STREAK"] : v >= 700
           /\ Fires("VEHICLE_INACTIVE_3D", metrics) <=>
                 \E v \in metrics["ZERO_KM_STREAK"] : 300 <= v /\ v <= 600
           /\ Fires("USAGE_COLLAPSE", metrics) <=>
                 /\ \E v \in metrics["USAGE_CHANGE_PCT"] : v <= -5000
                 /\ \E v \in metrics["ACTIVE_DAYS_30D"] : v >= 300
           /\ Fires("USAGE_DROP_MODERATE", metrics) <=>
                 /\ \E v \in metrics["USAGE_CHANGE_PCT"] : v <= -2000
                 /\ \E v \in metrics["USAGE_CHANGE_PCT"] : v > -5000
                 /\ \E v \in metrics["ACTIVE_DAYS_30D"] : v >= 500
<1>1. /\ default_rules["EMI_OVERDUE_30_PLUS"] = RepaymentRules["EMI_OVERDUE_30_PLUS"]
      /\ default_rules["EMI_OVERDUE_90_PLUS"] = RepaymentRules["EMI_OVERDUE_90_PLUS"]
      /\ default_rules["EMI_OVERDUE_1_30"] = RepaymentRules["EMI_OVERDUE_1_30"]
    BY DEF default_rules, RuleCode, RepaymentRules, UsageRules, RevenueRules, BatteryRules,
           DataQualityRules
<1>2. /\ default_rules["VEHICLE_INACTIVE_7D"] = UsageRules["VEHICLE_INACTIVE_7D"]
      /\ default_rules["VEHICLE_INACTIVE_3D"] = UsageRules["VEHICLE_INACTIVE_3D"]
      /\ default_rules["USAGE_COLLAPSE"] = UsageRules["USAGE_COLLAPSE"]
      /\ default_rules["USAGE_DROP_MODERATE"] = UsageRules["USAGE_DROP_MODERATE"]
    BY DEF default_rules, RuleCode, RepaymentRules, UsageRules, RevenueRules, BatteryRules,
           DataQualityRules
<1>3. /\ default_rules["EMI_OVERDUE_30_PLUS"].conditions = {GT("DAYS_PAST_DUE", 30)}
      /\ default_rules["EMI_OVERDUE_90_PLUS"].conditions = {GT("DAYS_PAST_DUE", 90)}
      /\ default_rules["EMI_OVERDUE_1_30"].conditions = {BETWEEN("DAYS_PAST_DUE", 100, 3000)}
    BY <1>1 DEF RepaymentRules, Red, Yellow, Rule
<1>4. /\ default_rules["VEHICLE_INACTIVE_7D"].conditions = {GTE("ZERO_KM_STREAK", 7)}
      /\ default_rules["VEHICLE_INACTIVE_3D"].conditions = {BETWEEN("ZERO_KM_STREAK", 300, 600)}
      /\ default_rules["USAGE_COLLAPSE"].conditions =
             {LTE("USAGE_CHANGE_PCT", -50), GTE("ACTIVE_DAYS_30D", 3)}
      /\ default_rules["USAGE_DROP_MODERATE"].conditions =
             {LTE("USAGE_CHANGE_PCT", -20), GT("USAGE_CHANGE_PCT", -50),
              GTE("ACTIVE_DAYS_30D", 5)}
    BY <1>2 DEF UsageRules, Red, Yellow, Rule
<1>5. ASSUME NEW code, NEW t \in Int
      PROVE  /\ evaluate_condition(GT(code, t), metrics) <=> \E v \in metrics[code] : v > 100 * t
             /\ evaluate_condition(GTE(code, t), metrics) <=> \E v \in metrics[code] : v >= 100 * t
             /\ evaluate_condition(LTE(code, t), metrics) <=> \E v \in metrics[code] : v <= 100 * t
  <2>1. PICK threshold : threshold = 100 * t
      OBVIOUS
  <2>2. /\ GT(code, t).metric_code = code /\ GT(code, t).operator = "GT"
        /\ GT(code, t).threshold_value = threshold
      BY <2>1 DEF GT, RuleCondition
  <2>3. /\ GTE(code, t).metric_code = code /\ GTE(code, t).operator = "GTE"
        /\ GTE(code, t).threshold_value = threshold
      BY <2>1 DEF GTE, RuleCondition
  <2>4. /\ LTE(code, t).metric_code = code /\ LTE(code, t).operator = "LTE"
        /\ LTE(code, t).threshold_value = threshold
      BY <2>1 DEF LTE, RuleCondition
  <2> QED BY <2>1, <2>2, <2>3, <2>4 DEF evaluate_condition
<1>6. ASSUME NEW code, NEW lo \in Int, NEW hi \in Int
      PROVE  evaluate_condition(BETWEEN(code, lo, hi), metrics)
                 <=> \E v \in metrics[code] : lo <= v /\ v <= hi
    BY DEF evaluate_condition, BETWEEN
<1>7. /\ Fires("EMI_OVERDUE_30_PLUS", metrics) <=> \E v \in metrics["DAYS_PAST_DUE"] : v > 3000
      /\ Fires("EMI_OVERDUE_90_PLUS", metrics) <=> \E v \in metrics["DAYS_PAST_DUE"] : v > 9000
    BY <1>3, <1>5 DEF Fires, evaluate_rule
<1>8. Fires("EMI_OVERDUE_1_30", metrics) <=>
          \E v \in metrics["DAYS_PAST_DUE"] : 100 <= v /\ v <= 3000
    BY <1>3, <1>6 DEF Fires, evaluate_rule
<1>9. Fires("VEHICLE_INACTIVE_7D", metrics) <=> \E v \in metrics["ZERO_KM_STREAK"] : v >= 700
    BY <1>4, <1>5 DEF Fires, evaluate_rule
<1>10. Fires("VEHICLE_INACTIVE_3D", metrics) <=>
           \E v \in metrics["ZERO_KM_STREAK"] : 300 <= v /\ v <= 600
    BY <1>4, <1>6 DEF Fires, evaluate_rule
<1>11. Fires("USAGE_COLLAPSE", metrics) <=>
           /\ \E v \in metrics["USAGE_CHANGE_PCT"] : v <= -5000
           /\ \E v \in metrics["ACTIVE_DAYS_30D"] : v >= 300
    BY <1>4, <1>5 DEF Fires, evaluate_rule
<1>12. Fires("USAGE_DROP_MODERATE", metrics) <=>
           /\ \E v \in metrics["USAGE_CHANGE_PCT"] : v <= -2000
           /\ \E v \in metrics["USAGE_CHANGE_PCT"] : v > -5000
           /\ \E v \in metrics["ACTIVE_DAYS_30D"] : v >= 500
    BY <1>4, <1>5 DEF Fires, evaluate_rule
<1> QED BY <1>7, <1>8, <1>9, <1>10, <1>11, <1>12

\* w is as bad as v, or worse.
AsBad(m, v, w) ==
    CASE m = "DAYS_PAST_DUE" -> v <= w
      [] m = "ZERO_KM_STREAK" -> v <= w
      [] m = "USAGE_CHANGE_PCT" -> w <= v

Figures(m) ==
    CASE m = "DAYS_PAST_DUE" -> Int
      [] m = "ZERO_KM_STREAK" -> {100 * n : n \in Nat}
      [] m = "USAGE_CHANGE_PCT" -> Int

\* A rule that fires on a figure has one as severe that fires on a worse one.
LEMMA NoGap ==
    ASSUME NEW metrics, DOMAIN metrics = MetricCode, metrics["ACTIVE_DAYS_30D"] \subseteq Int,
           NEW m \in DOMAIN Worsening, NEW v \in Figures(m), NEW w \in Figures(m), AsBad(m, v, w)
    PROVE  NoBetter([metrics EXCEPT ![m] = {v}], [metrics EXCEPT ![m] = {w}])
<1>1. m \in {"DAYS_PAST_DUE", "ZERO_KM_STREAK", "USAGE_CHANGE_PCT"}
    BY DEF Worsening
<1>2. PICK before, after : /\ before = [metrics EXCEPT ![m] = {v}]
                           /\ after = [metrics EXCEPT ![m] = {w}]
    OBVIOUS
<1>3. /\ before[m] = {v} /\ after[m] = {w}
      /\ m # "ACTIVE_DAYS_30D" => /\ before["ACTIVE_DAYS_30D"] = metrics["ACTIVE_DAYS_30D"]
                                  /\ after["ACTIVE_DAYS_30D"] = metrics["ACTIVE_DAYS_30D"]
    BY <1>1, <1>2 DEF MetricCode
<1>4. ASSUME NEW r \in ReadersOf(m), Fires(r, before)
      PROVE  \E q \in ReadersOf(m) : Fires(q, after) /\ (r \in RedRules => q \in RedRules)
  <2>1. CASE m = "DAYS_PAST_DUE"
    <3>1. v \in Int /\ w \in Int /\ v <= w
        BY <2>1 DEF Figures, AsBad
    <3>2. r \in {"EMI_OVERDUE_30_PLUS", "EMI_OVERDUE_90_PLUS", "EMI_OVERDUE_1_30"}
        BY <2>1 DEF ReadersOf
    <3>3. v > 3000 => Fires("EMI_OVERDUE_30_PLUS", after)
        BY <1>3, <2>1, <3>1, Readers
    <3>4. r \in {"EMI_OVERDUE_30_PLUS", "EMI_OVERDUE_90_PLUS"} => v > 3000
        BY <1>3, <1>4, <2>1, <3>1, Readers
    <3>5. r = "EMI_OVERDUE_1_30" =>
              Fires("EMI_OVERDUE_1_30", after) \/ Fires("EMI_OVERDUE_30_PLUS", after)
        BY <1>3, <1>4, <2>1, <3>1, Readers
    <3>6. "EMI_OVERDUE_1_30" \notin RedRules /\ "EMI_OVERDUE_30_PLUS" \in RedRules
        BY DEF RedRules
    <3> QED BY <2>1, <3>2, <3>3, <3>4, <3>5, <3>6 DEF ReadersOf
  <2>2. CASE m = "ZERO_KM_STREAK"
    <3>1. PICK i, j \in Nat : v = 100 * i /\ w = 100 * j
        BY <2>2 DEF Figures
    <3>2. i <= j
        BY <2>2, <3>1 DEF AsBad
    <3>3. r \in {"VEHICLE_INACTIVE_7D", "VEHICLE_INACTIVE_3D"}
        BY <2>2 DEF ReadersOf
    <3>4. r = "VEHICLE_INACTIVE_7D" => Fires("VEHICLE_INACTIVE_7D", after)
        BY <1>3, <1>4, <2>2, <3>1, <3>2, Readers
    <3>5. r = "VEHICLE_INACTIVE_3D" =>
              Fires("VEHICLE_INACTIVE_3D", after) \/ Fires("VEHICLE_INACTIVE_7D", after)
        BY <1>3, <1>4, <2>2, <3>1, <3>2, Readers
    <3>6. "VEHICLE_INACTIVE_3D" \notin RedRules /\ "VEHICLE_INACTIVE_7D" \in RedRules
        BY DEF RedRules
    <3> QED BY <2>2, <3>3, <3>4, <3>5, <3>6 DEF ReadersOf
  <2>3. CASE m = "USAGE_CHANGE_PCT"
    <3>1. v \in Int /\ w \in Int /\ w <= v
        BY <2>3 DEF Figures, AsBad
    <3>2. r \in {"USAGE_COLLAPSE", "USAGE_DROP_MODERATE"}
        BY <2>3 DEF ReadersOf
    <3>3. r = "USAGE_COLLAPSE" => Fires("USAGE_COLLAPSE", after)
        BY <1>3, <1>4, <2>3, <3>1, Readers
    <3>4. r = "USAGE_DROP_MODERATE" =>
              Fires("USAGE_DROP_MODERATE", after) \/ Fires("USAGE_COLLAPSE", after)
        BY <1>3, <1>4, <2>3, <3>1, Readers
    <3>5. "USAGE_DROP_MODERATE" \notin RedRules /\ "USAGE_COLLAPSE" \in RedRules
        BY DEF RedRules
    <3> QED BY <2>3, <3>2, <3>3, <3>4, <3>5 DEF ReadersOf
  <2> QED BY <1>1, <2>1, <2>2, <2>3
<1>5. ReadersOf(m) \subseteq RuleCode
    BY <1>1 DEF ReadersOf, RuleCode, RepaymentRules, UsageRules
<1>6. ASSUME NEW r \in RuleCode, r \notin ReadersOf(m), Fires(r, before)
      PROVE  Fires(r, after)
    BY <1>2, <1>6, Unread
<1>7. NoBetter(before, after)
    BY <1>4, <1>5, <1>6 DEF NoBetter
<1> QED BY <1>2, <1>7

\* Whatever a loan's other figures are, and whatever the two of this metric, the light does not
\* improve as the metric gets worse: between a moderate rule and its severe one there is no gap.
THEOREM WorseFigures ==
    ASSUME NEW metrics, DOMAIN metrics = MetricCode, metrics["ACTIVE_DAYS_30D"] \subseteq Int,
           NEW m \in DOMAIN Worsening, NEW v \in Figures(m), NEW w \in Figures(m), AsBad(m, v, w)
    PROVE  loan_risk_status(default_rules, [metrics EXCEPT ![m] = {w}])
               \in Worse(loan_risk_status(default_rules, [metrics EXCEPT ![m] = {v}]))
<1>1. NoBetter([metrics EXCEPT ![m] = {v}], [metrics EXCEPT ![m] = {w}])
    BY NoGap
<1> QED BY <1>1, NoGreener

\* A snapshot has every metric, and a count of active days, if any, that is a number.
LEMMA MetricFacts ==
    ASSUME NEW row, NEW snap, \A s \in snap : s.active_days_30d \in Nat
    PROVE  /\ DOMAIN Metrics(row, snap) = MetricCode
           /\ Metrics(row, snap)["ACTIVE_DAYS_30D"] \subseteq Int
<1>1. PICK x : x = LoanSnapshotRow(row, snap)
    OBVIOUS
<1>2. x.active_days_30d = UNION {{s.active_days_30d} : s \in snap}
    BY <1>1 DEF LoanSnapshotRow
<1>3. \A n \in x.active_days_30d : n \in Nat
    BY <1>2
<1>4. Metrics(row, snap) = build_metric_snapshot(x)
    BY <1>1 DEF Metrics
<1>5. DOMAIN build_metric_snapshot(x) = MetricCode
    BY DEF build_metric_snapshot, MetricCode
<1>6. build_metric_snapshot(x)["ACTIVE_DAYS_30D"] = Count(x.active_days_30d)
    BY DEF build_metric_snapshot
<1>7. Count(x.active_days_30d) \subseteq Int
    BY <1>3 DEF Count
<1> QED BY <1>4, <1>5, <1>6, <1>7

\* The light of no loan improves as one of its figures gets worse: not with the values next to
\* the shipped bounds nor, by WorseFigures, with any others.
THEOREM NeverGreener == Spec => []WorseIsNeverGreener
<1>1. ASSUME Dated, NEW l \in Loan, NEW m \in DOMAIN Worsening
      PROVE  LET metrics == Metrics(loans[l], snapshots[l])
                 Light(v) == loan_risk_status(default_rules, [metrics EXCEPT ![m] = {v}])
                 lights == {<<i, Light(Worsening[m][i])>> : i \in DOMAIN Worsening[m]}
             IN  \A a, b \in lights : a[1] < b[1] => b[2] \in Worse(a[2])
  <2>1. PICK metrics : metrics = Metrics(loans[l], snapshots[l])
      OBVIOUS
  <2>2. DOMAIN metrics = MetricCode /\ metrics["ACTIVE_DAYS_30D"] \subseteq Int
    <3>1. \A s \in snapshots[l] : s.active_days_30d \in Nat
        BY <1>1 DEF Dated, Past
    <3> QED BY <2>1, <3>1, MetricFacts
  <2> DEFINE Light(v) == loan_risk_status(default_rules, [metrics EXCEPT ![m] = {v}])
  <2>3. PICK values : values = Worsening[m]
      OBVIOUS
  <2>4. /\ \A i \in DOMAIN values : values[i] \in Figures(m)
        /\ \A i, j \in DOMAIN values : i < j => AsBad(m, values[i], values[j])
    <3>1. CASE m = "DAYS_PAST_DUE"
      <4>1. values = <<0, 3000, 3100>>
          BY <2>3, <3>1 DEF Worsening
      <4> QED BY <3>1, <4>1 DEF Figures, AsBad
    <3>2. CASE m = "ZERO_KM_STREAK"
      <4>1. values = <<0, 600, 700>>
          BY <2>3, <3>2 DEF Worsening
      <4>2. 0 = 100 * 0 /\ 600 = 100 * 6 /\ 700 = 100 * 7
          OBVIOUS
      <4>3. {0, 600, 700} \subseteq {100 * n : n \in Nat}
          BY <4>2
      <4> QED BY <3>2, <4>1, <4>3 DEF Figures, AsBad
    <3>3. CASE m = "USAGE_CHANGE_PCT"
      <4>1. values = <<0, -2000, -4000, -5000>>
          BY <2>3, <3>3 DEF Worsening
      <4> QED BY <3>3, <4>1 DEF Figures, AsBad
    <3> QED BY <3>1, <3>2, <3>3 DEF Worsening
  <2>5. ASSUME NEW v \in Figures(m), NEW w \in Figures(m), AsBad(m, v, w)
        PROVE  Light(w) \in Worse(Light(v))
      BY <2>2, <2>5, WorseFigures
  <2> HIDE DEF Light
  <2>6. ASSUME NEW i \in DOMAIN values, NEW j \in DOMAIN values, i < j
        PROVE  Light(values[j]) \in Worse(Light(values[i]))
      BY <2>4, <2>5, <2>6
  <2>7. PICK lights : lights = {<<i, Light(values[i])>> : i \in DOMAIN values}
      OBVIOUS
  <2>8. \A a, b \in lights : a[1] < b[1] => b[2] \in Worse(a[2])
      BY <2>6, <2>7
  <2> QED BY <2>1, <2>3, <2>7, <2>8 DEF Light
<1>2. Dated => WorseIsNeverGreener
    BY <1>1 DEF WorseIsNeverGreener
<1> QED BY <1>2, DatedHolds, PTL

-------------------------------------------------------------------------------
(* A standstill.                                                           *)

\* The rules that watch for a standstill, and what they ask.
LEMMA StandstillRules ==
    ASSUME NEW metrics
    PROVE  /\ Fires("USAGE_COLLAPSE", metrics) <=>
                 /\ \E v \in metrics["USAGE_CHANGE_PCT"] : v <= -5000
                 /\ \E v \in metrics["ACTIVE_DAYS_30D"] : v >= 300
           /\ Fires("TELEMETRY_SILENT_5D", metrics) <=>
                 \E v \in metrics["DAYS_SINCE_TELEMETRY"] : v >= 500
<1>1. default_rules["TELEMETRY_SILENT_5D"] = DataQualityRules["TELEMETRY_SILENT_5D"]
    BY DEF default_rules, RuleCode, RepaymentRules, UsageRules, RevenueRules, BatteryRules,
           DataQualityRules
<1>2. PICK c : c = GTE("DAYS_SINCE_TELEMETRY", 5)
    OBVIOUS
<1>3. default_rules["TELEMETRY_SILENT_5D"].conditions = {c}
    BY <1>1, <1>2 DEF DataQualityRules, Red, Yellow, Rule
<1>4. /\ c.metric_code = "DAYS_SINCE_TELEMETRY" /\ c.operator = "GTE" /\ c.threshold_value = 500
    BY <1>2 DEF GTE, RuleCondition
<1>5. evaluate_condition(c, metrics) <=> \E v \in metrics["DAYS_SINCE_TELEMETRY"] : v >= 500
    BY <1>4 DEF evaluate_condition
<1>6. Fires("TELEMETRY_SILENT_5D", metrics) <=> evaluate_condition(c, metrics)
    BY <1>3 DEF Fires, evaluate_rule
<1> QED BY <1>5, <1>6, Readers

\* A rule in force asks what it was shipped asking, as severely: an administrator changes only
\* whether it resolves itself.
LEMMA AsShipped ==
    ASSUME NEW r \in DOMAIN active_rules
    PROVE  /\ r \in RuleCode
           /\ active_rules[r].severity = default_rules[r].severity
           /\ active_rules[r].conditions = default_rules[r].conditions
<1> DEFINE on == {q \in Seeded : rules[q].is_active}
<1>1. on \subseteq RuleCode
    BY SeededAssumption
<1>2. CASE on = {}
    BY <1>2, Catalogue DEF active_rules
<1>3. CASE on # {}
  <2>1. active_rules =
            [q \in on |-> [default_rules[q] EXCEPT !.auto_resolve = rules[q].auto_resolve]]
      BY <1>3 DEF active_rules
  <2>2. r \in on
      BY <2>1
  <2>3. PICK rule : rule = default_rules[r]
      OBVIOUS
  <2>4. active_rules[r] = [rule EXCEPT !.auto_resolve = rules[r].auto_resolve]
      BY <2>1, <2>2, <2>3
  <2>5. active_rules[r].severity = rule.severity /\ active_rules[r].conditions = rule.conditions
      BY <2>4
  <2> QED BY <1>1, <2>2, <2>3, <2>5
<1> QED BY <1>2, <1>3

\* A red rule in force that fires makes the light red: what outranks it is red as well.
LEMMA RedShown ==
    ASSUME NEW metrics, NEW r \in DOMAIN active_rules \cap RedRules, Fires(r, metrics)
    PROVE  loan_risk_status(active_rules, metrics) = "RED"
<1>1. PICK F : F = fired(active_rules, metrics)
    OBVIOUS
<1>2. PICK A : A = actionable(active_rules, metrics)
    OBVIOUS
<1>3. F \subseteq DOMAIN active_rules /\ A = {q \in F : ~\E other \in F : supersedes(other, q)}
    BY <1>1, <1>2 DEF fired, actionable
<1>4. r \in F
  <2>1. evaluate_rule(active_rules[r], metrics)
      BY AsShipped DEF Fires, evaluate_rule
  <2> QED BY <1>1, <2>1 DEF fired
<1>5. PICK q \in A : q \in RedRules
  <2>1. CASE r \in A
      BY <2>1
  <2>2. CASE r \notin A
    <3>1. PICK other \in F : supersedes(other, r)
        BY <1>3, <1>4, <2>2
    <3>2. other = "EMI_OVERDUE_90_PLUS"
        BY <3>1, Ranks
    <3>3. other \in A
        BY <1>3, <3>1, <3>2, Ranks
    <3> QED BY <3>2, <3>3 DEF RedRules
  <2> QED BY <2>1, <2>2
<1>6. active_rules[q].severity = "RED"
  <2>1. q \in DOMAIN active_rules
      BY <1>3, <1>5
  <2>2. default_rules[q].severity = "RED"
      BY <1>5, <2>1, AsShipped, ShippedFacts DEF Shipped
  <2> QED BY <2>1, <2>2, AsShipped
<1>7. \E x \in A : active_rules[x].severity = "RED"
    BY <1>5, <1>6
<1> QED BY <1>2, <1>7 DEF loan_risk_status, WorstOf

\* Tables that a vehicle's days may be in.
IsLog(rows) == DOMAIN rows \subseteq Int /\ \A d \in DOMAIN rows : rows[d].daily_km \in Nat

\* A mean of days at zero is zero, one of sixty days at most of which one ran 0.30 km is not.
LEMMA Means ==
    ASSUME NEW f, NEW days, IsFiniteSet(days), days # {}, \A d \in days : f[d] \in Nat
    PROVE  /\ (\A d \in days : f[d] = 0) => Mean(f, days) = {0}
           /\ (Cardinality(days) <= 60 /\ \E d \in days : f[d] >= 30) =>
                 \E b \in Nat : b >= 1 /\ Mean(f, days) = {b}
<1>1. PICK n : n = Cardinality(days)
    OBVIOUS
<1>2. n \in Nat /\ n >= 1
    BY <1>1, FS_CardinalityType, FS_EmptySet
<1>3. PICK s : s = SumFunctionOnSet(f, days)
    OBVIOUS
<1>4. Mean(f, days) = {HalfUp(s, n)}
    BY <1>1, <1>3 DEF Mean
<1>5. ASSUME \A d \in days : f[d] = 0
      PROVE  Mean(f, days) = {0}
  <2>1. s = 0
      BY <1>3, <1>5, SumZero
  <2>2. (2 * 0 + n) \div (2 * n) = 0
      BY <1>2
  <2>3. HalfUp(s, n) = 0
      BY <2>1, <2>2 DEF HalfUp
  <2> QED BY <1>4, <2>3
<1>6. ASSUME Cardinality(days) <= 60, NEW d \in days, f[d] >= 30
      PROVE  \E b \in Nat : b >= 1 /\ Mean(f, days) = {b}
  <2>1. s \in Nat /\ f[d] \in Nat /\ f[d] <= s
      BY <1>3, SumNat
  <2>2. s >= 30 /\ n <= 60
      BY <1>1, <1>6, <2>1
  <2>3. PICK b : b = (2 * s + n) \div (2 * n)
      OBVIOUS
  <2>4. b \in Nat /\ b >= 1
    <3>1. PICK m : m = 2 * n
        OBVIOUS
    <3>2. PICK t : t = 2 * s + n
        OBVIOUS
    <3>3. m \in Nat /\ m >= 1 /\ t \in Nat /\ t >= m
        BY <1>2, <2>1, <2>2, <3>1, <3>2
    <3>4. t \div m \in Int /\ t \div m >= 1
        BY <3>3
    <3> QED BY <2>3, <3>1, <3>2, <3>4
  <2>5. HalfUp(s, n) = b
      BY <2>1, <2>3 DEF HalfUp
  <2> QED BY <1>4, <2>4, <2>5
<1> QED BY <1>5, <1>6

\* The change from some use to none is a fall of a hundred percent.
LEMMA FallToNothing ==
    ASSUME NEW b \in Nat, b >= 1
    PROVE  PctChange({0}, {b}) = {-10000}
<1>1. (10000 * b) \div b = 10000
    BY SMT
<1>2. 10000 * (0 - b) = -(10000 * b)
    OBVIOUS
<1>3. -(-(10000 * b)) = 10000 * b
    OBVIOUS
<1>4. Above(10000 * (0 - b), b) = -10000
    BY <1>1, <1>2, <1>3 DEF Above
<1>5. safe_div(Above, 10000 * (0 - b), b) = {-10000}
    BY <1>4 DEF safe_div
<1> QED BY <1>5 DEF PctChange

\* The days of a window, counted back from the business date.
LEMMA WindowFacts ==
    ASSUME NEW rows, DOMAIN rows \subseteq Int, NEW asOf \in Int,
           NEW from \in Nat, NEW to \in Nat, from <= to, to <= 90
    PROVE  /\ IsFiniteSet(Window(rows, asOf, from, to))
           /\ Cardinality(Window(rows, asOf, from, to)) <= to - from
           /\ \A k \in from..(to - 1) :
                 asOf - k \in DOMAIN rows => asOf - k \in Window(rows, asOf, from, to)
           /\ \A d \in Window(rows, asOf, from, to) :
                 d \in DOMAIN rows /\ asOf - d \in from..(to - 1)
<1>1. PICK W : W = Window(rows, asOf, from, to)
    OBVIOUS
<1>2. W = {d \in DOMAIN rows : /\ asOf - 90 <= d /\ d <= asOf
                               /\ from <= asOf - d /\ asOf - d < to}
    BY <1>1 DEF Window, Series, BASELINE_END_DAYS
<1>3. PICK lo, hi : lo = asOf - to + 1 /\ hi = asOf - from
    OBVIOUS
<1>4. W \subseteq lo..hi /\ lo \in Int /\ hi \in Int /\ hi - lo + 1 = to - from
    BY <1>2, <1>3
<1>5. IsFiniteSet(lo..hi) /\ Cardinality(lo..hi) <= to - from
  <2>1. IsFiniteSet(lo..hi) /\ Cardinality(lo..hi) = IF lo > hi THEN 0 ELSE hi - lo + 1
      BY <1>4, FS_Interval
  <2> QED BY <1>4, <2>1
<1>6. IsFiniteSet(W) /\ Cardinality(W) <= Cardinality(lo..hi)
    BY <1>4, <1>5, FS_Subset
<1>7. Cardinality(W) <= to - from
    BY <1>4, <1>5, <1>6, FS_CardinalityType
<1>8. \A k \in from..(to - 1) : asOf - k \in DOMAIN rows => asOf - k \in W
    BY <1>2
<1>9. ASSUME NEW d \in W
      PROVE  d \in DOMAIN rows /\ asOf - d \in from..(to - 1)
    BY <1>2, <1>9
<1> QED BY <1>1, <1>6, <1>7, <1>8, <1>9

\* The days that moved, at least as many as those of them that are a week old.
LEMMA CountedBack ==
    ASSUME NEW rows, DOMAIN rows \subseteq Int, NEW health, NEW asOf \in Int
    PROVE  Cardinality({k \in 7..29 : Moved(rows, asOf - k)})
               <= derive(rows, health, asOf).active_days_30d
<1>1. PICK K : K = {k \in 7..29 : Moved(rows, asOf - k)}
    OBVIOUS
<1>2. PICK A : A = {d \in Window(rows, asOf, 0, LONG_WINDOW_DAYS) : Moved(rows, d)}
    OBVIOUS
<1>3. /\ \A k \in 0..29 : asOf - k \in DOMAIN rows =>
            asOf - k \in Window(rows, asOf, 0, LONG_WINDOW_DAYS)
      /\ IsFiniteSet(Window(rows, asOf, 0, LONG_WINDOW_DAYS))
  <2>1. 30 \in Nat /\ 0 \in Nat /\ 0 <= 30 /\ 30 <= 90 /\ 30 - 1 = 29 /\ LONG_WINDOW_DAYS = 30
      BY DEF LONG_WINDOW_DAYS
  <2> QED BY <2>1, WindowFacts
<1>4. IsFiniteSet(A)
    BY <1>2, <1>3, FS_Subset
<1>5. PICK B : B = {asOf - k : k \in K}
    OBVIOUS
<1>6. B \subseteq A
    BY <1>1, <1>2, <1>3, <1>5 DEF Moved
<1>7. IsFiniteSet(B) /\ Cardinality(B) <= Cardinality(A)
    BY <1>4, <1>6, FS_Subset
<1>8. Cardinality(K) <= Cardinality(B)
  <2>1. PICK f : f = [d \in B |-> asOf - d]
      OBVIOUS
  <2>2. K \subseteq Int
      BY <1>1
  <2>3. f \in [B -> K] /\ \A k \in K : asOf - k \in B /\ f[asOf - k] = k
      BY <1>5, <2>1, <2>2
  <2>4. f \in Surjection(B, K)
      BY <2>3 DEF Surjection
  <2> QED BY <1>7, <2>4, FS_Surjection
<1>9. Cardinality(K) <= Cardinality(A)
  <2>1. Cardinality(A) \in Nat /\ Cardinality(B) \in Nat
      BY <1>4, <1>7, FS_CardinalityType
  <2>2. IsFiniteSet(K)
    <3>1. IsFiniteSet(7..29)
      <4>1. 7 \in Int /\ 29 \in Int
          OBVIOUS
      <4> QED BY <4>1, FS_Interval
    <3>2. K \subseteq 7..29
        BY <1>1
    <3> QED BY <3>1, <3>2, FS_Subset
  <2>3. Cardinality(K) \in Nat
      BY <2>2, FS_CardinalityType
  <2> QED BY <1>7, <1>8, <2>1, <2>3
<1> QED BY <1>1, <1>2, <1>9 DEF derive

\* A week of days that are at zero or absent: the last week's mean is zero, or there is no row of
\* that week at all and the last one is a week old.
LEMMA WeekStill ==
    ASSUME NEW rows, IsLog(rows), NEW health, NEW asOf \in Int,
           \A k \in 0..6 : ~Moved(rows, asOf - k),
           NEW j \in 30..89, asOf - j \in DOMAIN rows, rows[asOf - j].daily_km >= 30
    PROVE  LET s == derive(rows, health, asOf)
           IN  \/ /\ s.avg_daily_km_7d = {0}
                  /\ \E b \in Nat : b >= 1 /\ s.baseline_daily_km = {b}
               \/ s.days_since_last_telemetry \in Nat /\ s.days_since_last_telemetry >= 7
<1>1. PICK Km : Km = [d \in DOMAIN rows |-> rows[d].daily_km]
    OBVIOUS
<1>2. PICK week : week = Window(rows, asOf, 0, SHORT_WINDOW_DAYS)
    OBVIOUS
<1>3. PICK base : base = Window(rows, asOf, BASELINE_START_DAYS, BASELINE_END_DAYS)
    OBVIOUS
<1>4. PICK s : s = derive(rows, health, asOf)
    OBVIOUS
<1>5. s.avg_daily_km_7d = Mean(Km, week) /\ s.baseline_daily_km = Mean(Km, base)
    BY <1>1, <1>2, <1>3, <1>4 DEF derive
<1>6. DOMAIN rows \subseteq Int /\ \A d \in DOMAIN rows : Km[d] \in Nat /\ Km[d] = rows[d].daily_km
    BY <1>1 DEF IsLog
<1>7. /\ IsFiniteSet(week)
      /\ \A k \in 0..6 : asOf - k \in DOMAIN rows => asOf - k \in week
      /\ \A d \in week : d \in DOMAIN rows /\ asOf - d \in 0..6
  <2>1. PICK from, to : from = 0 /\ to = 7
      OBVIOUS
  <2>2. /\ from \in Nat /\ to \in Nat /\ from <= to /\ to <= 90 /\ to - 1 = 6
        /\ week = Window(rows, asOf, from, to)
      BY <1>2, <2>1 DEF SHORT_WINDOW_DAYS
  <2>3. from..(to - 1) = 0..6
      BY <2>1
  <2>4. PICK days : days = Window(rows, asOf, from, to)
      OBVIOUS
  <2>5. /\ IsFiniteSet(days)
        /\ \A k \in from..(to - 1) : asOf - k \in DOMAIN rows => asOf - k \in days
        /\ \A d \in days : d \in DOMAIN rows /\ asOf - d \in from..(to - 1)
    <3>1. from \in Nat /\ to \in Nat /\ from <= to /\ to <= 90 /\ DOMAIN rows \subseteq Int
        BY <1>6, <2>2
    <3> QED BY <2>4, <3>1, WindowFacts
  <2> QED BY <2>2, <2>3, <2>4, <2>5
<1>8. /\ IsFiniteSet(base) /\ Cardinality(base) <= 60 /\ asOf - j \in base
      /\ \A d \in base : d \in DOMAIN rows
  <2>1. PICK from, to : from = 30 /\ to = 90
      OBVIOUS
  <2>2. /\ from \in Nat /\ to \in Nat /\ from <= to /\ to <= 90 /\ to - from = 60
        /\ base = Window(rows, asOf, from, to)
      BY <1>3, <2>1 DEF BASELINE_START_DAYS, BASELINE_END_DAYS
  <2>3. j \in from..(to - 1)
      BY <2>1
  <2>4. PICK days : days = Window(rows, asOf, from, to)
      OBVIOUS
  <2>5. /\ IsFiniteSet(days) /\ Cardinality(days) <= to - from
        /\ \A k \in from..(to - 1) : asOf - k \in DOMAIN rows => asOf - k \in days
        /\ \A d \in days : d \in DOMAIN rows
    <3>1. from \in Nat /\ to \in Nat /\ from <= to /\ to <= 90 /\ DOMAIN rows \subseteq Int
        BY <1>6, <2>2
    <3> QED BY <2>4, <3>1, WindowFacts
  <2> QED BY <2>2, <2>3, <2>4, <2>5
<1>9. ASSUME week # {}
      PROVE  s.avg_daily_km_7d = {0} /\ \E b \in Nat : b >= 1 /\ s.baseline_daily_km = {b}
  <2>1. ASSUME NEW d \in week PROVE Km[d] = 0
    <3>1. PICK k \in 0..6 : d = asOf - k
      <4>1. d \in Int /\ asOf - d \in 0..6
          BY <1>6, <1>7
      <4>2. d = asOf - (asOf - d)
          BY <4>1
      <4> QED BY <4>1, <4>2
    <3>2. d \in DOMAIN rows /\ ~Moved(rows, d)
        BY <1>7, <3>1
    <3> QED BY <1>6, <3>2 DEF Moved
  <2>2. \A d \in week : Km[d] \in Nat
      BY <2>1
  <2>3. Mean(Km, week) = {0}
      BY <1>7, <1>9, <2>1, <2>2, Means
  <2>4. Km[asOf - j] >= 30
      BY <1>6
  <2>5. /\ base # {} /\ \A d \in base : Km[d] \in Nat
        /\ \E d \in base : Km[d] >= 30
      BY <1>6, <1>8, <2>4
  <2>6. \E b \in Nat : b >= 1 /\ Mean(Km, base) = {b}
      BY <1>8, <2>5, Means
  <2> QED BY <1>5, <2>3, <2>6
<1>10. ASSUME week = {}
       PROVE  s.days_since_last_telemetry \in Nat /\ s.days_since_last_telemetry >= 7
  <2>1. PICK days : days = Series(rows, asOf)
      OBVIOUS
  <2>2. days = {d \in DOMAIN rows : asOf - 90 <= d /\ d <= asOf}
      BY <2>1 DEF Series, BASELINE_END_DAYS
  <2>3. days \subseteq Int /\ \A d \in days : d <= asOf
      BY <1>6, <2>2
  <2>4. asOf - j \in days
      BY <1>6, <2>2
  <2>5. Max(days) \in days
      BY <2>3, <2>4, MaxOfBounded
  <2>6. asOf - Max(days) \in Nat
    <3>1. Max(days) \in Int /\ Max(days) <= asOf
        BY <2>3, <2>5
    <3> QED BY <3>1
  <2>7. asOf - Max(days) \notin 0..6
    <3>1. PICK k : k = asOf - Max(days)
        OBVIOUS
    <3>2. Max(days) = asOf - k /\ Max(days) \in DOMAIN rows
        BY <2>2, <2>3, <2>5, <3>1
    <3> QED BY <1>7, <1>10, <3>1, <3>2
  <2>8. s.days_since_last_telemetry = asOf - Max(days)
      BY <1>4, <2>1, <2>4 DEF derive
  <2> QED BY <2>6, <2>7, <2>8
<1> QED BY <1>4, <1>9, <1>10

\* What the rules read of a snapshot's use and of its age.
LEMMA StandstillMetrics ==
    ASSUME NEW row, NEW s
    PROVE  /\ Metrics(row, {s})["USAGE_CHANGE_PCT"] =
                 PctChange(s.avg_daily_km_7d, s.baseline_daily_km)
           /\ Metrics(row, {s})["ACTIVE_DAYS_30D"] = {100 * s.active_days_30d}
           /\ Metrics(row, {s})["DAYS_SINCE_TELEMETRY"] = {100 * s.days_since_last_telemetry}
<1>1. PICK x : x = LoanSnapshotRow(row, {s})
    OBVIOUS
<1>2. /\ x.avg_daily_km_7d = s.avg_daily_km_7d /\ x.baseline_daily_km = s.baseline_daily_km
      /\ x.active_days_30d = {s.active_days_30d}
      /\ x.days_since_last_telemetry = {s.days_since_last_telemetry}
    BY <1>1 DEF LoanSnapshotRow
<1>3. Metrics(row, {s}) = build_metric_snapshot(x)
    BY <1>1 DEF Metrics
<1>4. /\ build_metric_snapshot(x)["USAGE_CHANGE_PCT"] =
             PctChange(x.avg_daily_km_7d, x.baseline_daily_km)
      /\ build_metric_snapshot(x)["ACTIVE_DAYS_30D"] = Count(x.active_days_30d)
      /\ build_metric_snapshot(x)["DAYS_SINCE_TELEMETRY"] = Count(x.days_since_last_telemetry)
    BY DEF build_metric_snapshot
<1>5. \A n : Count({n}) = {100 * n}
    BY DEF Count
<1> QED BY <1>2, <1>3, <1>4, <1>5

\* A vehicle that stands still fires one of the two rules: it reports its standstill, and its use
\* has collapsed, or it is silent.
LEMMA StandstillFires ==
    ASSUME NEW rows, IsLog(rows), NEW health, NEW asOf \in Int, NEW row,
           \A k \in 0..6 : ~Moved(rows, asOf - k),
           Cardinality({k \in 7..29 : Moved(rows, asOf - k)}) >= 3,
           NEW j \in 30..89, asOf - j \in DOMAIN rows, rows[asOf - j].daily_km >= 30
    PROVE  LET metrics == Metrics(row, {derive(rows, health, asOf)})
           IN  Fires("USAGE_COLLAPSE", metrics) \/ Fires("TELEMETRY_SILENT_5D", metrics)
<1>1. PICK s : s = derive(rows, health, asOf)
    OBVIOUS
<1>2. PICK metrics : metrics = Metrics(row, {s})
    OBVIOUS
<1>3. /\ metrics["USAGE_CHANGE_PCT"] = PctChange(s.avg_daily_km_7d, s.baseline_daily_km)
      /\ metrics["ACTIVE_DAYS_30D"] = {100 * s.active_days_30d}
      /\ metrics["DAYS_SINCE_TELEMETRY"] = {100 * s.days_since_last_telemetry}
    BY <1>2, StandstillMetrics
<1>4. s.active_days_30d \in Nat /\ s.active_days_30d >= 3
  <2>1. PICK n : n = Cardinality({k \in 7..29 : Moved(rows, asOf - k)})
      OBVIOUS
  <2>2. s.active_days_30d \in Nat /\ n <= s.active_days_30d
      BY <1>1, <2>1, ActiveDays, CountedBack DEF IsLog
  <2>3. n \in Nat
    <3>1. IsFiniteSet(7..29)
      <4>1. 7 \in Int /\ 29 \in Int
          OBVIOUS
      <4> QED BY <4>1, FS_Interval
    <3>2. {k \in 7..29 : Moved(rows, asOf - k)} \subseteq 7..29
        OBVIOUS
    <3> QED BY <2>1, <3>1, <3>2, FS_Subset, FS_CardinalityType
  <2> QED BY <2>1, <2>2, <2>3
<1>5. CASE \E b \in Nat : b >= 1 /\ s.avg_daily_km_7d = {0} /\ s.baseline_daily_km = {b}
  <2>1. metrics["USAGE_CHANGE_PCT"] = {-10000}
      BY <1>3, <1>5, FallToNothing
  <2>2. \E v \in metrics["USAGE_CHANGE_PCT"] : v <= -5000
      BY <2>1
  <2>3. \E v \in metrics["ACTIVE_DAYS_30D"] : v >= 300
      BY <1>3, <1>4
  <2>4. Fires("USAGE_COLLAPSE", metrics)
      BY <2>2, <2>3, StandstillRules
  <2> QED BY <1>1, <1>2, <2>4
<1>6. CASE s.days_since_last_telemetry \in Nat /\ s.days_since_last_telemetry >= 7
  <2>1. \E v \in metrics["DAYS_SINCE_TELEMETRY"] : v >= 500
      BY <1>3, <1>6
  <2>2. Fires("TELEMETRY_SILENT_5D", metrics)
      BY <2>1, StandstillRules
  <2> QED BY <1>1, <1>2, <2>2
<1> QED BY <1>1, <1>5, <1>6, WeekStill

\* Every vehicle's table is one of days that ran nothing or something, never less.
Logged == \A l \in Loan : IsLog(telemetry[l])

\* The tables stay so: what a pass stores is plausible or is what there was.
LEMMA LoggedHolds == Spec => []Logged
<1>1. Init => Logged
    BY DayAssumption, HistoryAssumption DEF Init, Logged, IsLog
<1>2. ASSUME IInv, Dated, Logged, [Next]_vars PROVE Logged'
  <2>1. ASSUME NEW w \in Worker, CommitNightly(w)
        PROVE  Logged'
    <3>1. PICK r : r = serving[w]
        OBVIOUS
    <3>2. r.day \in Int /\ r.answer \in [Loan -> Answers]
      <4>1. r.op = "reviewed" /\ Request(r)
          BY <1>2, <2>1, <3>1 DEF CommitNightly, IInv, Typed
      <4> QED BY <1>2, <3>1, <4>1 DEF Dated, Request
    <3>3. telemetry' = [l \in Loan |->
              IF l \in r.targets THEN UpsertTelemetry(telemetry[l], r.day, r.answer[l])
              ELSE telemetry[l]]
        BY <2>1, <3>1 DEF CommitNightly
    <3>4. ASSUME NEW l \in Loan
          PROVE  IsLog(telemetry'[l])
      <4>1. PICK rows, good, day : rows = telemetry[l] /\ good = Plausible(r.answer[l]) /\ day = r.day
          OBVIOUS
      <4>2. telemetry'[l] = Upsert(rows, day, good) \/ telemetry'[l] = rows
          BY <3>3, <4>1 DEF UpsertTelemetry
      <4>3. \A x \in good : x.daily_km \in Nat
        <5>1. r.answer[l] \in Answers
            BY <3>2
        <5> QED BY <4>1, <5>1, HistoryAssumption DEF Plausible, PlausibleTelemetry
      <4>4. good # None => (CHOOSE x \in good : TRUE) \in good
          BY DEF None
      <4>5. IsLog(rows) /\ day \in Int
          BY <1>2, <3>2, <4>1 DEF Logged
      <4>6. ASSUME NEW d \in DOMAIN Upsert(rows, day, good)
            PROVE  d \in Int /\ Upsert(rows, day, good)[d].daily_km \in Nat
        <5>1. Upsert(rows, day, good)[d] =
                  IF d = day /\ good # None THEN CHOOSE x \in good : TRUE ELSE rows[d]
            BY DEF Upsert
        <5>2. d \in DOMAIN rows \/ (d = day /\ good # None)
            BY DEF Upsert, None
        <5> QED BY <4>3, <4>4, <4>5, <5>1, <5>2 DEF IsLog
      <4>7. IsLog(Upsert(rows, day, good))
          BY <4>6 DEF IsLog
      <4> QED BY <4>2, <4>5, <4>7
    <3> QED BY <3>4 DEF Logged
  <2>2. CASE UNCHANGED telemetry
      BY <1>2, <2>2 DEF Logged
  <2>3. ASSUME NEW w \in Worker,
               \/ BeginEvaluation(w) \/ CommitEvaluation(w)
               \/ Work(w) \/ CommitWork(w) \/ Abort(w)
               \/ \E answer \in [Loan -> Answers] : BeginNightly(w, answer)
               \/ EvaluateNightly(w)
        PROVE  UNCHANGED telemetry
      BY <2>3 DEF BeginEvaluation, CommitEvaluation, Work, Acknowledge, StartWork, Resolve,
                  Assign, Escalate, BeginWork, CommitWork, Abort, BeginNightly, EvaluateNightly
  <2>4. (\E l \in Loan : Pay(l)) \/ Tick \/ Administer => UNCHANGED telemetry
      BY DEF Pay, Tick, Administer
  <2>5. UNCHANGED vars => UNCHANGED telemetry
      BY DEF vars
  <2> QED BY <1>2, <2>1, <2>2, <2>3, <2>4, <2>5 DEF Next
<1> QED BY <1>1, <1>2, Invariant, DatedHolds, PTL DEF Spec

\* No vehicle that stands still goes unnoticed by a pass, for any history, any answers of the
\* provider and whatever an administrator has switched but the two rules: it cannot stand still
\* without either reporting so or falling silent, and both are red.
THEOREM StandstillHolds == Spec => []StandstillNoticed
<1>1. ASSUME IInv, Dated, Logged PROVE StandstillNoticed
  <2>1. SUFFICES ASSUME fresh # Nothing,
                        {"USAGE_COLLAPSE", "TELEMETRY_SILENT_5D"} \subseteq DOMAIN active_rules,
                        NEW l \in Loan, Active(l), StandingFor(l, 7),
                        Cardinality({k \in 7..29 : Moved(telemetry[l], today - k)}) >= 3,
                        NEW j \in 30..89, Ran(l, today - j)
                 PROVE  loans[l].risk_status = "RED"
      BY DEF StandstillNoticed
  <2>2. SettledFor(l, fresh.answer[l])
      BY <1>1, <2>1 DEF IInv, Settled, Book
  <2>3. PICK metrics : metrics = Metrics(loans[l], snapshots[l])
      OBVIOUS
  <2>4. /\ loans[l].risk_status = loan_risk_status(active_rules, metrics)
        /\ snapshots[l] = {derive(telemetry[l], battery[l], today)}
      BY <2>2, <2>3 DEF SettledFor
  <2>5. \A k \in 0..6 : ~Moved(telemetry[l], today - k)
    <3>1. 7 - 1 = 6
        OBVIOUS
    <3> QED BY <2>1, <3>1 DEF StandingFor
  <2>6. IsLog(telemetry[l]) /\ today \in Int
      BY <1>1 DEF Logged, Dated
  <2>7. today - j \in DOMAIN telemetry[l] /\ telemetry[l][today - j].daily_km >= 30
      BY <2>1 DEF Ran
  <2>8. Fires("USAGE_COLLAPSE", metrics) \/ Fires("TELEMETRY_SILENT_5D", metrics)
      BY <2>1, <2>3, <2>4, <2>5, <2>6, <2>7, StandstillFires
  <2>9. {"USAGE_COLLAPSE", "TELEMETRY_SILENT_5D"} \subseteq RedRules
      BY DEF RedRules
  <2> QED BY <2>1, <2>4, <2>8, <2>9, RedShown
<1> QED BY <1>1, Invariant, DatedHolds, LoggedHolds, PTL
===============================================================================
