------------------------------ MODULE Monitoring ------------------------------
(***************************************************************************)
(* The early warnings: the nightly jobs (app/services/servicing_jobs.py),  *)
(* the evaluation of the rules and the officers' work on the alerts        *)
(* (app/services/alert.py, app/api/routers/alerts.py), and the switches of *)
(* the rules (app/services/admin.py).  One loan, one vehicle.              *)
(*                                                                         *)
(* What runs over alerts is two steps, as in Sessions: read, then write    *)
(* and commit the columns that changed.  The nightly pass is three: its    *)
(* first three jobs read the days and the arrears, its last two read again *)
(* and evaluate, and it commits, once.  Arrears come from the schedule,    *)
(* which payments and the passing of days change: Servicing says how, here *)
(* it may show any of Arrears.  Activities and audit rows, only appended,  *)
(* are left out, and so are the alerts' stamps, counts and evidence.       *)
(***************************************************************************)
EXTENDS RiskRules, Telemetry, SequencesExt, UnitOfWork

CONSTANTS
    Loan, Worker, Officer, NoOfficer,
    Seeded,          \* the rules that have a row in risk_rules
    Switched,        \* the ones an administrator touches
    Arrears,         \* what a schedule may show
    Histories,       \* the telemetry on file at the start
    Answers,         \* what a provider may answer for a day: a record or None
    Today0, Nights,  \* bounds: the business dates are Today0..Today0 + Nights
    MaxEvents        \* bound: requests, payments and days

ASSUME SeededAssumption == Switched \subseteq Seeded /\ Seeded \subseteq RuleCode
ASSUME ArrearsAssumption ==
    Arrears \subseteq [days_past_due : Nat, installments_overdue : Nat, overdue_amount : Nat]
ASSUME OfficerAssumption == NoOfficer \notin Officer

\* The loans on file are finitely many.
ASSUME LoanAssumption == IsFiniteSet(Loan)

\* Business dates, and days on file, are whole days.
ASSUME DayAssumption == Today0 \in Int /\ \A h \in Histories : DOMAIN h \subseteq Int

\* No row on file has run less than nothing (ck_tel_km); an answer may claim anything.
ASSUME HistoryAssumption ==
    /\ \A h \in Histories : \A d \in DOMAIN h : h[d].daily_km \in Nat
    /\ \A a \in Answers : \A r \in a : r.daily_km \in Int

VARIABLES
    today,
    schedule,    \* schedule[l]: the arrears the loan's schedule shows today
    telemetry, battery,   \* the tables, per loan's vehicle
    snapshots,   \* snapshots[l]: the latest row derived, if any
    loans,       \* loans[l]: the columns the rules read or write
    rules,       \* risk_rules
    alerts,
    job_runs,    \* the successful runs; a failed one is rolled back with its row
    serving,
    events,      \* auxiliary: events counted for MaxEvents
    overlapped,  \* auxiliary: alerts written while another request held a copy
    outdated,    \* auxiliary: the passes under way of which something read has been written
    fresh        \* auxiliary: the pass, not outdated, that nothing has followed, if any

vars == <<today, schedule, telemetry, battery, snapshots, loans, rules, alerts, job_runs,
          serving, events, overlapped, outdated, fresh>>

AlertStatus == {"OPEN", "ACKNOWLEDGED", "IN_PROGRESS", "RESOLVED", "FALSE_POSITIVE",
                "ESCALATED", "SUPERSEDED"}
LIVE_STATUSES == {"OPEN", "ACKNOWLEDGED", "IN_PROGRESS"}
CLOSED_ALERT_STATUSES == {"RESOLVED", "FALSE_POSITIVE", "SUPERSEDED"}

RiskAlert ==
    [loan_id : Loan, rule : Seeded, status : AlertStatus,
     assigned_to : Officer \cup {NoOfficer}]

LoanRow ==
    [status : {"ACTIVE", "CLOSED"}, days_past_due : Nat, installments_overdue : Nat,
     overdue_amount : Nat, risk_status : {"GREEN", "YELLOW", "RED"}]

\* risk_rules, of which auto_resolve and is_active are what changes.
RuleRow == [is_active : BOOLEAN, auto_resolve : BOOLEAN]

Job == {"ingest_telemetry", "rebuild_usage_baselines", "recompute_dpd_and_outstanding",
        "recompute_classification", "evaluate_risk_rules"}

Idle == [op |-> "idle"]
Nothing == [night |-> 0]

Active(l) == loans[l].status = "ACTIVE"
Book == {l \in Loan : Active(l)}
Live(row) == row.status \in LIVE_STATUSES

-------------------------------------------------------------------------------
(* Arrears.                                                                *)

\* engines/servicing.py, risk_status
TrafficLight(dpd) ==
    CASE dpd <= 0 -> "GREEN" [] 0 < dpd /\ dpd <= 30 -> "YELLOW" [] 30 < dpd -> "RED"

\* LoanService.refresh_position
Positioned(row, arrears) ==
    [row EXCEPT !.days_past_due = arrears.days_past_due,
                !.installments_overdue = arrears.installments_overdue,
                !.overdue_amount = arrears.overdue_amount,
                !.risk_status = TrafficLight(arrears.days_past_due)]

\* run_classification_update
Classified(row) == [row EXCEPT !.risk_status = TrafficLight(row.days_past_due)]

-------------------------------------------------------------------------------
(* Evaluation.                                                             *)

\* ConfigService.active_rules: without an active row, the shipped catalogue.
active_rules ==
    LET on == {r \in Seeded : rules[r].is_active}
    IN  IF on = {} THEN default_rules
        ELSE [r \in on |-> [default_rules[r] EXCEPT !.auto_resolve = rules[r].auto_resolve]]

\* _charging_baseline: a fall to nothing leaves no baseline to compute from.
ChargingChange(change) == {c \in change : c > -10000}

\* AlertService.build_snapshot.  The snapshot's table has no projected revenue and no count of
\* partial payments, so these are always unknown.
LoanSnapshotRow(row, snap) ==
    LET Of(f(_)) == UNION {f(s) : s \in snap}
    IN  [days_past_due |-> {row.days_past_due},
         consecutive_missed_emi |-> {row.installments_overdue},
         overdue_amount |-> {row.overdue_amount},
         partial_payment_count_90d |-> None,
         emi_amount |-> {100000},
         avg_daily_km_7d |-> Of(LAMBDA s : s.avg_daily_km_7d),
         baseline_daily_km |-> Of(LAMBDA s : s.baseline_daily_km),
         active_days_30d |-> Of(LAMBDA s : {s.active_days_30d}),
         zero_km_streak_days |-> Of(LAMBDA s : {s.zero_km_streak_days}),
         estimated_revenue_30d |-> Of(LAMBDA s : s.estimated_revenue_30d),
         projected_revenue_30d |-> None,
         charging_change |-> Of(LAMBDA s : ChargingChange(s.charging_change_percent)),
         latest_state_of_health |-> Of(LAMBDA s : s.latest_state_of_health),
         avg_route_deviation_percent |-> Of(LAMBDA s : s.avg_route_deviation_percent),
         days_since_last_telemetry |-> Of(LAMBDA s : {s.days_since_last_telemetry})]

Metrics(row, snap) == build_metric_snapshot(LoanSnapshotRow(row, snap))

LiveFor(table, l, r) ==
    {n \in DOMAIN table : table[n].loan_id = l /\ table[n].rule = r /\ Live(table[n])}

\* _create
NewAlert(l, r) ==
    [loan_id |-> l, rule |-> r, status |-> "OPEN", assigned_to |-> NoOfficer]

\* _close
Close(row, status) == [row EXCEPT !.status = status]

\* evaluate_rules, of the rules that have a row: one without is passed over.
Outcomes(catalogue, metrics) ==
    LET F == fired(catalogue, metrics)
    IN  [fired |-> F \cap Seeded,
         actionable |-> actionable(catalogue, metrics) \cap Seeded,
         cleared |-> {r \in (DOMAIN catalogue \cap Seeded) \ F : catalogue[r].auto_resolve}]

\* Faulty variant: an alert whose rule fires no more stays in the queue.
ReviewedKeeping(row, outcomes) ==
    IF Live(row) /\ row.rule \in outcomes.fired \ outcomes.actionable
    THEN Close(row, "SUPERSEDED") ELSE row

\* evaluate_loan, on an alert of the loan.
Reviewed(row, outcomes) ==
    IF ~Live(row) THEN row
    ELSE IF row.rule \in outcomes.fired \ outcomes.actionable THEN Close(row, "SUPERSEDED")
    ELSE IF row.rule \in outcomes.cleared THEN Close(row, "RESOLVED")
    ELSE row

\* evaluate_loan, on the rules that have no live alert: the alerts it raises.
Raised(table, l, outcomes) ==
    {NewAlert(l, r) : r \in {r \in outcomes.actionable : LiveFor(table, l, r) = {}}}

\* evaluate, of the loans in targets.
Evaluated(table, catalogue, targets, rows, snaps) ==
    LET OutcomesOf(l) == Outcomes(catalogue, Metrics(rows[l], snaps[l]))
        after == [n \in DOMAIN table |->
                     IF table[n].loan_id \in targets
                     THEN Reviewed(table[n], OutcomesOf(table[n].loan_id)) ELSE table[n]]
    IN  after \o SetToSeq(UNION {Raised(table, l, OutcomesOf(l)) : l \in targets})

Lit(catalogue, targets, rows, snaps) ==
    [l \in Loan |->
        IF l \notin targets THEN rows[l]
        ELSE [rows[l] EXCEPT !.risk_status =
                 loan_risk_status(catalogue, Metrics(rows[l], snaps[l]))]]

-------------------------------------------------------------------------------
(* Requests.                                                               *)

Init ==
    /\ today = Today0
    /\ schedule \in [Loan -> Arrears]
    /\ telemetry \in [Loan -> Histories]
    /\ battery = [l \in Loan |-> << >>]
    /\ snapshots = [l \in Loan |-> None]
    /\ loans = [l \in Loan |-> [status |-> "ACTIVE", days_past_due |-> 0,
                                installments_overdue |-> 0, overdue_amount |-> 0,
                                risk_status |-> "GREEN"]]
    /\ rules = [r \in Seeded |-> [is_active |-> TRUE, auto_resolve |-> TRUE]]
    /\ alerts = << >>
    /\ job_runs = {}
    /\ serving = [w \in Worker |-> Idle]
    /\ events = 0
    /\ overlapped = {}
    /\ outdated = {}
    /\ fresh = Nothing

\* The alerts of which a request holds a copy.
Held(w) ==
    CASE serving[w].op \in {"idle", "placed"} -> {}
      [] serving[w].op = "work" -> {serving[w].alert}
      [] serving[w].op \in {"evaluate", "reviewed"} -> DOMAIN serving[w].copy

NoteOverlap(others, written) ==
    overlapped' = overlapped \cup (written \cap UNION {Held(v) : v \in others})

Changed(new) == {n \in DOMAIN alerts : alerts[n] # new[n]}

\* uq_alert_open
Indexed(table) ==
    \A m, n \in DOMAIN table :
        (m # n /\ Live(table[m]) /\ Live(table[n]) /\ table[m].loan_id = table[n].loan_id)
            => table[m].rule # table[n].rule

StoreAlerts(others, new) ==
    /\ Indexed(new)
    /\ alerts' = new
    /\ NoteOverlap(others, Changed(new))

\* The passes that have gone through their first three jobs, or through all five.
Passes(stages) == {w \in Worker : serving[w].op \in stages}

\* What the passes in stages have read is written; the request over, if any, is done.
Outdate(stages, over) == outdated' = (outdated \cup Passes(stages)) \ over

\* A loan's row that a pass has flushed is locked until it commits.
Unlocked(others, rows) ==
    \A w \in others : serving[w].op = "reviewed" => serving[w].locked \cap rows = {}

StoreLoans(others, new) ==
    /\ Unlocked(others, {l \in Loan : new[l] # loans[l]})
    /\ loans' = new

\* The loans' rows once a request has written what it changed of them.
WrittenLoans(r) == [l \in Loan |-> Write(loans[l], r.old_loans[l], r.new_loans[l])]

\* POST /alerts/evaluate, of the active book or of one loan, whatever its status.
BeginEvaluation(w) ==
    /\ serving[w] = Idle
    /\ \E targets \in {Book} \cup {{l} : l \in Loan} :
          serving' = [serving EXCEPT ![w] =
             [op |-> "evaluate", copy |-> alerts,
              new |-> Evaluated(alerts, active_rules, targets, loans, snapshots),
              old_loans |-> loans, new_loans |-> Lit(active_rules, targets, loans, snapshots)]]
    /\ events < MaxEvents
    /\ events' = events + 1
    /\ UNCHANGED <<today, schedule, telemetry, battery, snapshots, loans, rules, alerts,
                   job_runs, overlapped, outdated, fresh>>

\* Alerts raised meanwhile have taken the numbers computed for ours.
StoreEvaluation(w) ==
    LET r == serving[w]
        n0 == Len(r.copy)
        merged == [n \in DOMAIN alerts |->
                      IF n <= n0 THEN Write(alerts[n], r.copy[n], r.new[n]) ELSE alerts[n]]
    IN  /\ Len(r.new) > n0 => Len(alerts) = n0
        /\ StoreAlerts(Worker \ {w}, merged \o SubSeq(r.new, n0 + 1, Len(r.new)))
        /\ StoreLoans(Worker \ {w}, WrittenLoans(r))
        /\ serving' = [serving EXCEPT ![w] = Idle]

CommitEvaluation(w) ==
    /\ serving[w].op = "evaluate"
    /\ StoreEvaluation(w)
    /\ Outdate({"reviewed"}, {})
    /\ fresh' = Nothing
    /\ UNCHANGED <<today, schedule, telemetry, battery, snapshots, rules, job_runs, events>>

ALLOWED_TRANSITIONS ==
    [OPEN |-> {"ACKNOWLEDGED", "IN_PROGRESS", "RESOLVED", "FALSE_POSITIVE", "ESCALATED"},
     ACKNOWLEDGED |-> {"IN_PROGRESS", "RESOLVED", "FALSE_POSITIVE", "ESCALATED"},
     IN_PROGRESS |-> {"RESOLVED", "FALSE_POSITIVE", "ESCALATED"},
     ESCALATED |-> {"IN_PROGRESS", "RESOLVED", "FALSE_POSITIVE"},
     RESOLVED |-> {}, FALSE_POSITIVE |-> {}, SUPERSEDED |-> {}]

\* Faulty variant: any status may be left.
MovesAny(row, target) == row.status # target

\* _require_transition
Moves(row, target) == target \in ALLOWED_TRANSITIONS[row.status]

BeginWork(w, n, row) ==
    /\ serving[w] = Idle
    /\ events < MaxEvents
    /\ events' = events + 1
    /\ serving' = [serving EXCEPT ![w] =
          [op |-> "work", alert |-> n, copy |-> alerts[n], new |-> row]]
    /\ UNCHANGED <<today, schedule, telemetry, battery, snapshots, loans, rules, alerts,
                   job_runs, overlapped, outdated, fresh>>

Acknowledge(w, n) ==
    /\ Moves(alerts[n], "ACKNOWLEDGED")
    /\ BeginWork(w, n, [alerts[n] EXCEPT !.status = "ACKNOWLEDGED"])

Assign(w, n, assignee) ==
    /\ alerts[n].status \notin CLOSED_ALERT_STATUSES
    /\ BeginWork(w, n, [alerts[n] EXCEPT !.assigned_to = assignee])

StartWork(w, n) ==
    /\ Moves(alerts[n], "IN_PROGRESS")
    /\ BeginWork(w, n, [alerts[n] EXCEPT !.status = "IN_PROGRESS"])

\* The assignee is optional.
Escalate(w, n, assignee) ==
    /\ Moves(alerts[n], "ESCALATED")
    /\ BeginWork(w, n, [alerts[n] EXCEPT !.status = "ESCALATED", !.assigned_to = assignee])

Resolve(w, n) ==
    \E status \in {"RESOLVED", "FALSE_POSITIVE"} :
        /\ Moves(alerts[n], status)
        /\ BeginWork(w, n, [alerts[n] EXCEPT !.status = status])

Work(w) ==
    \E n \in DOMAIN alerts, officer \in Officer :
        \/ Acknowledge(w, n) \/ StartWork(w, n) \/ Resolve(w, n)
        \/ Assign(w, n, officer)
        \/ Escalate(w, n, officer) \/ Escalate(w, n, alerts[n].assigned_to)

CommitWork(w) ==
    LET r == serving[w]
    IN  /\ r.op = "work"
        /\ StoreAlerts(Worker \ {w}, [alerts EXCEPT ![r.alert] = Write(@, r.copy, r.new)])
        /\ serving' = [serving EXCEPT ![w] = Idle]
        /\ Outdate({"reviewed"}, {})
        /\ fresh' = Nothing
        /\ UNCHANGED <<today, schedule, telemetry, battery, snapshots, loans, rules, job_runs,
                       events>>

\* A request that fails, or that an index refuses, is rolled back.
Abort(w) ==
    /\ serving[w] # Idle
    /\ serving' = [serving EXCEPT ![w] = Idle]
    /\ Outdate({}, {w})
    /\ UNCHANGED <<today, schedule, telemetry, battery, snapshots, loans, rules, alerts,
                   job_runs, events, overlapped, fresh>>

-------------------------------------------------------------------------------
(* The night, the days and the payments.                                   *)

\* _tracked, of jobs that succeed: a run takes the successful row of its date, or makes one.
Tracked(jobs, day) == job_runs \cup (jobs \X {day})

\* run_nightly, the first three jobs: the day's rows, what is derived from them, and the
\* positions.  Of two passes for a date the second waits for the run row of the first, or fails
\* on uq_job_success.
BeginNightly(w, answer) ==
    LET Derived(l) == derive(UpsertTelemetry(telemetry[l], today, answer[l]),
                             UpsertBattery(battery[l], today, answer[l]), today)
    IN  /\ serving[w] = Idle
        /\ \A v \in Passes({"placed", "reviewed"}) : serving[v].day # today
        /\ serving' = [serving EXCEPT ![w] =
              [op |-> "placed", day |-> today, answer |-> answer, targets |-> Book,
               snaps |-> [l \in Loan |-> IF l \in Book THEN {Derived(l)} ELSE snapshots[l]],
               old_loans |-> loans,
               new_loans |-> [l \in Loan |-> IF l \in Book THEN Positioned(loans[l], schedule[l])
                                             ELSE loans[l]]]]
        /\ UNCHANGED <<today, schedule, telemetry, battery, snapshots, loans, rules, alerts,
                       job_runs, events, overlapped, outdated, fresh>>

\* run_nightly, the last two jobs: each reads the active book again, the positions are flushed,
\* and the rules and the alerts are read as they are by now.
EvaluateNightly(w) ==
    LET r == serving[w]
        written == WrittenLoans(r)
        book == {l \in Loan : written[l].status = "ACTIVE"}
        rows == [l \in Loan |-> IF l \in book THEN Classified(written[l]) ELSE written[l]]
        flushed == {l \in Loan : rows[l] # loans[l]}
    IN  /\ r.op = "placed"
        /\ Unlocked(Worker \ {w}, flushed)
        /\ serving' = [serving EXCEPT ![w] =
              [op |-> "reviewed", day |-> r.day, answer |-> r.answer, targets |-> r.targets,
               snaps |-> r.snaps, locked |-> flushed, copy |-> alerts,
               new |-> Evaluated(alerts, active_rules, book, rows, r.snaps),
               old_loans |-> loans, new_loans |-> Lit(active_rules, book, rows, r.snaps)]]
        /\ UNCHANGED <<today, schedule, telemetry, battery, snapshots, loans, rules, alerts,
                       job_runs, events, overlapped, outdated, fresh>>

\* The commit of the pass.  The rows of the rules' snapshot are by date, and the latest is read.
CommitNightly(w) ==
    LET r == serving[w]
        Later(l) == \E s \in snapshots[l] : s.snapshot_date > r.day
    IN  /\ r.op = "reviewed"
        /\ StoreEvaluation(w)
        /\ telemetry' = [l \in Loan |->
              IF l \in r.targets THEN UpsertTelemetry(telemetry[l], r.day, r.answer[l])
              ELSE telemetry[l]]
        /\ battery' = [l \in Loan |->
              IF l \in r.targets THEN UpsertBattery(battery[l], r.day, r.answer[l])
              ELSE battery[l]]
        /\ snapshots' = [l \in Loan |->
              IF l \in r.targets /\ ~Later(l) THEN r.snaps[l] ELSE snapshots[l]]
        /\ job_runs' = Tracked(Job, r.day)
        /\ Outdate({"placed", "reviewed"}, {w})
        /\ fresh' = IF w \in outdated THEN Nothing ELSE [night |-> r.day, answer |-> r.answer]
        /\ UNCHANGED <<today, schedule, rules, events>>

\* A repayment refreshes the loan's position, or closes it when nothing is left.
Pay(l) ==
    /\ Active(l)
    /\ Unlocked(Worker, {l})
    /\ events < MaxEvents
    /\ events' = events + 1
    /\ \E a \in Arrears :
          /\ a.days_past_due < schedule[l].days_past_due
          /\ schedule' = [schedule EXCEPT ![l] = a]
          /\ \E status \in IF a.days_past_due = 0 THEN {"ACTIVE", "CLOSED"} ELSE {"ACTIVE"} :
                loans' = [loans EXCEPT ![l] = [Positioned(@, a) EXCEPT !.status = status]]
    /\ Outdate({"placed", "reviewed"}, {})
    /\ fresh' = Nothing
    /\ UNCHANGED <<today, telemetry, battery, snapshots, rules, alerts, job_runs, serving,
                   overlapped>>

\* A day passes: what is due grows older, and an installment may fall overdue.
Tick ==
    /\ today < Today0 + Nights
    /\ today' = today + 1
    /\ events < MaxEvents
    /\ events' = events + 1
    /\ \E later \in [Loan -> Arrears] :
          /\ \A l \in Loan :
                IF schedule[l].days_past_due = 0 THEN later[l].days_past_due \in {0, 1}
                ELSE later[l].days_past_due = schedule[l].days_past_due + 1
          /\ schedule' = later
    /\ Outdate({"placed", "reviewed"}, {})
    /\ fresh' = Nothing
    /\ UNCHANGED <<telemetry, battery, snapshots, loans, rules, alerts, job_runs, serving,
                   overlapped>>

\* AdminService.set_rule_enabled
SetRuleEnabled(r, enabled) ==
    /\ rules[r].is_active # enabled
    /\ rules' = [rules EXCEPT ![r].is_active = enabled]

\* AdminService.update_rule, of what is policy in a rule auto_resolve only.
UpdateRule(r, auto_resolve) == rules' = [rules EXCEPT ![r].auto_resolve = auto_resolve]

Administer ==
    /\ events < MaxEvents
    /\ events' = events + 1
    /\ \E r \in Switched, b \in BOOLEAN : SetRuleEnabled(r, b) \/ UpdateRule(r, b)
    /\ Outdate({"reviewed"}, {})
    /\ fresh' = Nothing
    /\ UNCHANGED <<today, schedule, telemetry, battery, snapshots, loans, alerts, job_runs,
                   serving, overlapped>>

Next ==
    \/ \E w \in Worker :
          \/ BeginEvaluation(w) \/ CommitEvaluation(w)
          \/ Work(w) \/ CommitWork(w) \/ Abort(w)
          \/ \E answer \in [Loan -> Answers] : BeginNightly(w, answer)
          \/ EvaluateNightly(w) \/ CommitNightly(w)
    \/ \E l \in Loan : Pay(l)
    \/ Tick
    \/ Administer

Spec == Init /\ [][Next]_vars

-------------------------------------------------------------------------------
(* Properties.                                                             *)

\* Types.  A vehicle's rows are never for a day to come (servicing_jobs.py:118-128).
TypeOK ==
    /\ today \in Today0..(Today0 + Nights)
    /\ schedule \in [Loan -> Arrears]
    /\ \A l \in Loan :
          /\ IsTable(telemetry[l], TelemetryRecord) /\ IsTable(battery[l], Int)
          /\ \A d \in DOMAIN telemetry[l] \cup DOMAIN battery[l] : d <= today
          /\ Cardinality(snapshots[l]) <= 1 /\ \A s \in snapshots[l] : IsSnapshot(s)
    /\ loans \in [Loan -> LoanRow]
    /\ rules \in [Seeded -> RuleRow]
    /\ alerts \in Seq(RiskAlert)
    /\ job_runs \subseteq Job \X (Today0..today)
    /\ overlapped \subseteq DOMAIN alerts
    /\ outdated \subseteq Passes({"placed", "reviewed"})
    /\ events \in 0..MaxEvents
    /\ \A w \in Worker : Held(w) \subseteq DOMAIN alerts

\* Nothing is worked, reassigned or reopened once closed (alert.py:58), but by a request that
\* had read the alert before it was closed.
ClosedStaysClosed ==
    [][\A n \in DOMAIN alerts :
          (alerts[n].status \in CLOSED_ALERT_STATUSES /\ n \notin overlapped')
              => alerts'[n] = alerts[n]]_vars

\* After a nightly pass the queue, the traffic light and the data agree, whatever requests and
\* passes that overlapped have left before: a rule in force that resolves itself has a live alert
\* if and only if it fires and none more intense does, and the loan is as bad as the worst of the
\* rules that fire.  A pass must for that have committed what it read: of one that was outdated
\* meanwhile nothing of the kind is true (servicing_jobs.py:188-203).
QueueMatchesRules ==
    fresh # Nothing =>
        \A l \in Loan : Active(l) =>
            LET metrics == Metrics(Positioned(loans[l], schedule[l]), snapshots[l])
                A == actionable(active_rules, metrics)
            IN  /\ loans[l].risk_status = WorstOf(active_rules, A)
                /\ \A r \in DOMAIN active_rules \cap Seeded :
                      active_rules[r].auto_resolve => (r \in A <=> LiveFor(alerts, l, r) # {})

\* A second nightly pass for the same date, with the same answers from the provider and nothing
\* done in between, changes nothing (servicing_jobs.py:6-8).
RerunChangesNothing ==
    [][(fresh # Nothing /\ fresh' = fresh)
          => UNCHANGED <<telemetry, battery, snapshots, loans, alerts, job_runs>>]_vars

\* Metrics on which more, or less, is always worse, with the values next to the shipped bounds.
Worsening ==
    [DAYS_PAST_DUE |-> <<0, 3000, 3100>>, ZERO_KM_STREAK |-> <<0, 600, 700>>,
     USAGE_CHANGE_PCT |-> <<0, -2000, -4000, -5000>>]

Worse(light) ==
    CASE light = "GREEN" -> {"GREEN", "YELLOW", "RED"}
      [] light = "YELLOW" -> {"YELLOW", "RED"}
      [] light = "RED" -> {"RED"}

\* The traffic light never improves as a loan's figures get worse one at a time: the bands of a
\* family meet, with no gap between a moderate rule and its severe one (risk_rules_v1.json:4).
\* Said of the figures a pass has left, when nothing is under way that could change them.
WorseIsNeverGreener ==
    (fresh # Nothing /\ \A w \in Worker : serving[w] = Idle) =>
        \A l \in Loan, m \in DOMAIN Worsening :
            LET metrics == Metrics(loans[l], snapshots[l])
                Light(v) == loan_risk_status(default_rules, [metrics EXCEPT ![m] = {v}])
                lights == {<<i, Light(Worsening[m][i])>> : i \in DOMAIN Worsening[m]}
            IN  \A a, b \in lights : a[1] < b[1] => b[2] \in Worse(a[2])

\* How long the vehicle has not moved, reported or not.
StandingFor(l, days) == \A k \in 0..(days - 1) : ~Moved(telemetry[l], today - k)

\* A day of 0.30 km: one of them among sixty days is a mean that is not rounded to nothing.
Ran(l, d) == d \in DOMAIN telemetry[l] /\ telemetry[l][d].daily_km >= 30

\* A vehicle that used to run, ran some days of the last 30 and has not moved for a week is
\* shown RED after the pass, whether it reports its standstill, falls silent, or does both by
\* turns, as long as the collapse of its use and its silence are both watched for.
StandstillNoticed ==
    (fresh # Nothing /\ {"USAGE_COLLAPSE", "TELEMETRY_SILENT_5D"} \subseteq DOMAIN active_rules) =>
        \A l \in Loan :
            (/\ Active(l) /\ StandingFor(l, 7)
             /\ Cardinality({k \in 7..29 : Moved(telemetry[l], today - k)}) >= 3
             /\ \E k \in 30..89 : Ran(l, today - k))
                => loans[l].risk_status = "RED"
===============================================================================
