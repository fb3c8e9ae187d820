------------------------------- MODULE RiskRules -------------------------------
(***************************************************************************)
(* The rule engine: app/risk.  Metrics, thresholds and percentages are in  *)
(* hundredths, as NUMERIC(_, 2) keeps them.  A metric that is unknown is   *)
(* None, and then no condition on it can hold.                             *)
(***************************************************************************)
EXTENDS Decimals, Sequences

-------------------------------------------------------------------------------
(* Conditions and rules.                                                   *)

RuleCondition(metric, operator, threshold) ==
    [metric_code |-> metric, operator |-> operator, threshold_value |-> 100 * threshold]

GT(metric, t) == RuleCondition(metric, "GT", t)
GTE(metric, t) == RuleCondition(metric, "GTE", t)
LT(metric, t) == RuleCondition(metric, "LT", t)
LTE(metric, t) == RuleCondition(metric, "LTE", t)

\* lo and hi in hundredths: upper bounds are often 0.01 below the next band.
BETWEEN(metric, lo, hi) ==
    [metric_code |-> metric, operator |-> "BETWEEN", threshold_value |-> lo,
     threshold_value_2 |-> hi]

\* EQ, NEQ and IN, which no shipped rule uses, are left out.
evaluate_condition(c, snapshot) ==
    \E v \in snapshot[c.metric_code] :
        \/ c.operator = "GT" /\ v > c.threshold_value
        \/ c.operator = "GTE" /\ v >= c.threshold_value
        \/ c.operator = "LT" /\ v < c.threshold_value
        \/ c.operator = "LTE" /\ v <= c.threshold_value
        \/ c.operator = "BETWEEN" /\ c.threshold_value <= v /\ v <= c.threshold_value_2

\* Every shipped rule has condition_logic ALL and resolves itself.
Rule(severity, priority, conditions) ==
    [severity |-> severity, priority |-> priority, conditions |-> conditions,
     auto_resolve |-> TRUE]

Red(priority, conditions) == Rule("RED", priority, conditions)
Yellow(priority, conditions) == Rule("YELLOW", priority, conditions)

-------------------------------------------------------------------------------
(* The shipped catalogue.                                                  *)

RepaymentRules ==
    [EMI_OVERDUE_30_PLUS |-> Red(10, {GT("DAYS_PAST_DUE", 30)}),
     EMI_MISSED_CONSECUTIVE |-> Red(11, {GTE("CONSECUTIVE_MISSED_EMI", 2)}),
     EMI_OVERDUE_90_PLUS |-> Red(12, {GT("DAYS_PAST_DUE", 90)}),
     EMI_OVERDUE_1_30 |-> Yellow(20, {BETWEEN("DAYS_PAST_DUE", 100, 3000)}),
     PARTIAL_PAYMENT_PATTERN |-> Yellow(25, {GTE("PARTIAL_PAYMENT_COUNT_90D", 2)}),
     OVERDUE_AMOUNT_MATERIAL |-> Yellow(26, {GTE("OVERDUE_AMOUNT", 50000)})]

\* Faulty variant: the bounds before the correction the catalogue's notes report.
UsageRulesUncorrected ==
    [VEHICLE_INACTIVE_7D |-> Red(15, {GTE("ZERO_KM_STREAK", 7)}),
     USAGE_COLLAPSE |-> Red(16, {LTE("USAGE_CHANGE_PCT", -50), GTE("ACTIVE_DAYS_30D", 3)}),
     ROUTE_ABANDONED |-> Red(17, {GTE("ROUTE_DEVIATION_PCT", 60)}),
     VEHICLE_INACTIVE_3D |-> Yellow(30, {BETWEEN("ZERO_KM_STREAK", 300, 600)}),
     USAGE_DROP_MODERATE |-> Yellow(40, {LTE("USAGE_CHANGE_PCT", -20), GT("USAGE_CHANGE_PCT", -35),
                                         GTE("ACTIVE_DAYS_30D", 5)}),
     LOW_ACTIVE_DAYS |-> Yellow(41, {LTE("ACTIVE_DAYS_30D", 15)}),
     ROUTE_DEVIATION_MODERATE |-> Yellow(42, {BETWEEN("ROUTE_DEVIATION_PCT", 3000, 5999)})]

UsageRules ==
    [VEHICLE_INACTIVE_7D |-> Red(15, {GTE("ZERO_KM_STREAK", 7)}),
     USAGE_COLLAPSE |-> Red(16, {LTE("USAGE_CHANGE_PCT", -50), GTE("ACTIVE_DAYS_30D", 3)}),
     ROUTE_ABANDONED |-> Red(17, {GTE("ROUTE_DEVIATION_PCT", 60)}),
     VEHICLE_INACTIVE_3D |-> Yellow(30, {BETWEEN("ZERO_KM_STREAK", 300, 600)}),
     USAGE_DROP_MODERATE |-> Yellow(40, {LTE("USAGE_CHANGE_PCT", -20), GT("USAGE_CHANGE_PCT", -50),
                                         GTE("ACTIVE_DAYS_30D", 5)}),
     LOW_ACTIVE_DAYS |-> Yellow(41, {LTE("ACTIVE_DAYS_30D", 15)}),
     ROUTE_DEVIATION_MODERATE |-> Yellow(42, {BETWEEN("ROUTE_DEVIATION_PCT", 3000, 5999)})]

RevenueRules ==
    [REVENUE_COLLAPSE |-> Red(18, {LTE("REVENUE_CHANGE_PCT", -40)}),
     REVENUE_DECLINE |-> Yellow(45, {LTE("REVENUE_CHANGE_PCT", -20), GT("REVENUE_CHANGE_PCT", -40)}),
     DSCR_BELOW_ONE |-> Yellow(46, {LT("DSCR_ACTUAL", 1)})]

BatteryRules ==
    [BATTERY_HEALTH_CRITICAL |-> Red(19, {LT("BATTERY_SOH", 70)}),
     BATTERY_HEALTH_LOW |-> Yellow(50, {BETWEEN("BATTERY_SOH", 7000, 7999)}),
     CHARGING_DROP_SEVERE |-> Yellow(51, {LTE("CHARGING_CHANGE_PCT", -60)}),
     CHARGING_DROP_MODERATE |-> Yellow(52, {LTE("CHARGING_CHANGE_PCT", -30),
                                            GT("CHARGING_CHANGE_PCT", -60)})]

DataQualityRules ==
    [TELEMETRY_SILENT_5D |-> Red(21, {GTE("DAYS_SINCE_TELEMETRY", 5)}),
     TELEMETRY_SILENT_2D |-> Yellow(60, {BETWEEN("DAYS_SINCE_TELEMETRY", 200, 400)})]

RuleCode ==
    UNION {DOMAIN RepaymentRules, DOMAIN UsageRules, DOMAIN RevenueRules, DOMAIN BatteryRules,
           DOMAIN DataQualityRules}

default_rules ==
    [r \in RuleCode |->
        CASE r \in DOMAIN RepaymentRules -> RepaymentRules[r]
          [] r \in DOMAIN UsageRules -> UsageRules[r]
          [] r \in DOMAIN RevenueRules -> RevenueRules[r]
          [] r \in DOMAIN BatteryRules -> BatteryRules[r]
          [] r \in DOMAIN DataQualityRules -> DataQualityRules[r]]

\* Ascending intensity.
FAMILIES ==
    [REPAYMENT_DELINQUENCY |-> <<"EMI_OVERDUE_1_30", "EMI_OVERDUE_30_PLUS", "EMI_OVERDUE_90_PLUS">>,
     VEHICLE_INACTIVITY |-> <<"VEHICLE_INACTIVE_3D", "VEHICLE_INACTIVE_7D">>,
     USAGE_DECLINE |-> <<"USAGE_DROP_MODERATE", "USAGE_COLLAPSE">>,
     REVENUE_DECLINE |-> <<"REVENUE_DECLINE", "REVENUE_COLLAPSE">>,
     BATTERY_DEGRADATION |-> <<"BATTERY_HEALTH_LOW", "BATTERY_HEALTH_CRITICAL">>,
     ROUTE_DEVIATION |-> <<"ROUTE_DEVIATION_MODERATE", "ROUTE_ABANDONED">>,
     TELEMETRY_GAP |-> <<"TELEMETRY_SILENT_2D", "TELEMETRY_SILENT_5D">>,
     CHARGING_DECLINE |-> <<"CHARGING_DROP_MODERATE", "CHARGING_DROP_SEVERE">>]

\* Pairs of a rule and one it outranks.
OUTRANKS ==
    {p \in RuleCode \X RuleCode :
        \E f \in DOMAIN FAMILIES : \E i, j \in DOMAIN FAMILIES[f] :
            i > j /\ p = <<FAMILIES[f][i], FAMILIES[f][j]>>}

supersedes(candidate, incumbent) == <<candidate, incumbent>> \in OUTRANKS

-------------------------------------------------------------------------------
(* Evaluation.  rules: a catalogue, from codes to rules.  Outcomes do not   *)
(* depend on the order of evaluation; only the alerts' numbers do, and they *)
(* are left out.                                                           *)

evaluate_rule(rule, snapshot) == \A c \in rule.conditions : evaluate_condition(c, snapshot)

fired(rules, snapshot) == {r \in DOMAIN rules : evaluate_rule(rules[r], snapshot)}

\* resolve_supersession and actionable
actionable(rules, snapshot) ==
    LET F == fired(rules, snapshot)
    IN  {r \in F : ~\E other \in F : supersedes(other, r)}

WorstOf(rules, codes) ==
    CASE \E r \in codes : rules[r].severity = "RED" -> "RED"
      [] (\E r \in codes : rules[r].severity = "YELLOW")
             /\ ~\E r \in codes : rules[r].severity = "RED" -> "YELLOW"
      [] codes = {} -> "GREEN"

loan_risk_status(rules, snapshot) == WorstOf(rules, actionable(rules, snapshot))

-------------------------------------------------------------------------------
(* Metrics.                                                                *)

\* _pct_change, in hundredths of a percent.  The code keeps every digit; rounded to the unit
\* above, which no LTE or GT against a whole unit can tell from it.
PctChange(current, baseline) ==
    UNION {safe_div(Above, 10000 * (c - b), b) : c \in current, b \in baseline}

\* 100 * v for a count that is not a NUMERIC(_, 2)
Count(x) == {100 * v : v \in x}

\* DSCR_ACTUAL.  Rounded to the unit below, which LT cannot tell.
Dscr(contribution, emi) ==
    UNION {safe_div(LAMBDA n, d : n \div d, 100 * c, e) : c \in contribution, e \in emi}

\* The metrics that the shipped rules read.
build_metric_snapshot(row) ==
    [DAYS_PAST_DUE |-> Count(row.days_past_due),
     CONSECUTIVE_MISSED_EMI |-> Count(row.consecutive_missed_emi),
     OVERDUE_AMOUNT |-> row.overdue_amount,
     PARTIAL_PAYMENT_COUNT_90D |-> Count(row.partial_payment_count_90d),
     USAGE_CHANGE_PCT |-> PctChange(row.avg_daily_km_7d, row.baseline_daily_km),
     ZERO_KM_STREAK |-> Count(row.zero_km_streak_days),
     ACTIVE_DAYS_30D |-> Count(row.active_days_30d),
     REVENUE_CHANGE_PCT |-> PctChange(row.estimated_revenue_30d, row.projected_revenue_30d),
     DSCR_ACTUAL |-> Dscr(row.estimated_revenue_30d, row.emi_amount),
     CHARGING_CHANGE_PCT |-> row.charging_change,
     BATTERY_SOH |-> row.latest_state_of_health,
     ROUTE_DEVIATION_PCT |-> row.avg_route_deviation_percent,
     DAYS_SINCE_TELEMETRY |-> Count(row.days_since_last_telemetry)]
===============================================================================
