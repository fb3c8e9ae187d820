----------------------------- MODULE CreditDecision -----------------------------
(***************************************************************************)
(* A credit file and what is decided on it: services/route_assessment.py,  *)
(* services/credit.py and the assessment half of services/application.py   *)
(* bring the rows together, the three engines score them.                  *)
(*                                                                         *)
(* The file is a record of rows: the applicant, the financial profile the  *)
(* application pins with the obligations on file, the bureau report, the   *)
(* application's terms, the vehicle's model and the route.  Each step      *)
(* changes one figure of one row and assesses the application again with   *)
(* force_route_reassessment; each change is for the worse, and Scale says  *)
(* what worse is.                                                          *)
(***************************************************************************)
EXTENDS FinalDecision

CONSTANTS
    Files,        \* the files that are assessed first
    Scale,        \* Scale[<<row, column>>]: the values of a figure, the best first
    MaxRevisions  \* bound on the changes made to one file

VARIABLES
    file,       \* the rows
    assessment, \* the latest loan_assessments row, with what its two scores say
    revisions   \* changes made so far

vars == <<file, assessment, revisions>>

-------------------------------------------------------------------------------
(* The columns: what db/schema.sql lets one hold, and for a route, whose    *)
(* every write is a whole RouteBase, api/schemas/route.py.  A column        *)
(* without a check may hold any number, one without NOT NULL none.          *)

Nullable(values) == SUBSET values

Columns ==
    [applicant |->
        [applicant_type |-> INDIVIDUAL_TYPES \cup BUSINESS_TYPES, age_days |-> Nullable(Nat),
         has_licence |-> BOOLEAN, licence_days |-> Nullable(Int),
         driving_experience_years |-> Int, commercial_driving_years |-> Int,
         business_experience_years |-> Int, fleet_size |-> Int,
         has_previous_ev_experience |-> BOOLEAN],
     profile |->
        [total_monthly_income |-> Int, total_monthly_expenses |-> Int,
         total_existing_emi |-> Nat, existing_loan_count |-> Int,
         overdue_obligation_count |-> Nat, avg_bank_balance_6m |-> Int,
         income_proof_type |-> STRING, income_verified |-> BOOLEAN],
     report |->
        [bureau_score |-> Nullable(300..900), credit_history_months |-> Int,
         previous_default_count |-> Int, max_dpd_last_24m |-> Int, enquiries_last_6m |-> Int,
         current_overdue_amount |-> Int, is_blacklisted |-> BOOLEAN],
     application |->
        [requested_amount |-> Nat, requested_tenure_months |-> Tenures,
         proposed_interest_rate |-> Rates, down_payment |-> Nat, vehicle_on_road_price |-> Nat,
         expected_daily_km |-> Int, expected_operating_days_month |-> 1..31],
     model |->
        [battery_capacity_kwh |-> Int, real_world_range_km |-> Nat \ {0},
         maintenance_cost_per_km |-> Int, battery_warranty_years |-> Int],
     route |->
        [total_distance_km |-> 1..1000, road_type |-> STRING, road_condition |-> STRING,
         gradient_profile |-> DOMAIN TERRAIN_FACTOR, pitch_road_percent |-> 0..100,
         charging_station_count |-> Nat, fast_charger_count |-> Nat,
         max_charging_gap_km |-> Nullable(Nat), passenger_volume_daily |-> Nat,
         freight_volume_daily_tons |-> Nat, estimated_daily_trips |-> 1..60,
         avg_fare_per_trip |-> Nat, avg_freight_revenue_per_trip |-> Nat,
         traffic_density |-> STRING, competition_level |-> STRING, seasonal_risk |-> STRING,
         monsoon_disruption_days |-> 0..180, flood_landslide_risk |-> STRING,
         security_risk |-> STRING, electricity_tariff_per_kwh |-> 1..50,
         estimated_daily_operating_cost |-> Nat]]

IsFile(f) ==
    /\ DOMAIN f = DOMAIN Columns
    /\ \A row \in DOMAIN Columns :
           /\ DOMAIN f[row] = DOMAIN Columns[row]
           /\ \A column \in DOMAIN Columns[row] : f[row][column] \in Columns[row][column]

ASSUME FilesAssumption == \A f \in Files : IsFile(f)

\* A figure is a column of a row, and moves among values of the column.
ASSUME ScaleAssumption ==
    \A figure \in DOMAIN Scale :
        /\ figure[1] \in DOMAIN Columns
        /\ figure[2] \in DOMAIN Columns[figure[1]]
        /\ Scale[figure] \in Seq(Columns[figure[1]][figure[2]])

-------------------------------------------------------------------------------
(* From the rows to the engines.                                           *)

\* In tenths of a year and of a month, from days.
AgeYears(applicant) == {HalfUp(40 * days, 1461) : days \in applicant.age_days}

AgeAtMaturity(applicant, application) ==
    {HalfUp(240 * days + 7305 * application.requested_tenure_months, 8766) :
         days \in applicant.age_days}

LicenceMonthsRemaining(applicant) == {HalfUp(250 * days, 761) : days \in applicant.licence_days}

Economics(f) ==
    calculate_vehicle_economics(
        [battery_capacity_kwh       |-> f.model.battery_capacity_kwh,
         real_world_range_km        |-> f.model.real_world_range_km,
         maintenance_cost_per_km    |-> f.model.maintenance_cost_per_km,
         battery_warranty_years     |-> f.model.battery_warranty_years,
         on_road_price              |-> f.application.vehicle_on_road_price,
         daily_km                   |-> f.application.expected_daily_km,
         operating_days_per_month   |-> f.application.expected_operating_days_month,
         down_payment               |-> f.application.down_payment,
         tenure_months              |-> f.application.requested_tenure_months,
         daily_trips                |-> f.route.estimated_daily_trips,
         avg_revenue_per_trip       |-> f.route.avg_fare_per_trip
                                            + f.route.avg_freight_revenue_per_trip,
         electricity_tariff_per_kwh |-> f.route.electricity_tariff_per_kwh,
         gradient_profile           |-> f.route.gradient_profile,
         monsoon_disruption_days    |-> f.route.monsoon_disruption_days])

\* Without a report nothing is known of the credit history, and nothing is held
\* against it.
NoReport ==
    [bureau_score |-> None, credit_history_months |-> 0, previous_default_count |-> 0,
     max_dpd_last_24m |-> 0, enquiries_last_6m |-> 0, current_overdue_amount |-> 0,
     is_blacklisted |-> FALSE]

build_customer_input(f, route_grade) ==
    [applicant_type             |-> f.applicant.applicant_type,
     has_licence                |-> f.applicant.has_licence,
     driving_experience_years   |-> f.applicant.driving_experience_years,
     commercial_driving_years   |-> f.applicant.commercial_driving_years,
     business_experience_years  |-> f.applicant.business_experience_years,
     fleet_size                 |-> f.applicant.fleet_size,
     has_previous_ev_experience |-> f.applicant.has_previous_ev_experience,
     total_monthly_income       |-> f.profile.total_monthly_income,
     total_monthly_expenses     |-> f.profile.total_monthly_expenses,
     total_existing_emi         |-> f.profile.total_existing_emi,
     existing_loan_count        |-> f.profile.existing_loan_count,
     overdue_obligation_count   |-> f.profile.overdue_obligation_count,
     avg_bank_balance_6m        |-> f.profile.avg_bank_balance_6m,
     income_proof_type          |-> f.profile.income_proof_type,
     income_verified            |-> f.profile.income_verified,
     bureau_score               |-> f.report.bureau_score,
     credit_history_months      |-> f.report.credit_history_months,
     previous_default_count     |-> f.report.previous_default_count,
     max_dpd_last_24m           |-> f.report.max_dpd_last_24m,
     enquiries_last_6m          |-> f.report.enquiries_last_6m,
     current_overdue_amount     |-> f.report.current_overdue_amount,
     is_blacklisted             |-> f.report.is_blacklisted,
     requested_amount           |-> f.application.requested_amount,
     requested_tenure_months    |-> f.application.requested_tenure_months,
     proposed_interest_rate     |-> f.application.proposed_interest_rate,
     down_payment               |-> f.application.down_payment,
     vehicle_on_road_price      |-> f.application.vehicle_on_road_price,
     age_years                  |-> AgeYears(f.applicant),
     age_at_maturity            |-> AgeAtMaturity(f.applicant, f.application),
     licence_months_remaining   |-> LicenceMonthsRemaining(f.applicant),
     is_driver_operated         |-> f.applicant.applicant_type \in INDIVIDUAL_TYPES,
     proposed_emi               |-> calculate_emi(f.application.requested_amount,
                                              f.application.proposed_interest_rate,
                                              f.application.requested_tenure_months),
     route_grade                |-> route_grade,
     economics                  |-> {Economics(f)}]

\* The warranty is looked for where the customer engine never puts it, so that
\* the stored assessment does not cap the tenure by it.
build_final_input(customer, credit, route) ==
    [route_score             |-> route.total_score,
     route_grade             |-> route.grade,
     customer_score          |-> credit.total_score,
     customer_grade          |-> credit.grade,
     vehicle_economics_score |-> credit.vehicle_economics_score,
     economics               |-> CHOOSE e \in customer.economics : TRUE,
     customer_inputs         |-> customer,
     is_thin_file            |-> credit.is_thin_file,
     knockouts               |-> credit.knockouts,
     battery_warranty_months |-> 0]

Unassessed == [recommendation |-> "NONE"]

\* _persist: the loan_assessments row, with what its two scores say.
LoanAssessment(customer, route, credit, final) ==
    [final_score       |-> final.final_score,
     risk_grade        |-> final.risk_grade,
     structure         |-> final.structure,
     recommendation    |-> final.recommendation,
     failed_gates      |-> final.failed_gates,
     reasons           |-> final.reasons,
     route_score       |-> route.total_score,
     route_grade       |-> route.grade,
     charging_adequacy |-> route.charging_adequacy,
     customer_score    |-> credit.total_score,
     customer_grade    |-> credit.grade,
     is_thin_file      |-> credit.is_thin_file,
     risk_factors      |-> credit.risk_factors \cup route.risk_factors,
     proposed_emi      |-> customer.proposed_emi]

assess(f) ==
    LET route    == RouteScore(route_v2, f.route)
        customer == build_customer_input(f, {route.grade})
        credit   == CustomerScore(customer_v1, customer)
    IN  LoanAssessment(customer, route, credit,
            FinalAssess(final_v1, build_final_input(customer, credit, route)))

-------------------------------------------------------------------------------
(* The calculator behind an officer's sliders: no row is written.          *)

\* The officer's screen holds the stored scores and grades and all the rows.
\* The economics are computed for the structuring and not handed to the customer
\* engine; knock-outs and the thin file are not looked at.
score_final(f, stored) ==
    LET customer == [build_customer_input(f, {stored.route_grade}) EXCEPT !.economics = None]
    IN  FinalAssess(final_v1,
            [route_score             |-> stored.route_score,
             route_grade             |-> stored.route_grade,
             customer_score          |-> stored.customer_score,
             customer_grade          |-> stored.customer_grade,
             vehicle_economics_score |->
                 CustomerScore(customer_v1, customer).vehicle_economics_score,
             economics               |-> Economics(f),
             customer_inputs         |-> customer,
             is_thin_file            |-> FALSE,
             knockouts               |-> {},
             battery_warranty_months |-> 12 * f.model.battery_warranty_years])

-------------------------------------------------------------------------------
Init ==
    /\ file \in Files
    /\ assessment = Unassessed
    /\ revisions = 0

\* The first assessment; IncompleteDataError, and no row, when the route's data is incomplete.
Assess ==
    /\ assessment = Unassessed
    /\ require_complete(file.route)
    /\ assessment' = assess(file)
    /\ UNCHANGED <<file, revisions>>

\* One figure moves down its scale, and the application is assessed again.
Reassess(figure) ==
    LET row    == figure[1]
        column == figure[2]
        scale  == Scale[figure]
    IN  /\ assessment # Unassessed
        /\ revisions < MaxRevisions
        /\ \E i \in 1..Len(scale) - 1 :
               /\ file[row][column] = scale[i]
               /\ file' = [file EXCEPT ![row][column] = scale[i + 1]]
        /\ require_complete(file'.route)
        /\ assessment' = assess(file')
        /\ revisions' = revisions + 1

Next == Assess \/ (\E figure \in DOMAIN Scale : Reassess(figure))

Spec == Init /\ [][Next]_vars

-------------------------------------------------------------------------------
(* Properties.                                                             *)

Assessed == assessment # Unassessed

Rank(recommendation) ==
    CASE recommendation = "REJECT"        -> 0
      [] recommendation = "MANUAL_REVIEW" -> 1
      [] recommendation = "APPROVE"       -> 2

\* The ratios that have no value: there is no income to divide by, or the vehicle
\* earns nothing to pay itself back from.
Unknown(f) ==
    LET i == derive_customer_inputs(build_customer_input(f, None))
    IN  {ratio \in {"dti_ratio", "foir_post_loan", "payback_months"} : i[ratio] = None}

\* A figure that gets worse never gets the file a better decision: not an
\* approval it did not have, and, unless the change makes the file a thin one
\* (which scores 45 where a bad history may score less), neither a better
\* recommendation nor, for the same request, a larger amount.  Nor a higher
\* score, as long as it leaves every ratio known: one that is unknown scores 50,
\* where the worst values score nothing (engines/normalizer.py:27, 76), and what
\* the score gains by it no decision may follow.  Some thirty figures reach the
\* decision through six ratios, fourteen curves, two engines and the structuring
\* (services/application.py:409-421, engines/final_engine.py:138-218).
WorseNeverHelps ==
    [][Assessed =>
         /\ assessment'.recommendation = "APPROVE" => assessment.recommendation = "APPROVE"
         /\ (assessment'.is_thin_file => assessment.is_thin_file)
            => /\ Unknown(file') \subseteq Unknown(file)
                      => assessment'.final_score <= assessment.final_score
               /\ Rank(assessment'.recommendation) <= Rank(assessment.recommendation)
               /\ file'.application.requested_amount = file.application.requested_amount =>
                      assessment'.structure.recommended_amount
                          <= assessment.structure.recommended_amount]_vars

\* What is recommended can be paid: the amount is within what was asked, the
\* ceiling on the price and the product's maximum, the instalment is within what
\* both the income and the vehicle support, and nothing is approved without such
\* an amount (engines/structuring.py:128-163).  The amount that the capacity
\* supports is rounded half up, and so is its instalment: the instalment may pass
\* the capacity, by less than the unit it is rounded to.
StructureAffordable ==
    Assessed =>
        LET s == assessment.structure IN
        /\ s.is_viable =>
               /\ s.recommended_amount <= Least(file.application.requested_amount,
                                                structuring.max_amount)
               /\ 100 * s.recommended_amount
                      <= s.max_ltv_percent * file.application.vehicle_on_road_price
               /\ 100 * (10 * (s.estimated_emi - 1) + file.profile.total_existing_emi)
                      < structuring.foir_cap * file.profile.total_monthly_income
               /\ structuring.dscr_min * 10 * (s.estimated_emi - 1)
                      < 100 * Economics(file).monthly_net_contribution
        /\ assessment.recommendation = "APPROVE" => s.is_viable

GateReasons ==
    [FINAL_SCORE_BELOW_MINIMUM            |-> "FINAL_SCORE_BELOW_THRESHOLD",
     FINAL_SCORE_BELOW_APPROVAL_THRESHOLD |-> "FINAL_SCORE_BELOW_THRESHOLD",
     CUSTOMER_GRADE_UNACCEPTABLE          |-> "WEAK_CUSTOMER_GRADE",
     CUSTOMER_GRADE_OUTSIDE_APPROVAL_SET  |-> "WEAK_CUSTOMER_GRADE",
     ROUTE_GRADE_OUTSIDE_APPROVAL_SET     |-> "WEAK_ROUTE",
     DSCR_BELOW_MINIMUM                   |-> "LOW_DSCR",
     DSCR_BELOW_APPROVAL_THRESHOLD        |-> "LOW_DSCR",
     AMOUNT_BELOW_MINIMUM                 |-> "AMOUNT_BELOW_MINIMUM",
     THIN_CREDIT_FILE                     |-> "THIN_CREDIT_FILE"]

\* No decision is without its reasons: a gate that failed is named (a FOIR that
\* cannot be computed, for want of an income, shows as a disposable income that
\* is too tight), an approval has a reason for it and stands beside no factor
\* that denies it, what is not approved has a reason against it
\* (engines/decision_matrix.py:196-247; "no decision is ever returned without
\* reasons", docs/14-DEVELOPMENT-BACKLOG.md:107).
DecisionExplained ==
    Assessed =>
        LET gates    == assessment.failed_gates
            negative == assessment.reasons.negative IN
        /\ \A gate \in gates \cap DOMAIN GateReasons : GateReasons[gate] \in negative
        /\ "FOIR_ABOVE_APPROVAL_THRESHOLD" \in gates =>
               negative \cap {"HIGH_EMI_BURDEN", "TIGHT_DISPOSABLE_INCOME"} # {}
        /\ assessment.recommendation # "APPROVE" => negative # {}
        /\ assessment.recommendation = "APPROVE" =>
               /\ gates = {} /\ assessment.reasons.positive # {}
               /\ assessment.risk_factors
                      \cap {"LOW_DSCR", "HIGH_EMI_BURDEN", "THIN_CREDIT_FILE"} = {}

\* A vehicle that cannot be charged on its route: the verdict holds whatever the
\* curves give, so that such a route is never of Class A
\* (engines/route_engine.py:186-224).
UnchargeableNeverClassA ==
    Assessed /\ assessment.charging_adequacy = "INADEQUATE" => assessment.route_grade # "A"

\* The calculator behind the sliders answers what the stored assessment of the
\* same figures says: "a what-if that used different arithmetic from the
\* persisted assessment would show an officer one number and store another, so
\* these call the same engines with the same active configuration"
\* (services/scoring.py:7-10).
WhatIfAgrees ==
    Assessed => score_final(file, assessment).recommendation = assessment.recommendation
===============================================================================
