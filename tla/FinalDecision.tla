----------------------------- MODULE FinalDecision -----------------------------
(***************************************************************************)
(* The final engine: app/engines/final_engine.py, structuring.py and       *)
(* decision_matrix.py under the shipped final_v1.json.  Units as in        *)
(* Financing; a loan-to-value ceiling is in per cent, so that a price in   *)
(* thousands times it is an amount in tens of NPR.                         *)
(***************************************************************************)
EXTENDS CustomerScoring

-------------------------------------------------------------------------------
(* The combined score and its policy.                                      *)

FinalComponents ==
    [ROUTE_SCORE             |-> ComponentConfig(40, Passthrough("route_score")),
     CUSTOMER_SCORE          |-> ComponentConfig(40, Passthrough("customer_score")),
     VEHICLE_ECONOMICS_SCORE |-> ComponentConfig(20, Passthrough("vehicle_economics_score"))]

structuring ==
    [ltv_by_grade          |-> [A |-> 80, B |-> 75, C |-> 70, D |-> 60],
     absolute_ltv_ceiling  |-> 80,
     tenure_by_grade       |-> [A |-> 84, B |-> 72, C |-> 60, D |-> 48],
     base_interest_rate    |-> 25,
     grade_rate_premium    |-> [A |-> 0, B |-> 1, C |-> 3, D |-> 6],
     foir_cap              |-> 55,
     dscr_min              |-> 125,
     min_amount            |-> 100,
     max_amount            |-> 5000,
     warranty_grace_months |-> 12,
     amount_rounding       |-> 10]

approve ==
    [min_final_score |-> 7500, allowed_customer_grades |-> {"A", "B"},
     allowed_route_grades |-> {"A", "B"}, min_dscr |-> 1300, max_foir |-> 500]

reject ==
    [max_final_score |-> 5000, disallowed_customer_grades |-> {"E"}, min_dscr |-> 1000]

final_v1 == [components |-> FinalComponents, grade_bands |-> RiskBands]

\* The rates and the tenures in use include those that are recommended: the base
\* rate with each grade's premium, a tenure cut down to each grade's.
ASSUME RecommendedTermsAssumption ==
    \A grade \in DOMAIN structuring.tenure_by_grade :
        /\ structuring.base_interest_rate + structuring.grade_rate_premium[grade] \in Rates
        /\ \A n \in Tenures : n > structuring.tenure_by_grade[grade]
                => structuring.tenure_by_grade[grade] \in Tenures

ASSUME ShippedFinalScorecard ==
    validate_weights(final_v1) /\ validate_bands(final_v1) /\ EveryScoreHasABand(final_v1)

CombinedScore(config, p) ==
    LET i == [route_score |-> {p.route_score}, customer_score |-> {p.customer_score},
              vehicle_economics_score |-> {p.vehicle_economics_score}]
    IN  aggregate([code \in DOMAIN config.components |->
            make_component(config.components[code],
                           normalize(config.components[code].scoring_rules, i))])

-------------------------------------------------------------------------------
(* Structuring.                                                            *)

Least(a, b) == IF a <= b THEN a ELSE b
Greatest(a, b) == IF a >= b THEN a ELSE b

\* Neither offered nor viable: grade E, or knocked out.
NoStructure(constraint) ==
    [recommended_amount |-> 0, recommended_tenure_months |-> 0,
     recommended_interest_rate |-> 0, estimated_emi |-> 0, emi_capacity |-> 0,
     max_ltv_percent |-> 0, dscr |-> None, foir_post_loan |-> None,
     binding_constraint |-> constraint, is_viable |-> FALSE]

\* The warranty caps the tenure where it is known; 0 says that it is not.
StructuredTenure(p) ==
    LET by_grade == Least(p.requested_tenure_months, structuring.tenure_by_grade[p.grade])
        by_warranty ==
            IF p.battery_warranty_months = 0 THEN by_grade
            ELSE Least(by_grade, p.battery_warranty_months + structuring.warranty_grace_months)
    IN  Greatest(by_warranty, 6)

\* Exact, in paisa (dscr_min divides 10000).
emi_by_foir(p) == structuring.foir_cap * p.total_monthly_income - 100 * p.total_existing_emi
emi_by_dscr(p) == Greatest(0, (10000 \div structuring.dscr_min) * p.monthly_net_contribution)

\* The least of the four amounts, in tens of NPR, says which constraint binds;
\* rounded down to what a sanction letter carries, it is recommended.
StructureAt(p, tenure, rate, amount_by_ltv, capacity) ==
    LET candidates ==
            [REQUESTED |-> 100 * p.requested_amount, LTV_CAP |-> amount_by_ltv,
             EMI_CAPACITY |-> principal_from_emi(capacity, rate, tenure),
             PRODUCT_MAX |-> 100 * structuring.max_amount]
        least       == CHOOSE k \in DOMAIN candidates :
                           \A j \in DOMAIN candidates : candidates[k] <= candidates[j]
        recommended == (candidates[least] \div (100 * structuring.amount_rounding))
                           * structuring.amount_rounding
        viable      == recommended >= structuring.min_amount
        emi         == IF recommended > 0 THEN calculate_emi(recommended, rate, tenure) ELSE 0
    IN  [recommended_amount        |-> recommended,
         recommended_tenure_months |-> tenure,
         recommended_interest_rate |-> rate,
         estimated_emi             |-> emi,
         emi_capacity              |-> capacity,
         max_ltv_percent           |-> Least(structuring.ltv_by_grade[p.grade],
                                             structuring.absolute_ltv_ceiling),
         dscr                      |-> safe_div(HalfUp, 100 * p.monthly_net_contribution, emi),
         foir_post_loan            |-> safe_div(HalfUp, 1000 * (p.total_existing_emi + 10 * emi),
                                                p.total_monthly_income),
         binding_constraint        |-> IF viable THEN least ELSE "BELOW_PRODUCT_MINIMUM",
         is_viable                 |-> viable]

\* Faulty variant: the capacity takes no account of what is already owed.
structure_loan_ignoring_debts(p) ==
    IF p.grade \notin DOMAIN structuring.ltv_by_grade THEN NoStructure("GRADE_NOT_OFFERED")
    ELSE StructureAt(p, StructuredTenure(p),
                     structuring.base_interest_rate + structuring.grade_rate_premium[p.grade],
                     p.vehicle_on_road_price * structuring.ltv_by_grade[p.grade],
                     Least(emi_by_foir([p EXCEPT !.total_existing_emi = 0]), emi_by_dscr(p)))

structure_loan(p) ==
    IF p.grade \notin DOMAIN structuring.ltv_by_grade THEN NoStructure("GRADE_NOT_OFFERED")
    ELSE StructureAt(p, StructuredTenure(p),
                     structuring.base_interest_rate + structuring.grade_rate_premium[p.grade],
                     p.vehicle_on_road_price * Least(structuring.ltv_by_grade[p.grade],
                                                     structuring.absolute_ltv_ceiling),
                     Greatest(0, Least(emi_by_foir(p), emi_by_dscr(p))))

-------------------------------------------------------------------------------
(* The decision matrix.                                                    *)

\* Faulty variant: an unknown ratio passes its gate.
ApproveGatesTrusting(d) == evaluate_factors(
    [FINAL_SCORE_BELOW_APPROVAL_THRESHOLD |-> d.final_score < approve.min_final_score,
     CUSTOMER_GRADE_OUTSIDE_APPROVAL_SET  |-> d.customer_grade \notin approve.allowed_customer_grades,
     ROUTE_GRADE_OUTSIDE_APPROVAL_SET     |-> d.route_grade \notin approve.allowed_route_grades,
     DSCR_BELOW_APPROVAL_THRESHOLD        |-> _lt(d.dscr, approve.min_dscr),
     FOIR_ABOVE_APPROVAL_THRESHOLD        |-> _gt(d.foir_post_loan, approve.max_foir)])

RejectGates(d) == evaluate_factors(
    [FINAL_SCORE_BELOW_MINIMUM   |-> d.final_score < reject.max_final_score,
     CUSTOMER_GRADE_UNACCEPTABLE |-> d.customer_grade \in reject.disallowed_customer_grades,
     DSCR_BELOW_MINIMUM          |-> _lt(d.dscr, reject.min_dscr),
     AMOUNT_BELOW_MINIMUM        |-> ~d.structure_viable])

ApproveGates(d) == evaluate_factors(
    [FINAL_SCORE_BELOW_APPROVAL_THRESHOLD |-> d.final_score < approve.min_final_score,
     CUSTOMER_GRADE_OUTSIDE_APPROVAL_SET  |-> d.customer_grade \notin approve.allowed_customer_grades,
     ROUTE_GRADE_OUTSIDE_APPROVAL_SET     |-> d.route_grade \notin approve.allowed_route_grades,
     DSCR_BELOW_APPROVAL_THRESHOLD        |-> ~_ge(d.dscr, approve.min_dscr),
     FOIR_ABOVE_APPROVAL_THRESHOLD        |-> ~_le(d.foir_post_loan, approve.max_foir),
     THIN_CREDIT_FILE                     |-> d.is_thin_file])

\* Four rows, the first that matches wins; a fatal DSCR goes before an approval.
decide(d) ==
    IF d.knockouts # {} THEN [decision |-> "REJECT", failed_gates |-> d.knockouts]
    ELSE IF RejectGates(d) # {} THEN [decision |-> "REJECT", failed_gates |-> RejectGates(d)]
    ELSE IF ApproveGates(d) # {}
         THEN [decision |-> "MANUAL_REVIEW", failed_gates |-> ApproveGates(d)]
    ELSE [decision |-> "APPROVE", failed_gates |-> {}]

-------------------------------------------------------------------------------
(* Reasons.  The service passes no factors of the two other engines, so    *)
(* none is carried forward, whatever their severity.                       *)

NegativeReasons(gates, d) == evaluate_factors(
    [HIGH_EMI_BURDEN             |-> /\ "FOIR_ABOVE_APPROVAL_THRESHOLD" \in gates
                                     /\ d.foir_post_loan # None,
     TIGHT_DISPOSABLE_INCOME     |-> _lt(d.disposable_to_emi, 1300),
     LOW_DSCR                    |-> gates \cap {"DSCR_BELOW_MINIMUM",
                                                 "DSCR_BELOW_APPROVAL_THRESHOLD"} # {},
     FINAL_SCORE_BELOW_THRESHOLD |-> gates \cap {"FINAL_SCORE_BELOW_MINIMUM",
                                                 "FINAL_SCORE_BELOW_APPROVAL_THRESHOLD"} # {},
     WEAK_ROUTE                  |-> "ROUTE_GRADE_OUTSIDE_APPROVAL_SET" \in gates,
     WEAK_CUSTOMER_GRADE         |-> gates \cap {"CUSTOMER_GRADE_UNACCEPTABLE",
                                                 "CUSTOMER_GRADE_OUTSIDE_APPROVAL_SET"} # {},
     THIN_CREDIT_FILE            |-> "THIN_CREDIT_FILE" \in gates,
     AMOUNT_BELOW_MINIMUM        |-> "AMOUNT_BELOW_MINIMUM" \in gates])

PositiveReasons(d) == evaluate_factors(
    [HEALTHY_DSCR         |-> _ge(d.dscr, 1500),
     STRONG_ROUTE         |-> d.route_grade \in {"A", "B"},
     STRONG_CREDIT_RECORD |-> _ge(d.bureau_score, 700),
     STRONG_DOWN_PAYMENT  |-> _ge(d.down_payment_ratio, 250)])

\* Faulty variant: the reasons for a rejection are those for a referral only.
build_reasons_of_referral(outcome, d) ==
    IF d.knockouts # {} THEN [negative |-> d.knockouts, positive |-> {}]
    ELSE [negative |-> NegativeReasons(outcome.failed_gates \cap DOMAIN
                           [CUSTOMER_GRADE_OUTSIDE_APPROVAL_SET |-> 0, THIN_CREDIT_FILE |-> 0,
                            FINAL_SCORE_BELOW_APPROVAL_THRESHOLD |-> 0], d),
          positive |-> PositiveReasons(d)]

build_reasons(outcome, d) ==
    IF d.knockouts # {} THEN [negative |-> d.knockouts, positive |-> {}]
    ELSE [negative |-> NegativeReasons(outcome.failed_gates, d),
          positive |-> PositiveReasons(d)]

-------------------------------------------------------------------------------
(* The whole assessment.                                                   *)

\* The ratios are those of the amount that was asked for.
RequestedRatios(c, economics) ==
    LET emi == IF c.requested_amount = 0 THEN 0
               ELSE calculate_emi(c.requested_amount, c.proposed_interest_rate,
                                  c.requested_tenure_months)
    IN  [emi |-> emi,
         dscr |-> dscr(economics, emi),
         foir_post_loan |-> safe_div(HalfUp, 1000 * (c.total_existing_emi + 10 * emi),
                                     c.total_monthly_income)]

FinalAssess(config, p) ==
    LET c         == p.customer_inputs
        derived   == derive_customer_inputs(c)
        requested == RequestedRatios(c, p.economics)
        score     == IF p.knockouts # {} THEN 0 ELSE CombinedScore(config, p)
        grade     == band_for(config, score).grade
        structure ==
            IF p.knockouts # {} THEN NoStructure("KNOCKOUT")
            ELSE structure_loan(
                [grade |-> grade,
                 requested_amount |-> c.requested_amount,
                 requested_tenure_months |-> c.requested_tenure_months,
                 vehicle_on_road_price |-> c.vehicle_on_road_price,
                 total_monthly_income |-> c.total_monthly_income,
                 total_existing_emi |-> c.total_existing_emi,
                 monthly_net_contribution |-> p.economics.monthly_net_contribution,
                 battery_warranty_months |-> p.battery_warranty_months])
        d == [final_score |-> score, customer_grade |-> p.customer_grade,
              route_grade |-> p.route_grade, dscr |-> requested.dscr,
              foir_post_loan |-> requested.foir_post_loan, is_thin_file |-> p.is_thin_file,
              knockouts |-> p.knockouts, structure_viable |-> structure.is_viable,
              disposable_to_emi |-> derived.disposable_to_emi_ratio,
              bureau_score |-> c.bureau_score,
              down_payment_ratio |-> derived.down_payment_ratio]
        outcome == decide(d)
    IN  [final_score |-> score, risk_grade |-> grade, structure |-> structure,
         recommendation |-> outcome.decision, failed_gates |-> outcome.failed_gates,
         reasons |-> build_reasons(outcome, d)]
===============================================================================
