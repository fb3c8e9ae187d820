---------------------------- MODULE CustomerScoring ----------------------------
(***************************************************************************)
(* The customer engine and the knock-outs: app/engines/customer_engine.py  *)
(* and knockouts.py under the shipped customer_v1.json.  Incomes and       *)
(* balances are in NPR, ratios in thousandths, ages in tenths of a year,   *)
(* the licence's term and the payback in tenths of a month.                *)
(***************************************************************************)
EXTENDS Financing

-------------------------------------------------------------------------------
(* The scorecard.                                                          *)

CREDIT_HISTORY ==
    Composite([
        BUREAU_SCORE |-> Weighted(50, Linear("bureau_score",
            <<<<550, 0>>, <<600, 25>>, <<650, 45>>, <<700, 65>>, <<750, 82>>, <<800, 92>>,
              <<900, 100>>>>)),
        REPAYMENT_RECORD |-> Weighted(20, Linear("max_dpd_last_24m",
            <<<<0, 100>>, <<15, 80>>, <<30, 55>>, <<60, 30>>, <<90, 10>>, <<180, 0>>>>)),
        DEFAULT_HISTORY |-> Weighted(15, Linear("previous_default_count",
            <<<<0, 100>>, <<1, 45>>, <<2, 15>>, <<3, 0>>>>)),
        CREDIT_DEPTH |-> Weighted(10, Linear("credit_history_months",
            <<<<0, 20>>, <<6, 40>>, <<12, 60>>, <<24, 80>>, <<48, 95>>, <<72, 100>>>>)),
        ENQUIRY_BEHAVIOUR |-> Weighted(5, Linear("enquiries_last_6m",
            <<<<0, 100>>, <<1, 95>>, <<2, 85>>, <<4, 60>>, <<6, 30>>, <<10, 0>>>>))])

INCOME_CASHFLOW ==
    Composite([
        INCOME_ADEQUACY |-> Weighted(35, Linear("total_monthly_income",
            <<<<15000, 0>>, <<25000, 30>>, <<40000, 55>>, <<60000, 75>>, <<100000, 92>>,
              <<200000, 100>>>>)),
        DISPOSABLE_VS_EMI |-> Weighted(35, Linear("disposable_to_emi_ratio",
            <<<<800, 0>>, <<1000, 25>>, <<1300, 55>>, <<1600, 75>>, <<2000, 90>>, <<3000, 100>>>>)),
        INCOME_STABILITY |-> Weighted(20, Banded("income_proof_class", 50,
            [AUDITED_FINANCIALS |-> 100, BANK_STATEMENT_VERIFIED |-> 90,
             SALARY_SLIP_VERIFIED |-> 85, BANK_STATEMENT_UNVERIFIED |-> 60,
             SELF_DECLARED |-> 35])),
        BANKING_BEHAVIOUR |-> Weighted(10, Linear("balance_to_emi_ratio",
            <<<<0, 0>>, <<1000, 40>>, <<2000, 65>>, <<4000, 85>>, <<8000, 100>>>>))])

EXISTING_DEBT ==
    Composite([
        FOIR_POST_LOAN |-> Weighted(50, Linear("foir_post_loan",
            <<<<200, 100>>, <<350, 85>>, <<450, 65>>, <<550, 40>>, <<650, 15>>, <<800, 0>>>>)),
        DTI_PRE_LOAN |-> Weighted(25, Linear("dti_ratio",
            <<<<0, 100>>, <<150, 85>>, <<250, 65>>, <<400, 35>>, <<550, 10>>, <<700, 0>>>>)),
        OBLIGATION_COUNT |-> Weighted(15, Linear("existing_loan_count",
            <<<<0, 100>>, <<1, 90>>, <<2, 75>>, <<3, 55>>, <<4, 35>>, <<6, 10>>>>)),
        OVERDUE_OBLIGATIONS |-> Weighted(10, Linear("overdue_obligation_count",
            <<<<0, 100>>, <<1, 40>>, <<2, 10>>, <<3, 0>>>>))])

DOWN_PAYMENT ==
    Linear("down_payment_ratio",
        <<<<200, 30>>, <<250, 50>>, <<300, 68>>, <<400, 85>>, <<500, 95>>, <<600, 100>>>>)

EXPERIENCE ==
    Variants([
        INDIVIDUAL |-> [
            COMMERCIAL_YEARS |-> Weighted(50, Linear("commercial_driving_years",
                <<<<0, 10>>, <<1, 35>>, <<3, 60>>, <<5, 80>>, <<8, 92>>, <<12, 100>>>>)),
            DRIVING_YEARS |-> Weighted(25, Linear("driving_experience_years",
                <<<<0, 10>>, <<2, 40>>, <<5, 70>>, <<10, 90>>, <<15, 100>>>>)),
            EV_EXPERIENCE |-> Weighted(15, Banded("has_previous_ev_experience", 50,
                [ev \in BOOLEAN |-> IF ev THEN 100 ELSE 50])),
            LICENCE_VALIDITY |-> Weighted(10, Linear("licence_months_remaining",
                <<<<0, 0>>, <<60, 50>>, <<120, 80>>, <<240, 100>>>>))],
        BUSINESS |-> [
            BUSINESS_YEARS |-> Weighted(55, Linear("business_experience_years",
                <<<<0, 10>>, <<1, 30>>, <<3, 60>>, <<5, 78>>, <<10, 95>>, <<15, 100>>>>)),
            FLEET_SIZE |-> Weighted(25, Linear("fleet_size",
                <<<<0, 30>>, <<1, 50>>, <<3, 70>>, <<5, 85>>, <<10, 95>>, <<20, 100>>>>)),
            EV_EXPERIENCE |-> Weighted(20, Banded("has_previous_ev_experience", 45,
                [ev \in BOOLEAN |-> IF ev THEN 100 ELSE 45]))]])

VEHICLE_ECONOMICS ==
    Composite([
        DSCR |-> Weighted(45, Linear("dscr",
            <<<<800, 0>>, <<1000, 25>>, <<1250, 55>>, <<1500, 75>>, <<2000, 92>>, <<3000, 100>>>>)),
        ENERGY_EFFICIENCY |-> Weighted(20, Linear("energy_cost_per_km",
            <<<<100, 100>>, <<200, 85>>, <<300, 65>>, <<450, 35>>, <<600, 10>>>>)),
        PAYBACK |-> Weighted(20, Linear("payback_months",
            <<<<120, 100>>, <<240, 85>>, <<360, 65>>, <<480, 40>>, <<600, 20>>, <<840, 0>>>>)),
        WARRANTY_COVERAGE |-> Weighted(15, Linear("warranty_to_tenure_ratio",
            <<<<500, 20>>, <<750, 55>>, <<1000, 85>>, <<1250, 100>>>>))])

CustomerComponents ==
    [CREDIT_HISTORY    |-> ComponentConfig(30, CREDIT_HISTORY),
     INCOME_CASHFLOW   |-> ComponentConfig(25, INCOME_CASHFLOW),
     EXISTING_DEBT     |-> ComponentConfig(15, EXISTING_DEBT),
     DOWN_PAYMENT      |-> ComponentConfig(10, DOWN_PAYMENT),
     EXPERIENCE        |-> ComponentConfig(10, EXPERIENCE),
     VEHICLE_ECONOMICS |-> ComponentConfig(10, VEHICLE_ECONOMICS)]

\* The customer's bands are also those of the final score.
RiskBands ==
    <<GradeBand("A", 8500, 10000), GradeBand("B", 7000, 8499), GradeBand("C", 5500, 6999),
      GradeBand("D", 4000, 5499), GradeBand("E", 0, 3999)>>

customer_v1 == [components |-> CustomerComponents, grade_bands |-> RiskBands]

\* The shipped customer scorecard is accepted, and has a band for every score.
ASSUME ShippedCustomerScorecard ==
    validate_weights(customer_v1) /\ validate_bands(customer_v1) /\ EveryScoreHasABand(customer_v1)

-------------------------------------------------------------------------------
(* What the rules read.                                                    *)

INDIVIDUAL_TYPES == {"INDIVIDUAL_DRIVER", "OWNER_DRIVER"}
BUSINESS_TYPES == {"CORPORATE", "FLEET_OPERATOR", "SME", "TRANSPORT_COMPANY"}

applicant_class(p) == IF p.applicant_type \in INDIVIDUAL_TYPES THEN "INDIVIDUAL" ELSE "BUSINESS"

income_proof_class(p) ==
    CASE p.income_proof_type = "AUDITED_FINANCIALS" -> "AUDITED_FINANCIALS"
      [] p.income_proof_type = "SALARY_SLIP" /\ p.income_verified -> "SALARY_SLIP_VERIFIED"
      [] p.income_proof_type = "BANK_STATEMENT" /\ p.income_verified -> "BANK_STATEMENT_VERIFIED"
      [] p.income_proof_type \in {"SALARY_SLIP", "BANK_STATEMENT"} -> "BANK_STATEMENT_UNVERIFIED"
      [] OTHER -> "SELF_DECLARED"

\* The instalment is in tens of NPR; economics is None when the caller has none.
derive_customer_inputs(p) ==
    LET income == p.total_monthly_income
        debts  == p.total_existing_emi
        emi    == p.proposed_emi
    IN  [applicant_class            |-> applicant_class(p),
         bureau_score               |-> p.bureau_score,
         credit_history_months      |-> {p.credit_history_months},
         previous_default_count     |-> {p.previous_default_count},
         max_dpd_last_24m           |-> {p.max_dpd_last_24m},
         enquiries_last_6m          |-> {p.enquiries_last_6m},
         total_monthly_income       |-> {income},
         existing_loan_count        |-> {p.existing_loan_count},
         overdue_obligation_count   |-> {p.overdue_obligation_count},
         disposable_to_emi_ratio    |->
             safe_div(HalfUp, 100 * (income - p.total_monthly_expenses - debts), emi),
         balance_to_emi_ratio       |-> safe_div(HalfUp, 100 * p.avg_bank_balance_6m, emi),
         dti_ratio                  |-> safe_div(HalfUp, 1000 * debts, income),
         foir_post_loan             |-> safe_div(HalfUp, 1000 * (debts + 10 * emi), income),
         income_proof_class         |-> {income_proof_class(p)},
         income_verified            |-> p.income_verified,
         down_payment_ratio         |->
             safe_div(HalfUp, 1000 * p.down_payment, p.vehicle_on_road_price),
         driving_experience_years   |-> {p.driving_experience_years},
         commercial_driving_years   |-> {p.commercial_driving_years},
         business_experience_years  |-> {p.business_experience_years},
         fleet_size                 |-> {p.fleet_size},
         has_previous_ev_experience |-> {p.has_previous_ev_experience},
         licence_months_remaining   |-> p.licence_months_remaining,
         dscr                       |-> UNION {dscr(e, emi) : e \in p.economics},
         energy_cost_per_km         |-> UNION {e.energy_cost_per_km : e \in p.economics},
         payback_months             |-> UNION {e.payback_months : e \in p.economics},
         warranty_to_tenure_ratio   |-> UNION {e.warranty_to_tenure_ratio : e \in p.economics}]

-------------------------------------------------------------------------------
(* Knock-outs: all that fire.  The age of a used vehicle is never passed,  *)
(* so KO_VEHICLE_AGE cannot be among them, nor is a waiver for the route.  *)

evaluate_knockouts(p, i) == evaluate_factors(
    [KO_BLACKLIST          |-> p.is_blacklisted,
     KO_ACTIVE_DEFAULT     |-> p.previous_default_count > 0 /\ p.current_overdue_amount > 0,
     KO_BUREAU_SCORE_FLOOR |-> _lt(p.bureau_score, 550),
     KO_AGE_LIMIT          |-> /\ i.applicant_class = "INDIVIDUAL"
                               /\ _lt(p.age_years, 210) \/ _gt(p.age_at_maturity, 650),
     KO_LICENCE_INVALID    |-> /\ i.applicant_class = "INDIVIDUAL"
                               /\ p.is_driver_operated
                               /\ ~p.has_licence \/ _le(p.licence_months_remaining, 0),
     KO_MIN_DOWN_PAYMENT   |-> _lt(i.down_payment_ratio, 200),
     KO_MAX_AMOUNT         |-> p.requested_amount > 5000,
     KO_MAX_TENURE         |-> p.requested_tenure_months > 84,
     KO_ROUTE_CLASS_C      |-> p.route_grade = {"C"}])

CustomerRiskFactors(i) == evaluate_factors(
    [HIGH_EMI_BURDEN        |-> _gt(i.foir_post_loan, 550),
     WEAK_BUREAU_SCORE      |-> _lt(i.bureau_score, 600),
     MODERATE_BUREAU_SCORE  |-> _ge(i.bureau_score, 600) /\ _lt(i.bureau_score, 680),
     RECENT_DELINQUENCY     |-> _gt(i.max_dpd_last_24m, 30),
     THIN_CREDIT_FILE       |-> _lt(i.credit_history_months, 6),
     UNVERIFIED_INCOME      |-> i.income_proof_class = {"SELF_DECLARED"},
     MULTIPLE_OBLIGATIONS   |-> _ge(i.existing_loan_count, 3),
     CREDIT_HUNGRY          |-> _ge(i.enquiries_last_6m, 4),
     LOW_DSCR               |-> _lt(i.dscr, 1250),
     INEXPERIENCED_OPERATOR |-> /\ i.applicant_class = "INDIVIDUAL"
                                /\ _lt(i.commercial_driving_years, 1),
     LICENCE_EXPIRING       |-> /\ i.applicant_class = "INDIVIDUAL"
                                /\ _lt(i.licence_months_remaining, 60)])

CustomerPositiveFactors(i) == evaluate_factors(
    [STRONG_CREDIT_RECORD |-> _ge(i.bureau_score, 750) /\ 0 \in i.previous_default_count,
     CLEAN_REPAYMENT      |-> 0 \in i.max_dpd_last_24m,
     STRONG_DOWN_PAYMENT  |-> _ge(i.down_payment_ratio, 350),
     HEALTHY_DSCR         |-> _ge(i.dscr, 1500),
     EXPERIENCED_OPERATOR |-> /\ i.applicant_class = "INDIVIDUAL"
                              /\ _ge(i.commercial_driving_years, 5),
     ESTABLISHED_BUSINESS |-> /\ i.applicant_class = "BUSINESS"
                              /\ _ge(i.business_experience_years, 5),
     VERIFIED_INCOME      |-> i.income_verified,
     PRIOR_EV_EXPERIENCE  |-> TRUE \in i.has_previous_ev_experience])

-------------------------------------------------------------------------------
(* The engine.                                                             *)

DEFAULT_THIN_FILE_SCORE == 4500
THIN_FILE_MONTHS == 6

is_thin_file(p) == p.credit_history_months < THIN_FILE_MONTHS \/ p.bureau_score = None

\* A thin file has no credit history to break down: it scores the default.
customer_component(config, p, i, code) ==
    LET cfg == config.components[code]
    IN  make_component(cfg, IF code = "CREDIT_HISTORY" /\ is_thin_file(p)
                            THEN DEFAULT_THIN_FILE_SCORE ELSE normalize(cfg.scoring_rules, i))

\* Scored only when nothing knocks the file out; otherwise the lowest band at zero.
CustomerScore(config, p) ==
    LET i          == derive_customer_inputs(p)
        knockouts  == evaluate_knockouts(p, i)
        components == [code \in DOMAIN config.components |-> customer_component(config, p, i, code)]
        total      == aggregate(components)
    IN  IF knockouts # {}
        THEN [total_score |-> 0, grade |-> "E", vehicle_economics_score |-> 0,
              knockouts |-> knockouts, is_thin_file |-> FALSE,
              risk_factors |-> {}, positive_factors |-> {}]
        ELSE [total_score             |-> total,
              grade                   |-> band_for(config, total).grade,
              vehicle_economics_score |-> components.VEHICLE_ECONOMICS.normalized_score,
              knockouts               |-> {},
              is_thin_file            |-> is_thin_file(p),
              risk_factors            |-> CustomerRiskFactors(i),
              positive_factors        |-> CustomerPositiveFactors(i)]
===============================================================================
