---------------------------- MODULE MCCreditDecision ----------------------------
(***************************************************************************)
(* Eight files: an owner-driver the system approves, a fleet it approves,  *)
(* a driver it refers, one whose instalment is at the edge of what he can  *)
(* pay, one it nearly rejects, one with no bureau report, one who owes     *)
(* more than he earns and one whose vehicle earns next to nothing.         *)
(***************************************************************************)
EXTENDS CreditDecision

MCTenures == {6, 36, 48, 60, 72}
MCRates == {25, 26, 28, 31}

Corridor ==
    [total_distance_km |-> 30, road_type |-> "PITCH", road_condition |-> "GOOD",
     gradient_profile |-> "FLAT", pitch_road_percent |-> 80,
     charging_station_count |-> 5, fast_charger_count |-> 3, max_charging_gap_km |-> {10},
     passenger_volume_daily |-> 1400, freight_volume_daily_tons |-> 0,
     estimated_daily_trips |-> 6, avg_fare_per_trip |-> 900, avg_freight_revenue_per_trip |-> 0,
     traffic_density |-> "MODERATE", competition_level |-> "MODERATE", seasonal_risk |-> "LOW",
     monsoon_disruption_days |-> 4, flood_landslide_risk |-> "LOW", security_risk |-> "LOW",
     electricity_tariff_per_kwh |-> 12, estimated_daily_operating_cost |-> 800]

\* As good as a corridor gets, but long enough for a gap to strand a vehicle.
TrunkRoad ==
    [Corridor EXCEPT !.total_distance_km = 125, !.road_condition = "EXCELLENT",
                     !.charging_station_count = 40, !.fast_charger_count = 40,
                     !.max_charging_gap_km = {12}, !.passenger_volume_daily = 2500,
                     !.estimated_daily_trips = 12, !.traffic_density = "HIGH",
                     !.competition_level = "LOW", !.seasonal_risk = "NONE",
                     !.monsoon_disruption_days = 0, !.flood_landslide_risk = "NONE"]

HillRoad ==
    [Corridor EXCEPT !.total_distance_km = 125, !.road_type = "MIXED",
                     !.charging_station_count = 15, !.fast_charger_count = 3,
                     !.max_charging_gap_km = {90}, !.estimated_daily_trips = 4,
                     !.avg_fare_per_trip = 1800, !.competition_level = "HIGH"]

Minibus ==
    [battery_capacity_kwh |-> 24, real_world_range_km |-> 140, maintenance_cost_per_km |-> 55,
     battery_warranty_years |-> 5]

Terms ==
    [requested_amount |-> 1500, requested_tenure_months |-> 60, proposed_interest_rate |-> 26,
     down_payment |-> 1000, vehicle_on_road_price |-> 2500, expected_daily_km |-> 180,
     expected_operating_days_month |-> 26]

OwnerDriver ==
    [applicant_type |-> "OWNER_DRIVER", age_days |-> {13000}, has_licence |-> TRUE,
     licence_days |-> {1100}, driving_experience_years |-> 12, commercial_driving_years |-> 6,
     business_experience_years |-> 0, fleet_size |-> 0, has_previous_ev_experience |-> TRUE]

Fleet ==
    [applicant_type |-> "FLEET_OPERATOR", age_days |-> None, has_licence |-> FALSE,
     licence_days |-> None, driving_experience_years |-> 0, commercial_driving_years |-> 0,
     business_experience_years |-> 8, fleet_size |-> 6, has_previous_ev_experience |-> FALSE]

Profile ==
    [total_monthly_income |-> 130000, total_monthly_expenses |-> 35000,
     total_existing_emi |-> 5000, existing_loan_count |-> 1, overdue_obligation_count |-> 0,
     avg_bank_balance_6m |-> 150000, income_proof_type |-> "BANK_STATEMENT",
     income_verified |-> TRUE]

Report ==
    [bureau_score |-> {760}, credit_history_months |-> 48, previous_default_count |-> 0,
     max_dpd_last_24m |-> 0, enquiries_last_6m |-> 1, current_overdue_amount |-> 0,
     is_blacklisted |-> FALSE]

File(applicant, profile, report, route) ==
    [applicant |-> applicant, profile |-> profile, report |-> report, application |-> Terms,
     model |-> Minibus, route |-> route]

Approved == File(OwnerDriver, Profile, Report, Corridor)

Referred ==
    File([OwnerDriver EXCEPT !.commercial_driving_years = 1, !.has_previous_ev_experience = FALSE],
         [Profile EXCEPT !.total_monthly_income = 75000, !.avg_bank_balance_6m = 30000],
         [Report EXCEPT !.bureau_score = {620}, !.credit_history_months = 12],
         [Corridor EXCEPT !.competition_level = "HIGH", !.estimated_daily_trips = 4])

Marginal ==
    File([OwnerDriver EXCEPT !.commercial_driving_years = 0, !.driving_experience_years = 3,
                             !.has_previous_ev_experience = FALSE, !.licence_days = {120}],
         [Profile EXCEPT !.total_monthly_income = 60000, !.avg_bank_balance_6m = 30000,
                         !.income_verified = FALSE, !.existing_loan_count = 3],
         [Report EXCEPT !.bureau_score = {620}, !.credit_history_months = 12,
                        !.max_dpd_last_24m = 45],
         HillRoad)

\* His capacity is just below what 1350 thousand cost, and supports them rounded.
AtTheEdge == [Referred EXCEPT !.profile.total_existing_emi = 10534]

Indebted ==
    File(OwnerDriver,
         [Profile EXCEPT !.total_monthly_income = 20000, !.total_existing_emi = 20000],
         Report, Corridor)

Idle ==
    File(OwnerDriver, Profile, Report,
         [Corridor EXCEPT !.estimated_daily_trips = 1, !.avg_fare_per_trip = 500])

MCFiles ==
    {Approved, Referred, AtTheEdge, Marginal, Indebted, Idle,
     File(Fleet, Profile, Report, TrunkRoad), File(OwnerDriver, Profile, NoReport, Corridor)}

Figure(row, columns) == {<<row, column>> : column \in DOMAIN columns}

ApplicantScale ==
    [age_days |-> <<{13000}, {21900}>>, has_licence |-> <<TRUE, FALSE>>,
     licence_days |-> <<{1100}, {120}, {0}>>, driving_experience_years |-> <<12, 3>>,
     commercial_driving_years |-> <<6, 1, 0>>, business_experience_years |-> <<8, 2>>,
     fleet_size |-> <<6, 1>>, has_previous_ev_experience |-> <<TRUE, FALSE>>]

ProfileScale ==
    [total_monthly_income |-> <<130000, 75000, 60000, 20000, 0>>,
     total_monthly_expenses |-> <<35000, 60000>>, total_existing_emi |-> <<5000, 20000, 45000>>,
     existing_loan_count |-> <<1, 3>>, overdue_obligation_count |-> <<0, 1>>,
     avg_bank_balance_6m |-> <<150000, 30000>>, income_verified |-> <<TRUE, FALSE>>,
     income_proof_type |-> <<"BANK_STATEMENT", "SELF_DECLARED">>]

ReportScale ==
    [bureau_score |-> <<{760}, {620}, {540}>>, credit_history_months |-> <<48, 12, 5>>,
     previous_default_count |-> <<0, 1, 3>>, max_dpd_last_24m |-> <<0, 45, 120>>,
     enquiries_last_6m |-> <<1, 5>>, current_overdue_amount |-> <<0, 8000>>,
     is_blacklisted |-> <<FALSE, TRUE>>]

TermsScale ==
    [requested_amount |-> <<1500, 2000>>, down_payment |-> <<1000, 600, 400>>,
     expected_daily_km |-> <<180, 260>>, expected_operating_days_month |-> <<26, 20>>]

ModelScale ==
    [battery_capacity_kwh |-> <<24, 60>>, real_world_range_km |-> <<140, 90>>,
     battery_warranty_years |-> <<5, 2>>]

RouteScale ==
    [road_type |-> <<"PITCH", "MIXED", "OFF_ROAD">>, road_condition |-> <<"GOOD", "VERY_POOR">>,
     gradient_profile |-> <<"FLAT", "STEEP">>, fast_charger_count |-> <<40, 3, 0>>,
     max_charging_gap_km |-> <<{12}, {90}, {120}>>, passenger_volume_daily |-> <<2500, 1400, 300>>,
     estimated_daily_trips |-> <<12, 6, 4, 2>>, avg_fare_per_trip |-> <<1800, 900, 500>>,
     competition_level |-> <<"LOW", "MODERATE", "HIGH", "SATURATED">>, seasonal_risk |-> <<"NONE", "LOW", "SEVERE">>,
     monsoon_disruption_days |-> <<4, 60>>, flood_landslide_risk |-> <<"LOW", "SEVERE">>,
     security_risk |-> <<"LOW", "HIGH">>, electricity_tariff_per_kwh |-> <<12, 20>>,
     estimated_daily_operating_cost |-> <<800, 2000>>]

ScaleOf(row, columns) == [figure \in Figure(row, columns) |-> columns[figure[2]]]

MCScale ==
    ScaleOf("applicant", ApplicantScale) @@ ScaleOf("profile", ProfileScale)
        @@ ScaleOf("report", ReportScale) @@ ScaleOf("application", TermsScale)
        @@ ScaleOf("model", ModelScale) @@ ScaleOf("route", RouteScale)
===============================================================================
