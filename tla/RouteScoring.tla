------------------------------ MODULE RouteScoring ------------------------------
(***************************************************************************)
(* The route engine: app/engines/route_engine.py under the shipped         *)
(* scorecards route_v1.json and route_v2.json.  Distances are in km, money *)
(* a day in NPR, ratios and densities in thousandths, costs per km in      *)
(* paisa.  A route is the row the service marshals into the engine.        *)
(***************************************************************************)
EXTENDS Scorecard

-------------------------------------------------------------------------------
(* The scorecard.                                                          *)

CHARGING_INFRASTRUCTURE ==
    Composite([
        STATION_DENSITY |-> Weighted(40, Linear("charging_station_density",
            <<<<0, 0>>, <<500, 40>>, <<1000, 70>>, <<2000, 90>>, <<3000, 100>>>>)),
        MAX_GAP_VS_RANGE |-> Weighted(35, Linear("gap_to_range_ratio",
            <<<<0, 100>>, <<400, 85>>, <<600, 60>>, <<800, 30>>, <<1000, 0>>>>)),
        FAST_CHARGER_SHARE |-> Weighted(25, Linear("fast_charger_share",
            <<<<0, 20>>, <<250, 60>>, <<500, 85>>, <<1000, 100>>>>))])

ROAD_QUALITY ==
    Composite([
        ROAD_CONDITION |-> Weighted(45, Banded("road_condition", 50,
            [EXCELLENT |-> 100, GOOD |-> 85, FAIR |-> 65, POOR |-> 35, VERY_POOR |-> 10])),
        ROAD_TYPE |-> Weighted(30, Banded("road_type_effective", 50,
            [PITCH |-> 100, MIXED |-> -1, GRAVEL |-> 45, OFF_ROAD |-> 15])),
        GRADIENT |-> Weighted(25, Banded("gradient_profile", 60,
            [FLAT |-> 100, ROLLING |-> 80, HILLY |-> 55, STEEP |-> 30]))])

DEMAND ==
    Composite([
        TRIP_VOLUME |-> Weighted(40, Linear("estimated_daily_trips",
            <<<<0, 0>>, <<2, 30>>, <<4, 55>>, <<6, 75>>, <<8, 88>>, <<12, 100>>>>)),
        DEMAND_INDEX |-> Weighted(30, Linear("demand_index",
            <<<<0, 0>>, <<200, 40>>, <<600, 70>>, <<1200, 88>>, <<2500, 100>>>>)),
        TRAFFIC |-> Weighted(15, Banded("traffic_density", 70,
            [LOW |-> 55, MODERATE |-> 85, HIGH |-> 100, SEVERE |-> 70])),
        COMPETITION |-> Weighted(15, Banded("competition_level", 60,
            [LOW |-> 100, MODERATE |-> 75, HIGH |-> 45, SATURATED |-> 20]))])

REVENUE_POTENTIAL ==
    Composite([
        DAILY_MARGIN |-> Weighted(50, Linear("daily_margin",
            <<<<0, 0>>, <<500, 30>>, <<1000, 55>>, <<2000, 80>>, <<3500, 95>>, <<5000, 100>>>>)),
        MARGIN_RATIO |-> Weighted(30, Linear("margin_ratio",
            <<<<0, 0>>, <<150, 35>>, <<250, 60>>, <<350, 82>>, <<500, 100>>>>)),
        REVENUE_PER_KM |-> Weighted(20, Linear("revenue_per_km",
            <<<<0, 0>>, <<800, 35>>, <<1500, 65>>, <<2500, 88>>, <<4000, 100>>>>))])

Exposure == [NONE |-> 100, LOW |-> 85, MODERATE |-> 60, HIGH |-> 30, SEVERE |-> 5]

ROUTE_RISK ==
    Composite([
        FLOOD_LANDSLIDE |-> Weighted(35, Banded("flood_landslide_risk", 60, Exposure)),
        MONSOON |-> Weighted(30, Linear("monsoon_disruption_days",
            <<<<0, 100>>, <<10, 85>>, <<25, 65>>, <<45, 40>>, <<75, 15>>, <<120, 0>>>>)),
        SEASONAL |-> Weighted(20, Banded("seasonal_risk", 60, Exposure)),
        SECURITY |-> Weighted(15, Banded("security_risk", 70,
            [LOW |-> 100, MODERATE |-> 60, HIGH |-> 20]))])

RouteComponents ==
    [CHARGING_INFRASTRUCTURE |-> ComponentConfig(30, CHARGING_INFRASTRUCTURE),
     ROAD_QUALITY            |-> ComponentConfig(20, ROAD_QUALITY),
     DEMAND                  |-> ComponentConfig(30, DEMAND),
     REVENUE_POTENTIAL       |-> ComponentConfig(10, REVENUE_POTENTIAL),
     ROUTE_RISK              |-> ComponentConfig(10, ROUTE_RISK)]

RouteBands(class_a) ==
    <<GradeBand("A", class_a, 10000), GradeBand("B", 6000, class_a - 1),
      GradeBand("C", 0, 5999)>>

route_v1 == [components |-> RouteComponents, grade_bands |-> RouteBands(8000)]

\* The calibration review moved the boundary of Class A and nothing else.
route_v2 == [components |-> RouteComponents, grade_bands |-> RouteBands(8800)]

\* No shipped scorecard is refused, and no score falls between its bands.
ASSUME ShippedRouteScorecards ==
    \A config \in {route_v1, route_v2} :
        validate_weights(config) /\ validate_bands(config) /\ EveryScoreHasABand(config)

-------------------------------------------------------------------------------
(* What the rules read.                                                    *)

TERRAIN_FACTOR == [FLAT |-> 0, ROLLING |-> 8, HILLY |-> 18, STEEP |-> 30]

DEFAULT_REFERENCE_RANGE_KM == 140
DEFAULT_REFERENCE_BATTERY_KWH == 24

\* IncompleteRouteData otherwise, and then nothing is written.
require_complete(p) ==
    /\ p.total_distance_km > 0
    /\ p.estimated_daily_trips > 0
    /\ p.charging_station_count > 0 => p.max_charging_gap_km # None
    /\ p.passenger_volume_daily > 0 => p.avg_fare_per_trip > 0
    /\ p.freight_volume_daily_tons > 0 => p.avg_freight_revenue_per_trip > 0

OrZero(x) == IF x = None THEN 0 ELSE CHOOSE v \in x : TRUE

Thousandths(n, d) == OrZero(safe_div(HalfUp, 1000 * n, d))

derive_route_inputs(p) ==
    LET distance == p.total_distance_km
        trips    == p.estimated_daily_trips
        daily_km == trips * distance
        max_gap  == IF p.max_charging_gap_km = None THEN distance
                    ELSE CHOOSE gap \in p.max_charging_gap_km : TRUE
        energy_cost_per_km ==
            HalfUp(DEFAULT_REFERENCE_BATTERY_KWH * p.electricity_tariff_per_kwh
                       * (100 + TERRAIN_FACTOR[p.gradient_profile]),
                   DEFAULT_REFERENCE_RANGE_KM)
        daily_revenue == trips * (p.avg_fare_per_trip + p.avg_freight_revenue_per_trip)
        daily_margin  == daily_revenue - p.estimated_daily_operating_cost
                             - HalfUp(daily_km * energy_cost_per_km, 100)
    IN  [charging_station_count   |-> {p.charging_station_count},
         fast_charger_count       |-> {p.fast_charger_count},
         charging_station_density |-> {Thousandths(10 * p.charging_station_count, distance)},
         gap_to_range_ratio       |-> {Thousandths(max_gap, DEFAULT_REFERENCE_RANGE_KM)},
         fast_charger_share       |-> {Thousandths(p.fast_charger_count, p.charging_station_count)},
         road_condition           |-> {p.road_condition},
         road_type_effective      |-> {p.road_type},
         road_type_effective_computed_score |-> 4000 + 60 * p.pitch_road_percent,
         gradient_profile         |-> {p.gradient_profile},
         estimated_daily_trips    |-> {trips},
         demand_index             |-> {p.passenger_volume_daily + 10 * p.freight_volume_daily_tons},
         traffic_density          |-> {p.traffic_density},
         competition_level        |-> {p.competition_level},
         total_distance_km        |-> {distance},
         daily_margin             |-> {daily_margin},
         margin_ratio             |-> {Thousandths(daily_margin, daily_revenue)},
         revenue_per_km           |-> {OrZero(safe_div(HalfUp, 100 * daily_revenue, daily_km))},
         flood_landslide_risk     |-> {p.flood_landslide_risk},
         monsoon_disruption_days  |-> {p.monsoon_disruption_days},
         seasonal_risk            |-> {p.seasonal_risk},
         security_risk            |-> {p.security_risk}]

\* A gate and not a slider.
charging_adequacy(i) ==
    IF 0 \in i.charging_station_count \/ _gt(i.gap_to_range_ratio, 850) THEN "INADEQUATE"
    ELSE IF 1 \in i.charging_station_count \/ _gt(i.gap_to_range_ratio, 600) THEN "MARGINAL"
    ELSE "ADEQUATE"

revenue_potential(score) ==
    IF score >= 7500 THEN "HIGH" ELSE IF score >= 5000 THEN "MODERATE" ELSE "LOW"

RouteRiskFactors(i) == evaluate_factors(
    [NO_CHARGING_STATIONS       |-> 0 \in i.charging_station_count,
     CHARGING_GAP_EXCEEDS_RANGE |-> _gt(i.gap_to_range_ratio, 850),
     SPARSE_CHARGING            |-> /\ _lt(i.charging_station_density, 500)
                                    /\ 0 \notin i.charging_station_count,
     POOR_ROAD_CONDITION        |-> i.road_condition \subseteq {"POOR", "VERY_POOR"},
     STEEP_GRADIENT             |-> i.gradient_profile = {"STEEP"},
     HIGH_MONSOON_DISRUPTION    |-> _gt(i.monsoon_disruption_days, 30),
     LANDSLIDE_EXPOSURE         |-> i.flood_landslide_risk \subseteq {"HIGH", "SEVERE"},
     SATURATED_COMPETITION      |-> i.competition_level = {"SATURATED"},
     THIN_MARGIN                |-> _lt(i.margin_ratio, 150),
     LOW_TRIP_VOLUME            |-> _lt(i.estimated_daily_trips, 3),
     SEVERE_CONGESTION          |-> i.traffic_density = {"SEVERE"}])

RoutePositiveFactors(i) == evaluate_factors(
    [DENSE_CHARGING          |-> _ge(i.charging_station_density, 1500),
     FAST_CHARGING_AVAILABLE |-> _ge(i.fast_charger_count, 2),
     EXCELLENT_ROAD          |-> /\ i.road_condition \subseteq {"EXCELLENT", "GOOD"}
                                 /\ i.road_type_effective = {"PITCH"},
     STRONG_DEMAND           |-> _ge(i.demand_index, 800),
     HEALTHY_MARGIN          |-> _ge(i.margin_ratio, 300),
     SHORT_ROUTE_EV_FRIENDLY |-> /\ _le(i.total_distance_km, 40)
                                 /\ _ge(i.charging_station_density, 1000),
     NO_SEASONAL_DISRUPTION  |-> _le(i.monsoon_disruption_days, 5)])

-------------------------------------------------------------------------------
(* The engine.                                                             *)

INADEQUATE_CHARGING_CAP == 2500

\* Faulty variant: the verdict is reported but caps nothing.
route_component_uncapped(config, i, code) ==
    make_component(config.components[code], normalize(config.components[code].scoring_rules, i))

route_component(config, i, code) ==
    LET cfg        == config.components[code]
        normalized == normalize(cfg.scoring_rules, i)
        capped     == code = "CHARGING_INFRASTRUCTURE" /\ charging_adequacy(i) = "INADEQUATE"
    IN  make_component(cfg, IF capped /\ normalized > INADEQUATE_CHARGING_CAP
                            THEN INADEQUATE_CHARGING_CAP ELSE normalized)

RouteScore(config, p) ==
    LET i          == derive_route_inputs(p)
        components == [code \in DOMAIN config.components |-> route_component(config, i, code)]
        total      == aggregate(components)
    IN  [total_score       |-> total,
         grade             |-> band_for(config, total).grade,
         charging_adequacy |-> charging_adequacy(i),
         revenue_potential |-> revenue_potential(components.REVENUE_POTENTIAL.normalized_score),
         risk_factors      |-> RouteRiskFactors(i),
         positive_factors  |-> RoutePositiveFactors(i)]
===============================================================================
