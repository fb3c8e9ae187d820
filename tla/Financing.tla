------------------------------- MODULE Financing -------------------------------
(***************************************************************************)
(* What a loan costs and what a vehicle earns: app/engines/emi.py and      *)
(* vehicle_economics.py.  Daily and monthly money is in NPR, costs per km  *)
(* in paisa, rates in half per cent a year.  A loan is in thousands of     *)
(* NPR.  The code rounds an instalment, and what one supports, half up to  *)
(* the paisa; here the unit of both is ten NPR.                            *)
(***************************************************************************)
EXTENDS RouteScoring

-------------------------------------------------------------------------------
(* Instalments.                                                            *)

\* The precision of the annuity factors.
S == 2000

\* S times the present value of 1 a month, n months at h half per cent a year:
\* with it, EMI = P.r.(1+r)^n / ((1+r)^n - 1) is P / annuity.
annuity(h, n) ==
    LET a[k \in 0..n] == IF k = 0 THEN 0 ELSE HalfUp((a[k - 1] + S) * 2400, 2400 + h)
    IN  a[n]

CONSTANTS
    Tenures, \* the tenures in use, in months
    Rates    \* the rates in use

\* ck_app_tenure and ck_app_rate; a rate is more than nothing a month.
ASSUME TenuresAssumption == Tenures \subseteq 6..120
ASSUME RatesAssumption == Rates \subseteq 1..79

\* Evaluated once: the factors of every tenure and rate in use.
Annuity == [h \in Rates |-> [n \in Tenures |-> annuity(h, n)]]

calculate_emi(principal, h, n) == HalfUp(100 * principal * S, Annuity[h][n])

\* What an instalment, exact in paisa, supports: capacity * A / (1000 * S), the
\* thousands taken apart from the rest.
principal_from_emi(capacity, h, n) ==
    LET A == Annuity[h][n]
    IN  IF capacity <= 0 \/ n <= 0 THEN 0
        ELSE HalfUp((capacity \div 1000) * A + ((capacity % 1000) * A) \div 1000, S)

-------------------------------------------------------------------------------
(* Vehicle economics.  A wage, insurance and permit, which the service     *)
(* never passes, cost nothing.                                             *)

calculate_vehicle_economics(p) ==
    LET energy_cost_per_km ==
            OrZero(safe_div(HalfUp, p.battery_capacity_kwh * p.electricity_tariff_per_kwh
                                        * (100 + TERRAIN_FACTOR[p.gradient_profile]),
                            p.real_world_range_km))
        daily_net ==
            p.daily_trips * p.avg_revenue_per_trip
                - HalfUp(p.daily_km * (energy_cost_per_km + p.maintenance_cost_per_km), 100)
        monthly_net ==
            HalfUp(daily_net * p.operating_days_per_month * (365 - p.monsoon_disruption_days), 365)
    IN  [energy_cost_per_km       |-> {energy_cost_per_km},
         monthly_net_contribution |-> monthly_net,
         payback_months           |->
             IF monthly_net > 0
             THEN {HalfUp(10000 * (p.on_road_price - p.down_payment), monthly_net)} ELSE None,
         warranty_to_tenure_ratio |->
             safe_div(HalfUp, 12000 * p.battery_warranty_years, p.tenure_months)]

\* In thousandths.
dscr(economics, emi) == safe_div(HalfUp, 100 * economics.monthly_net_contribution, emi)
===============================================================================
